------------------------- MODULE PixelDeviceProofs --------------------------
(***************************************************************************)
(* Proofs about PixelDevice: the sizes that an open device relies on agree *)
(* after any sequence of calls, no call leaves the device's memory, the    *)
(* shifts in place rotate the picture and keep its symmetry, and colours   *)
(* keep their order on the way to the chip.                                *)
(*                                                                         *)
(* The loops of the code are recursive functions.  What they compute is    *)
(* proved by induction over the set of steps for which it is known.        *)
(***************************************************************************)
EXTENDS PixelDevice, FiniteSetTheorems, TLAPS

-----------------------------------------------------------------------------
(* Induction.                                                              *)

\* A set of numbers that is not empty has a least one: the initial segments 0 .. n are
\* finite sets, which inclusion orders well.
LEMMA LeastNumber ==
  ASSUME NEW T, T \subseteq Nat, T # {}
  PROVE  \E m \in T : \A k \in T : m <= k
<1> DEFINE R == StrictSubsetOrdering(Nat)
           U == {0 .. n : n \in T}
<1>1. IsWellFoundedOn(R, FiniteSubsetsOf(Nat))
  BY FS_StrictSubsetOrderingWellFounded
<1>2. U \subseteq FiniteSubsetsOf(Nat)
  <2> SUFFICES ASSUME NEW n \in T PROVE 0 .. n \in FiniteSubsetsOf(Nat)
    OBVIOUS
  <2>1. IsFiniteSet(0 .. n)
    BY FS_Interval
  <2> QED
    BY <2>1 DEF FiniteSubsetsOf
<1>3. U # {}
  OBVIOUS
<1> HIDE DEF R, U
<1>4. \E x \in U : \A y \in U : ~(<<y, x>> \in R)
  BY <1>1, <1>2, <1>3, WFMin
<1>5. PICK m \in T : \A k \in T : ~(<<0 .. k, 0 .. m>> \in R)
  BY <1>4 DEF U
<1>6. ASSUME NEW k \in T, k < m PROVE FALSE
  <2>1. 0 .. k \subseteq 0 .. m /\ 0 .. k # 0 .. m /\ 0 .. m \subseteq Nat /\ 0 .. k \subseteq Nat
    BY <1>6
  <2> QED
    BY <1>5, <2>1 DEF R, StrictSubsetOrdering
<1> QED
  BY <1>6

\* Induction up to N, for a set in place of a predicate.
LEMMA UpTo ==
  ASSUME NEW N \in Nat, NEW T, 0 \in T, \A k \in 1 .. N : k - 1 \in T => k \in T
  PROVE  0 .. N \subseteq T
<1> DEFINE Missed == {k \in 0 .. N : k \notin T}
<1> SUFFICES ASSUME Missed # {} PROVE FALSE
  OBVIOUS
<1>0. Missed \subseteq Nat
  OBVIOUS
<1>1. PICK m \in Missed : \A k \in Missed : m <= k
  <2> HIDE DEF Missed
  <2> QED
    BY <1>0, LeastNumber
<1>2. m \in 1 .. N /\ m - 1 \in 0 .. N
  OBVIOUS
<1>3. m - 1 \in T
  BY <1>1, <1>2
<1> QED
  BY <1>2, <1>3

\* There is a function that starts with s and takes the step F[k] from k - 1 to k.
Iterable(N, S, s, F) ==
  \E g \in [0 .. N -> S] : g[0] = s /\ \A k \in 1 .. N : g[k] = F[k][g[k - 1]]

\* A recursive definition over 0 .. N has a solution.
LEMMA StepByStep ==
  ASSUME NEW N \in Nat, NEW S, NEW s \in S, NEW F \in [1 .. N -> [S -> S]]
  PROVE  Iterable(N, S, s, F)
<1> DEFINE Reached == {n \in 0 .. N : \E g \in [0 .. n -> S] :
                          g[0] = s /\ \A k \in 1 .. n : g[k] = F[k][g[k - 1]]}
<1>1. 0 \in Reached
  <2> DEFINE g == [k \in 0 .. 0 |-> s]
  <2>1. g \in [0 .. 0 -> S] /\ g[0] = s /\ \A k \in 1 .. 0 : g[k] = F[k][g[k - 1]]
    OBVIOUS
  <2> HIDE DEF g
  <2> QED
    BY <2>1
<1>2. ASSUME NEW n \in 1 .. N, n - 1 \in Reached PROVE n \in Reached
  <2> PICK g \in [0 .. n - 1 -> S] : g[0] = s /\ \A k \in 1 .. n - 1 : g[k] = F[k][g[k - 1]]
    BY <1>2
  <2> DEFINE h == [k \in 0 .. n |-> IF k = n THEN F[n][g[n - 1]] ELSE g[k]]
  <2>1. F[n][g[n - 1]] \in S
    <3>1. g[n - 1] \in S OBVIOUS
    <3>2. F[n] \in [S -> S] OBVIOUS
    <3> QED
      BY <3>1, <3>2
  <2>2. h \in [0 .. n -> S] /\ h[0] = s
    BY <2>1
  <2>3. ASSUME NEW k \in 1 .. n PROVE h[k] = F[k][h[k - 1]]
    <3>1. CASE k = n
      BY <3>1
    <3>2. CASE k # n
      BY <3>2
    <3> QED
      BY <3>1, <3>2
  <2> HIDE DEF h
  <2>4. n \in 0 .. N
    OBVIOUS
  <2>5. \E f \in [0 .. n -> S] : f[0] = s /\ \A k \in 1 .. n : f[k] = F[k][f[k - 1]]
    BY <2>2, <2>3
  <2> QED
    BY <2>4, <2>5
<1>3. 0 .. N \subseteq Reached
  BY <1>1, <1>2, UpTo
<1>4. N \in Reached
  BY <1>3
<1> QED
  BY <1>4 DEF Iterable
-----------------------------------------------------------------------------
(* The sizes.                                                              *)

SizeType == start \in BOOLEAN /\ num \in Nat /\ cells \in Nat /\ len \in Nat /\ drv \in Nat

\* An open device has a driver, which is what a resize asks first.
SizesAgree == start => cells = num /\ len = num /\ drv = num % ShortRange /\ drv # 0

SizeInv == SizeType /\ (Kept("memory") => SizesAgree)

\* A remainder is its own remainder, and it is a number.
LEMMA ShortOfShort ==
  \A n \in Nat : n % ShortRange \in Nat /\ (n % ShortRange) % ShortRange = n % ShortRange
BY DEF ShortRange

\* A number that the driver's unsigned short holds is left as it is.
LEMMA SmallIsShort == \A n \in Nat : n < ShortRange => n % ShortRange = n
BY DEF ShortRange

\* No call but open, close and resize touches the sizes.
LEMMA CallsKeepSizes ==
  \A u \in Users : Starts(u) \/ Does(u) => UNCHANGED <<start, num, cells, len, drv>>
BY DEF Starts, SetSingle, SetMulti, SetWithBack, SetAll, Shift, Mirror, Copy, Get, Refresh,
       Begin, deviceVars, Does, DoPaint, DoBack, DoAll, DoShift, DoMirror, DoCopy, DoGet,
       DoRefresh, Done

\* Whatever open finds left over by failed opens before it, it sets every size or
\* leaves the device closed.
LEMMA OpenSizes ==
  ASSUME SizeInv, NEW u \in Users, Open(u) PROVE SizeInv'
<1> PICK n \in Nums, ok \in BOOLEAN, room \in BOOLEAN :
      /\ num' = n
      /\ IF ~DriverOpens(n, ok)
            THEN UNCHANGED <<start, cells, buf, len, drv>>
            ELSE /\ drv' = n % ShortRange /\ len' = LenFor(n) /\ start' = room
                 /\ cells' = IF room THEN n ELSE 0
  BY DEF Open
<1>1. n \in Nat /\ n % ShortRange \in Nat
  BY PixelAssumption, ShortOfShort
<1>2. ~start
  BY DEF Open
<1>3. CASE ~DriverOpens(n, ok)
  BY <1>1, <1>2, <1>3 DEF SizeInv, SizeType, SizesAgree
<1>4. CASE DriverOpens(n, ok)
  BY <1>1, <1>4 DEF SizeInv, SizeType, SizesAgree, DriverOpens, LenFor
<1> QED
  BY <1>3, <1>4

\* A resize of an open device that gets its memory sets every size anew.
LEMMA ResizeSizes ==
  ASSUME SizeInv, NEW u \in Users, Resize(u) PROVE SizeInv'
<1> PICK k \in Nums, ok \in BOOLEAN, room \in BOOLEAN :
      /\ k % ShortRange # 0
      /\ Kept("memory") => ok /\ room
      /\ num' = k % ShortRange
      /\ IF drv = 0 THEN UNCHANGED <<cells, buf, len, drv>>
         ELSE IF ~DriverOpens(k % ShortRange, ok) THEN drv' = 0 /\ UNCHANGED <<cells, buf, len>>
         ELSE /\ drv' = k % ShortRange /\ len' = LenFor(k % ShortRange)
              /\ cells' = IF room THEN k % ShortRange ELSE 0
  BY DEF Resize
<1>1. k % ShortRange \in Nat /\ (k % ShortRange) % ShortRange = k % ShortRange
  BY PixelAssumption, ShortOfShort
<1>2. start' = start
  BY DEF Resize
<1>3. SizeType'
  BY <1>1, <1>2 DEF SizeInv, SizeType, LenFor
<1>4. ASSUME Kept("memory"), start PROVE SizesAgree'
  <2>1. drv # 0 /\ ok /\ room
    BY <1>4 DEF SizeInv, SizesAgree
  <2>2. DriverOpens(k % ShortRange, ok)
    BY <1>1, <2>1 DEF DriverOpens
  <2> QED
    BY <1>1, <2>1, <2>2 DEF SizesAgree, LenFor
<1>5. Kept("memory")' = Kept("memory")
  BY DEF Kept
<1> QED
  BY <1>2, <1>3, <1>4, <1>5 DEF SizeInv, SizesAgree

\* The inductive step.
LEMMA SizeStep == SizeInv /\ [Next]_vars => SizeInv'
<1> SUFFICES ASSUME SizeInv, [Next]_vars PROVE SizeInv'
  OBVIOUS
<1>1. ASSUME NEW u \in Users, Starts(u) \/ Does(u) PROVE SizeInv'
  BY <1>1, CallsKeepSizes DEF SizeInv, SizeType, SizesAgree, Kept
<1>2. ASSUME NEW u \in Users, Open(u) PROVE SizeInv'
  BY <1>2, OpenSizes
<1>3. ASSUME NEW u \in Users, Close(u) PROVE SizeInv'
  BY <1>3 DEF Close, SizeInv, SizeType, SizesAgree
<1>4. ASSUME NEW u \in Users, Resize(u) PROVE SizeInv'
  BY <1>4, ResizeSizes
<1>5. CASE UNCHANGED vars
  BY <1>5 DEF vars, SizeInv, SizeType, SizesAgree, Kept
<1> QED
  BY <1>1, <1>2, <1>3, <1>4, <1>5 DEF Next

\* The initial states.
LEMMA SizeInit == Init => SizeInv
<1> SUFFICES ASSUME Init PROVE SizeInv
  OBVIOUS
<1>1. start = FALSE /\ num = 0 /\ cells = 0 /\ len = 0 /\ drv = 0
  BY DEF Init
<1> QED
  BY <1>1 DEF SizeInv, SizeType, SizesAgree

\* An open device is of one piece, for any numbers of pixels, threads and failures:
\* pixel_num, the picture, the length that is sent and the driver's buffer agree,
\* as long as a resize finds its memory (__tdl_pixel_dev_num_set sets pixel_num first).
THEOREM DeviceOfOnePiece == Spec => []Fits
<1>1. SizeInv => Fits
  BY DEF SizeInv, SizesAgree, Fits
<1> QED
  BY <1>1, SizeInit, SizeStep, PTL DEF Spec
-----------------------------------------------------------------------------
(* The calls that are pending: their tests still hold when they run, or    *)
(* the device was closed in the meantime and has nothing to offer.         *)

\* The segment is inside the picture, or there is none.
Covered(k) == cells = 0 \/ k <= cells

CallOK(c) ==
  \/ c = Idle
  \/ c.op \in {"paint", "back"} /\ c.from \in Nat /\ c.n \in Nat /\ Covered(c.from + c.n)
  \/ c.op = "all"
  \/ c.op \in {"shift", "mirror"} /\ c.from \in Nat /\ c.to \in Nat /\ c.step \in Nat
     /\ Covered(c.to + 1) /\ (c.op = "mirror" => c.from < c.to)
  \/ c.op = "copy" /\ start /\ c.src \in Nat /\ c.dst \in Nat /\ c.n \in Nat
     /\ c.src + c.n <= cells /\ c.dst + c.n <= cells
  \/ c.op = "get" /\ start /\ c.index \in Nat /\ c.index < cells
  \/ c.op = "refresh"

CallsOK == \A u \in Users : CallOK(call[u])

\* A device that was closed under a pending call is not opened again before the
\* call is over.
OpenOrBare == (\E u \in Users : call[u] # Idle) => start \/ (cells = 0 /\ drv = 0)

\* All rules are kept, and the driver's unsigned short holds every number.
Assumed == Rules = RuleNames /\ \A n \in Nums : n < ShortRange

\* The sizes of an open device, without the remainder.
SameSize == start => cells = num /\ len = num /\ drv = num

MemInv ==
  /\ SizeType /\ SameSize
  /\ call = [u \in Users |-> call[u]] /\ CallsOK /\ OpenOrBare
  /\ fault = FALSE

\* Under these assumptions each rule is kept.
LEMMA RulesKept ==
  ASSUME Assumed PROVE Kept("alone") /\ Kept("unlocked") /\ Kept("memory")
BY DEF Assumed, RuleNames, Kept

\* A call that passed its tests on an open device joins the others.
LEMMA BeginKeeps ==
  ASSUME MemInv, start, NEW u \in Users, NEW c, CallOK(c), Begin(u, c) PROVE MemInv'
<1>1. UNCHANGED <<start, num, cells, len, drv, fault>>
  BY DEF Begin, deviceVars
<1>2. /\ call' = [v \in Users |-> call'[v]]
      /\ \A v \in Users : call'[v] = IF v = u THEN c ELSE call[v]
  BY DEF Begin, MemInv
<1>3. CallsOK'
  BY <1>1, <1>2 DEF MemInv, CallsOK, CallOK, Covered
<1> QED
  BY <1>1, <1>2, <1>3 DEF MemInv, SizeType, SameSize, OpenOrBare

\* The calls' tests give what CallOK asks, one call at a time.
LEMMA StartsKeep ==
  ASSUME MemInv, NEW u \in Users, Starts(u) PROVE MemInv'
<1>1. num \in Nat /\ cells \in Nat /\ (start => cells = num) /\ Indices \subseteq Nat
  BY PixelAssumption DEF MemInv, SizeType, SameSize
<1>2. CASE SetSingle(u)
  <2> PICK from \in Indices, n \in Indices, c \in Colors :
        /\ InStrip(from, n)
        /\ Begin(u, [op |-> "paint", from |-> from, n |-> n, color |-> [i \in 0 .. n - 1 |-> c]])
    BY <1>2 DEF SetSingle
  <2> QED
    BY <1>1, <1>2, BeginKeeps DEF SetSingle, InStrip, CallOK, Covered
<1>3. CASE SetMulti(u)
  <2> PICK from \in Indices, n \in Indices, a \in Arrays :
        InStrip(from, n) /\ Begin(u, [op |-> "paint", from |-> from, n |-> n, color |-> a])
    BY <1>3 DEF SetMulti
  <2> QED
    BY <1>1, <1>3, BeginKeeps DEF SetMulti, InStrip, CallOK, Covered
<1>4. CASE SetWithBack(u)
  <2> PICK from \in Indices, n \in Indices, c \in Colors, back \in Colors :
        /\ InStrip(from, n)
        /\ Begin(u, [op |-> "back", from |-> from, n |-> n, back |-> back,
                     color |-> [i \in 0 .. n - 1 |-> c]])
    BY <1>4 DEF SetWithBack
  <2> QED
    BY <1>1, <1>4, BeginKeeps DEF SetWithBack, InStrip, CallOK, Covered
<1>5. CASE SetAll(u)
  BY <1>5, BeginKeeps DEF SetAll, CallOK
<1>6. CASE Shift(u)
  <2> PICK dir \in {"right", "left"}, from \in Indices, to \in Indices, step \in Indices :
        /\ to < num
        /\ Begin(u, [op |-> "shift", dir |-> dir, from |-> from, to |-> to, step |-> step])
    BY <1>6 DEF Shift
  <2> QED
    BY <1>1, <1>6, BeginKeeps DEF Shift, CallOK, Covered
<1>7. CASE Mirror(u)
  <2> PICK dir \in {"close", "far"}, from \in Indices, to \in Indices, step \in Indices :
        /\ from < to /\ to < num
        /\ Begin(u, [op |-> "mirror", dir |-> dir, from |-> from, to |-> to, step |-> step])
    BY <1>7 DEF Mirror
  <2> QED
    BY <1>1, <1>7, BeginKeeps DEF Mirror, CallOK, Covered
<1>8. CASE Copy(u)
  <2> PICK src \in Indices, dst \in Indices, n \in Indices :
        /\ InStrip(src, n) /\ InStrip(dst, n)
        /\ Begin(u, [op |-> "copy", src |-> src, dst |-> dst, n |-> n])
    BY <1>8 DEF Copy
  <2> QED
    BY <1>1, <1>8, BeginKeeps DEF Copy, InStrip, CallOK
<1>9. CASE Get(u)
  <2> PICK i \in Indices : i < num /\ Begin(u, [op |-> "get", index |-> i])
    BY <1>9 DEF Get
  <2> QED
    BY <1>1, <1>9, BeginKeeps DEF Get, CallOK
<1>10. CASE Refresh(u)
  BY <1>10, BeginKeeps DEF Refresh, CallOK
<1> QED
  BY <1>2, <1>3, <1>4, <1>5, <1>6, <1>7, <1>8, <1>9, <1>10 DEF Starts

\* A call that is over leaves the others as they were.
LEMMA DoneKeeps ==
  ASSUME MemInv, NEW u \in Users, Done(u), fault' = FALSE PROVE MemInv'
<1>1. UNCHANGED <<start, num, cells, len, drv>>
  BY DEF Done
<1>2. /\ call' = [v \in Users |-> call'[v]]
      /\ \A v \in Users : call'[v] = IF v = u THEN Idle ELSE call[v]
  BY DEF Done, MemInv
<1>3. CallsOK'
  BY <1>1, <1>2 DEF MemInv, CallsOK, CallOK, Covered
<1> QED
  BY <1>1, <1>2, <1>3 DEF MemInv, SizeType, SameSize, OpenOrBare

\* Nothing that runs under the mutex, and no unlocked copy or get, leaves the picture.
LEMMA DoesFaultless ==
  ASSUME MemInv, NEW u \in Users, Does(u) PROVE fault' = FALSE
<1> DEFINE c == call[u]
<1>1. /\ start \in BOOLEAN /\ num \in Nat /\ cells \in Nat /\ len \in Nat /\ drv \in Nat
      /\ CallOK(c) /\ (start => cells = num /\ len = num /\ drv = num)
      /\ c # Idle => start \/ (cells = 0 /\ drv = 0)
  BY DEF MemInv, SizeType, SameSize, CallsOK, OpenOrBare
<1>0. fault = FALSE
  BY DEF MemInv
<1>2. c.op # "idle" => c # Idle
  BY DEF Idle
<1> HIDE DEF c
<1>3. CASE DoPaint(u)
  <2>1. c.op = "paint" /\ fault' = (fault \/ (cells # 0 /\ c.from + c.n > cells))
    BY <1>3 DEF DoPaint, Uses, c
  <2>2. ~(cells # 0 /\ c.from + c.n > cells)
    BY <1>1, <1>2, <2>1 DEF CallOK, Covered, Idle
  <2> QED
    BY <1>0, <2>1, <2>2
<1>4. CASE DoBack(u)
  <2>1. /\ c.op = "back"
        /\ fault' = (fault \/ (cells # 0 /\ (c.from + c.n > cells \/ num > cells)))
    BY <1>4 DEF DoBack, c
  <2>2. ~(cells # 0 /\ (c.from + c.n > cells \/ num > cells))
    BY <1>1, <1>2, <2>1 DEF CallOK, Covered, Idle
  <2> QED
    BY <1>0, <2>1, <2>2
<1>5. CASE DoAll(u)
  <2>1. c.op = "all" /\ fault' = (fault \/ (cells # 0 /\ 0 + num > cells))
    BY <1>5 DEF DoAll, Uses, c
  <2>2. ~(cells # 0 /\ 0 + num > cells)
    BY <1>1, <1>2, <2>1
  <2> QED
    BY <1>0, <2>1, <2>2
<1>6. CASE DoShift(u)
  <2>1. /\ c.op = "shift"
        /\ \/ UNCHANGED fault
           \/ /\ MayShift(c, c.step)
              /\ fault' = (fault \/ (cells # 0 /\ c.from + (c.to - c.from + 1) > cells))
    BY <1>6 DEF DoShift, Uses, c
  <2>2. ~(cells # 0 /\ c.from + (c.to - c.from + 1) > cells)
    BY <1>1, <1>2, <2>1 DEF CallOK, Covered, Idle
  <2> QED
    BY <1>0, <2>1, <2>2
<1>7. CASE DoMirror(u)
  <2>1. /\ c.op = "mirror"
        /\ \/ UNCHANGED fault
           \/ fault' = (fault \/ (cells # 0 /\ c.from + 2 * Half(c.from, c.to) > cells))
    BY <1>7 DEF DoMirror, Uses, c
  <2>2. c.from \in Nat /\ c.to \in Nat /\ c.from < c.to /\ Covered(c.to + 1)
    BY <1>1, <2>1 DEF CallOK, Idle
  <2>3. c.from + 2 * Half(c.from, c.to) <= c.to + 1
    BY <2>2 DEF Half
  <2>4. c.from + 2 * Half(c.from, c.to) \in Nat
    BY <2>2 DEF Half
  <2>5. ~(cells # 0 /\ c.from + 2 * Half(c.from, c.to) > cells)
    BY <1>1, <2>2, <2>3, <2>4 DEF Covered
  <2> QED
    BY <1>0, <2>1, <2>5
<1>8. CASE DoCopy(u)
  <2>1. c.op = "copy" /\ fault' = (fault \/ c.src + c.n > cells \/ c.dst + c.n > cells)
    BY <1>8 DEF DoCopy, c
  <2>2. ~(c.src + c.n > cells \/ c.dst + c.n > cells)
    BY <1>1, <2>1 DEF CallOK, Idle
  <2> QED
    BY <1>0, <2>1, <2>2
<1>9. CASE DoGet(u)
  <2>1. c.op = "get" /\ fault' = (fault \/ c.index >= cells)
    BY <1>9 DEF DoGet, c
  <2>2. ~(c.index >= cells)
    BY <1>1, <2>1 DEF CallOK, Idle
  <2> QED
    BY <1>0, <2>1, <2>2
<1>10. CASE DoRefresh(u)
  <2>1. /\ c.op = "refresh"
        /\ fault' = (fault \/ (drv # 0 /\ cells # 0 /\ (len > drv \/ len > cells)))
    BY <1>10 DEF DoRefresh, c
  <2>2. ~(drv # 0 /\ cells # 0 /\ (len > drv \/ len > cells))
    BY <1>1, <1>2, <2>1
  <2> QED
    BY <1>0, <2>1, <2>2
<1> QED
  BY <1>3, <1>4, <1>5, <1>6, <1>7, <1>8, <1>9, <1>10 DEF Does

\* Every call ends in Done.
LEMMA DoesDone == \A u \in Users : Does(u) => Done(u)
BY DEF Does, DoPaint, DoBack, DoAll, DoShift, DoMirror, DoCopy, DoGet, DoRefresh

\* Nobody is in a call when a device is opened or resized.
LEMMA NobodyCalls ==
  ASSUME Assumed, NEW u \in Users, call[u] = Idle, Kept("alone") => Quiet(u)
  PROVE  \A v \in Users : call[v] = Idle
BY RulesKept DEF Quiet

\* Without calls, only the sizes are at stake.
LEMMA SizesOnly ==
  ASSUME MemInv, \A v \in Users : call[v] = Idle, UNCHANGED <<call, fault>>, SizeType',
         SameSize'
  PROVE  MemInv'
BY DEF MemInv, CallsOK, CallOK, OpenOrBare

\* An open, for numbers the driver's unsigned short holds.
LEMMA OpenMemory ==
  ASSUME Assumed, MemInv, NEW u \in Users, Open(u) PROVE MemInv'
<1>1. call[u] = Idle /\ (Kept("alone") => Quiet(u)) /\ ~start /\ UNCHANGED <<call, fault>>
  BY DEF Open, Ready
<1>2. \A v \in Users : call[v] = Idle
  BY <1>1, NobodyCalls
<1> PICK n \in Nums, ok \in BOOLEAN, room \in BOOLEAN :
      /\ num' = n
      /\ IF ~DriverOpens(n, ok)
            THEN UNCHANGED <<start, cells, buf, len, drv>>
            ELSE /\ drv' = n % ShortRange /\ len' = LenFor(n) /\ start' = room
                 /\ cells' = IF room THEN n ELSE 0
  BY DEF Open
<1>3. n \in Nat /\ n < ShortRange
  BY PixelAssumption DEF Assumed
<1>4. n % ShortRange = n
  BY <1>3, SmallIsShort
<1>5. SizeType' /\ SameSize'
  BY <1>1, <1>3, <1>4 DEF MemInv, SizeType, SameSize, LenFor
<1> QED
  BY <1>1, <1>2, <1>5, SizesOnly

\* The same for a resize, whose sizes the first part has settled.
LEMMA ResizeMemory ==
  ASSUME Assumed, MemInv, SizeInv, NEW u \in Users, Resize(u) PROVE MemInv'
<1>1. call[u] = Idle /\ (Kept("alone") => Quiet(u)) /\ UNCHANGED <<call, fault>>
  BY DEF Resize, Ready
<1>2. \A v \in Users : call[v] = Idle
  BY <1>1, NobodyCalls
<1>3. SizeInv' /\ Kept("memory")'
  BY ResizeSizes, RulesKept DEF Kept
<1>4. num' \in Nat /\ num' < ShortRange
  <2> PICK k \in Nums : num' = k % ShortRange
    BY DEF Resize
  <2> QED
    BY PixelAssumption DEF ShortRange
<1>5. num' % ShortRange = num'
  BY <1>4, SmallIsShort
<1>6. SizeType' /\ SameSize'
  BY <1>3, <1>5 DEF SizeInv, SizesAgree, SameSize
<1> QED
  BY <1>1, <1>2, <1>6, SizesOnly

\* A close between the tests of a call and its mutex leaves no picture at all.
LEMMA CloseMemory ==
  ASSUME Assumed, MemInv, NEW u \in Users, Close(u) PROVE MemInv'
<1>1. /\ call[u] = Idle /\ UNCHANGED <<call, fault>>
      /\ start' = FALSE /\ drv' = 0 /\ num' = 0 /\ cells' = 0 /\ len' = 0
  BY DEF Close, Ready
<1>2. \A v \in Users : call[v].op \notin {"copy", "get"}
  BY <1>1, RulesKept DEF Close, NoUnlockedCall, Idle
<1>3. CallsOK'
  BY <1>1, <1>2 DEF MemInv, CallsOK, CallOK, Covered
<1> QED
  BY <1>1, <1>3 DEF MemInv, SizeType, SameSize, OpenOrBare

\* The inductive step.
LEMMA MemStep == Assumed /\ MemInv /\ SizeInv /\ [Next]_vars => MemInv'
<1> SUFFICES ASSUME Assumed, MemInv, SizeInv, [Next]_vars PROVE MemInv'
  OBVIOUS
<1>1. ASSUME NEW u \in Users, Starts(u) PROVE MemInv'
  BY <1>1, StartsKeep
<1>2. ASSUME NEW u \in Users, Does(u) PROVE MemInv'
  BY <1>2, DoesDone, DoesFaultless, DoneKeeps
<1>3. ASSUME NEW u \in Users, Open(u) PROVE MemInv'
  BY <1>3, OpenMemory
<1>4. ASSUME NEW u \in Users, Close(u) PROVE MemInv'
  BY <1>4, CloseMemory
<1>5. ASSUME NEW u \in Users, Resize(u) PROVE MemInv'
  BY <1>5, ResizeMemory
<1>6. CASE UNCHANGED vars
  BY <1>6 DEF vars, MemInv, SizeType, SameSize, CallsOK, CallOK, Covered, OpenOrBare
<1> QED
  BY <1>1, <1>2, <1>3, <1>4, <1>5, <1>6 DEF Next

\* The initial states.
LEMMA MemInit == Init => MemInv
<1> SUFFICES ASSUME Init PROVE MemInv
  OBVIOUS
<1>1. /\ start = FALSE /\ num = 0 /\ cells = 0 /\ len = 0 /\ drv = 0
      /\ call = [u \in Users |-> Idle] /\ fault = FALSE
  BY DEF Init
<1> QED
  BY <1>1 DEF MemInv, SizeType, SameSize, CallsOK, CallOK, OpenOrBare

\* No drawing call, refresh, copy or get touches memory outside the device's, for any
\* number of threads and pixels, although its tests ran before it took the mutex and
\* the device may have been closed since.
THEOREM MemorySafe == Spec => []NoMemoryFault
<1>1. CASE Assumed
  <2>1. MemInv => NoMemoryFault
    BY DEF MemInv, NoMemoryFault
  <2>2. Init => MemInv /\ SizeInv
    BY MemInit, SizeInit
  <2>3. MemInv /\ SizeInv /\ [Next]_vars => (MemInv /\ SizeInv)'
    BY <1>1, MemStep, SizeStep
  <2> QED
    BY <2>1, <2>2, <2>3, PTL DEF Spec
<1>2. CASE ~Assumed
  <2>1. NoMemoryFault
    BY <1>2 DEF Assumed, NoMemoryFault
  <2> QED
    BY <2>1, PTL
<1> QED
  BY <1>1, <1>2
-----------------------------------------------------------------------------
(* Shifts.                                                                 *)

\* The pixel whose colour a rotation by step brings to pixel i.
Source(dir, from, to, step, i) ==
  IF dir = "right"
    THEN IF i < from + step THEN i + (to - from + 1) - step ELSE i - step
    ELSE IF i > to - step THEN i - (to - from + 1) + step ELSE i + step

\* The picture after the loop of __tdl_pixel_right_shift has moved k cells.
RightAfter(b, to, step, k) ==
  [i \in DOMAIN b |-> IF i \in to - k + 1 .. to THEN b[i - step] ELSE b[i]]

\* The loop moves every cell once, and none that it has written before.
LEMMA MovedRightIs ==
  ASSUME NEW D, NEW b \in [D -> Nat],
         NEW from \in Nat, NEW to \in Nat, NEW step \in Nat,
         from <= to, step <= to - from, from .. to \subseteq D
  PROVE  MovedRight(b, from, to, step) = RightAfter(b, to, step, to - from + 1 - step)
<1> DEFINE N == to - from + 1 - step
           m[k \in 0 .. N] == IF k = 0 THEN b
              ELSE [m[k - 1] EXCEPT ![to - (k - 1)] = m[k - 1][to - step - (k - 1)]]
           C == [k \in 0 .. N |-> RightAfter(b, to, step, k)]
<1>1. N \in Nat
  OBVIOUS
<1>2. RightAfter(b, to, step, 0) = b
  BY DEF RightAfter
<1>3. ASSUME NEW k \in 1 .. N, NEW p, p = RightAfter(b, to, step, k - 1)
      PROVE  RightAfter(b, to, step, k) = [p EXCEPT ![to - (k - 1)] = p[to - step - (k - 1)]]
  <2>1. to - step - (k - 1) \in from .. to /\ to - (k - 1) \in from .. to
    OBVIOUS
  <2>2. p[to - step - (k - 1)] = b[to - step - (k - 1)]
    BY <1>3, <2>1 DEF RightAfter
  <2> QED
    BY <1>3, <2>1, <2>2 DEF RightAfter
<1> HIDE DEF N
<1>4. C = [k \in 0 .. N |-> IF k = 0 THEN b
              ELSE [C[k - 1] EXCEPT ![to - (k - 1)] = C[k - 1][to - step - (k - 1)]]]
  <2> SUFFICES ASSUME NEW k \in 0 .. N
               PROVE RightAfter(b, to, step, k) = IF k = 0 THEN b
              ELSE [C[k - 1] EXCEPT ![to - (k - 1)] = C[k - 1][to - step - (k - 1)]]
    OBVIOUS
  <2>1. CASE k = 0
    BY <1>2, <2>1
  <2>2. CASE k # 0
    <3>1. k \in 1 .. N /\ C[k - 1] = RightAfter(b, to, step, k - 1)
      BY <1>1, <2>2
    <3> HIDE DEF C
    <3> QED
      BY <1>3, <2>2, <3>1
  <2> QED
    BY <2>1, <2>2
<1> HIDE DEF C
<1>5. m = [k \in 0 .. N |-> IF k = 0 THEN b
              ELSE [m[k - 1] EXCEPT ![to - (k - 1)] = m[k - 1][to - step - (k - 1)]]]
  <2>1. \E g : g = [k \in 0 .. N |-> IF k = 0 THEN b
              ELSE [g[k - 1] EXCEPT ![to - (k - 1)] = g[k - 1][to - step - (k - 1)]]]
    BY <1>4
  <2> QED
    BY <2>1, Zenon
<1> HIDE DEF m
<1> DEFINE Same == {k \in 0 .. N : m[k] = RightAfter(b, to, step, k)}
<1>6. 0 \in Same
  BY <1>1, <1>2, <1>5
<1>7. ASSUME NEW k \in 1 .. N, k - 1 \in Same PROVE k \in Same
  <2>1. k \in 0 .. N /\ k # 0
    BY <1>1
  <2>2. m[k] = [m[k - 1] EXCEPT ![to - (k - 1)] = m[k - 1][to - step - (k - 1)]]
    BY <1>5, <2>1
  <2>3. m[k - 1] = RightAfter(b, to, step, k - 1)
    BY <1>7
  <2> QED
    BY <1>3, <2>1, <2>2, <2>3
<1>8. N \in Same
  <2> HIDE DEF Same
  <2> QED
    BY <1>1, <1>6, <1>7, UpTo
<1>9. MovedRight(b, from, to, step) = m[N]
  BY DEF MovedRight, m, N
<1> QED
  BY <1>8, <1>9 DEF N
\* The picture after the loop of __tdl_pixel_left_shift has moved k cells.
LeftAfter(b, from, step, k) ==
  [i \in DOMAIN b |-> IF i \in from .. from + k - 1 THEN b[i + step] ELSE b[i]]

\* The same for the loop that goes up.
LEMMA MovedLeftIs ==
  ASSUME NEW D, NEW b \in [D -> Nat],
         NEW from \in Nat, NEW to \in Nat, NEW step \in Nat,
         from <= to, step <= to - from, from .. to \subseteq D
  PROVE  MovedLeft(b, from, to, step) = LeftAfter(b, from, step, to - from + 1 - step)
<1> DEFINE N == to - from + 1 - step
           m[k \in 0 .. N] == IF k = 0 THEN b
              ELSE [m[k - 1] EXCEPT ![from + k - 1] = m[k - 1][from + k - 1 + step]]
           C == [k \in 0 .. N |-> LeftAfter(b, from, step, k)]
<1>1. N \in Nat
  OBVIOUS
<1>2. LeftAfter(b, from, step, 0) = b
  BY DEF LeftAfter
<1>3. ASSUME NEW k \in 1 .. N, NEW p, p = LeftAfter(b, from, step, k - 1)
      PROVE  LeftAfter(b, from, step, k) = [p EXCEPT ![from + k - 1] = p[from + k - 1 + step]]
  <2>1. from + k - 1 + step \in from .. to /\ from + k - 1 \in from .. to
    OBVIOUS
  <2>2. p[from + k - 1 + step] = b[from + k - 1 + step]
    BY <1>3, <2>1 DEF LeftAfter
  <2> QED
    BY <1>3, <2>1, <2>2 DEF LeftAfter
<1> HIDE DEF N
<1>4. C = [k \in 0 .. N |-> IF k = 0 THEN b
              ELSE [C[k - 1] EXCEPT ![from + k - 1] = C[k - 1][from + k - 1 + step]]]
  <2> SUFFICES ASSUME NEW k \in 0 .. N
               PROVE LeftAfter(b, from, step, k) = IF k = 0 THEN b
              ELSE [C[k - 1] EXCEPT ![from + k - 1] = C[k - 1][from + k - 1 + step]]
    OBVIOUS
  <2>1. CASE k = 0
    BY <1>2, <2>1
  <2>2. CASE k # 0
    <3>1. k \in 1 .. N /\ C[k - 1] = LeftAfter(b, from, step, k - 1)
      BY <1>1, <2>2
    <3> HIDE DEF C
    <3> QED
      BY <1>3, <2>2, <3>1
  <2> QED
    BY <2>1, <2>2
<1> HIDE DEF C
<1>5. m = [k \in 0 .. N |-> IF k = 0 THEN b
              ELSE [m[k - 1] EXCEPT ![from + k - 1] = m[k - 1][from + k - 1 + step]]]
  <2>1. \E g : g = [k \in 0 .. N |-> IF k = 0 THEN b
              ELSE [g[k - 1] EXCEPT ![from + k - 1] = g[k - 1][from + k - 1 + step]]]
    BY <1>4
  <2> QED
    BY <2>1, Zenon
<1> HIDE DEF m
<1> DEFINE Same == {k \in 0 .. N : m[k] = LeftAfter(b, from, step, k)}
<1>6. 0 \in Same
  BY <1>1, <1>2, <1>5
<1>7. ASSUME NEW k \in 1 .. N, k - 1 \in Same PROVE k \in Same
  <2>1. k \in 0 .. N /\ k # 0
    BY <1>1
  <2>2. m[k] = [m[k - 1] EXCEPT ![from + k - 1] = m[k - 1][from + k - 1 + step]]
    BY <1>5, <2>1
  <2>3. m[k - 1] = LeftAfter(b, from, step, k - 1)
    BY <1>7
  <2> QED
    BY <1>3, <2>1, <2>2, <2>3
<1>8. N \in Same
  <2> HIDE DEF Same
  <2> QED
    BY <1>1, <1>6, <1>7, UpTo
<1>9. MovedLeft(b, from, to, step) = m[N]
  BY DEF MovedLeft, m, N
<1> QED
  BY <1>8, <1>9 DEF N

\* With the saved cells put back, every pixel of the segment has its source's colour.
LEMMA ShiftedIs ==
  ASSUME NEW D, NEW b \in [D -> Nat], NEW dir \in {"right", "left"},
         NEW from \in Nat, NEW to \in Nat, NEW step \in Nat,
         from <= to, step <= to - from, from .. to \subseteq D
  PROVE  Shifted(b, dir, from, to, step) =
           [i \in D |-> IF i \in from .. to THEN b[Source(dir, from, to, step, i)] ELSE b[i]]
<1> DEFINE S == [i \in D |-> IF i \in from .. to THEN b[Source(dir, from, to, step, i)] ELSE b[i]]
<1>0. b = S \/ from # to
  BY DEF Source
<1>1. CASE from = to
  BY <1>0, <1>1 DEF Shifted
<1>2. CASE from # to /\ dir = "right"
  <2> DEFINE m == MovedRight(b, from, to, step)
  <2>1. m = RightAfter(b, to, step, to - from + 1 - step)
    BY MovedRightIs
  <2>2. Shifted(b, dir, from, to, step) =
          [i \in D |-> IF i \in from .. from + step - 1
                                THEN b[to - step + 1 + (i - from)] ELSE m[i]]
    BY <1>2 DEF Shifted
  <2> HIDE DEF m
  <2>3. ASSUME NEW i \in D
        PROVE  (IF i \in from .. from + step - 1 THEN b[to - step + 1 + (i - from)] ELSE m[i]) = S[i]
    <3>1. CASE i \in from .. from + step - 1
      <4>1. i \in from .. to /\ Source(dir, from, to, step, i) = to - step + 1 + (i - from)
        BY <1>2, <3>1 DEF Source
      <4> QED
        BY <3>1, <4>1
    <3>2. CASE i \in from + step .. to
      <4>1. /\ i \in from .. to /\ Source(dir, from, to, step, i) = i - step
            /\ i \in to - (to - from + 1 - step) + 1 .. to
            /\ i \notin from .. from + step - 1
        BY <1>2, <3>2 DEF Source
      <4> QED
        BY <2>1, <4>1 DEF RightAfter
    <3>3. CASE i \notin from .. to
      <4>1. i \notin to - (to - from + 1 - step) + 1 .. to /\ i \notin from .. from + step - 1
        BY <3>3
      <4> QED
        BY <2>1, <3>3, <4>1 DEF RightAfter
    <3> QED
      BY <3>1, <3>2, <3>3
  <2> QED
    BY <2>2, <2>3
<1>3. CASE from # to /\ dir = "left"
  <2> DEFINE m == MovedLeft(b, from, to, step)
  <2>1. m = LeftAfter(b, from, step, to - from + 1 - step)
    BY MovedLeftIs
  <2>2. Shifted(b, dir, from, to, step) =
          [i \in D |-> IF i \in to - step + 1 .. to
                                THEN b[from + (i - (to - step + 1))] ELSE m[i]]
    BY <1>3 DEF Shifted
  <2> HIDE DEF m
  <2>3. ASSUME NEW i \in D
        PROVE  (IF i \in to - step + 1 .. to THEN b[from + (i - (to - step + 1))] ELSE m[i]) = S[i]
    <3>1. CASE i \in to - step + 1 .. to
      <4>1. i \in from .. to /\ Source(dir, from, to, step, i) = from + (i - (to - step + 1))
        BY <1>3, <3>1 DEF Source
      <4> QED
        BY <3>1, <4>1
    <3>2. CASE i \in from .. to - step
      <4>1. /\ i \in from .. to /\ Source(dir, from, to, step, i) = i + step
            /\ i \in from .. from + (to - from + 1 - step) - 1
            /\ i \notin to - step + 1 .. to
        BY <1>3, <3>2 DEF Source
      <4> QED
        BY <2>1, <4>1 DEF LeftAfter
    <3>3. CASE i \notin from .. to
      <4>1. i \notin from .. from + (to - from + 1 - step) - 1 /\ i \notin to - step + 1 .. to
        BY <3>3
      <4> QED
        BY <2>1, <3>3, <4>1 DEF LeftAfter
    <3> QED
      BY <3>1, <3>2, <3>3
  <2> QED
    BY <2>2, <2>3
<1> QED
  BY <1>1, <1>2, <1>3

\* A remainder, less than two turns away.
LEMMA Wraps ==
  ASSUME NEW n \in Nat \ {0}, NEW x \in Int
  PROVE  /\ 0 <= x /\ x < n => x % n = x
         /\ -n <= x /\ x < 0 => x % n = x + n
         /\ n <= x /\ x < 2 * n => x % n = x - n
OBVIOUS

\* The source is in the segment, and it is what the rotation names.
LEMMA SourceIsRotation ==
  ASSUME NEW dir \in {"right", "left"}, NEW from \in Nat, NEW to \in Nat, NEW step \in Nat,
         from <= to, step <= to - from, NEW i \in from .. to
  PROVE  /\ Source(dir, from, to, step, i) \in from .. to
         /\ dir = "right" => Source(dir, from, to, step, i) =
                               from + ((i - from - step) % (to - from + 1))
         /\ dir = "left" => Source(dir, from, to, step, i) =
                               from + ((i - from - (-step)) % (to - from + 1))
<1> DEFINE n == to - from + 1
           x == i - from - step
           y == i - from - (-step)
<1>1. n \in Nat \ {0} /\ x \in Int /\ y \in Int
  OBVIOUS
<1>2. /\ 0 <= x /\ x < n => x % n = x
      /\ -n <= x /\ x < 0 => x % n = x + n
  <2> HIDE DEF n, x
  <2> QED
    BY <1>1, Wraps
<1>3. /\ 0 <= y /\ y < n => y % n = y
      /\ n <= y /\ y < 2 * n => y % n = y - n
  <2> HIDE DEF n, y
  <2> QED
    BY <1>1, Wraps
<1>4. CASE dir = "right"
  BY <1>2, <1>4 DEF Source
<1>5. CASE dir = "left"
  BY <1>3, <1>5 DEF Source
<1> QED
  BY <1>4, <1>5

\* The shift in place is the rotation.
LEMMA ShiftedIsRotated ==
  ASSUME NEW D, NEW b \in [D -> Nat], NEW dir \in {"right", "left"},
         NEW from \in Nat, NEW to \in Nat, NEW step \in Nat,
         from <= to, step <= to - from, from .. to \subseteq D
  PROVE  Shifted(b, dir, from, to, step) = Rotated(b, dir, from, to, step)
<1>1. Shifted(b, dir, from, to, step) =
        [i \in D |-> IF i \in from .. to THEN b[Source(dir, from, to, step, i)] ELSE b[i]]
  BY ShiftedIs
<1>2. CASE dir = "right"
  <2>1. ASSUME NEW i \in from .. to
        PROVE  Source(dir, from, to, step, i) = from + ((i - from - step) % (to - from + 1))
    BY <1>2, SourceIsRotation
  <2> QED
    BY <1>1, <1>2, <2>1 DEF Rotated
<1>3. CASE dir = "left"
  <2>1. ASSUME NEW i \in from .. to
        PROVE  Source(dir, from, to, step, i) = from + ((i - from - (-step)) % (to - from + 1))
    BY <1>3, SourceIsRotation
  <2> QED
    BY <1>1, <1>3, <2>1 DEF Rotated
<1> QED
  BY <1>2, <1>3

\* Two halves of h pixels that turn in opposite directions stay images of each other:
\* the source of a pixel's image is the image of its source.
LEMMA MirroredIsSymmetric ==
  ASSUME NEW D, NEW b \in [D -> Nat], NEW dir \in {"close", "far"},
         NEW from \in Nat, NEW h \in Nat, NEW step \in Nat, step < h,
         from .. from + 2 * h - 1 \subseteq D,
         Symmetric(b, from, from + 2 * h - 1)
  PROVE  Symmetric(ShiftedBy(ShiftedBy(b, FirstHalf(dir, from, h), step),
                             SecondHalf(dir, from, h), step),
                   from, from + 2 * h - 1)
<1> DEFINE d == IF dir = "close" THEN "right" ELSE "left"
           e == IF dir = "close" THEN "left" ELSE "right"
           mid == from + h - 1
           to == from + 2 * h - 1
           b1 == Shifted(b, d, from, mid, step)
           b2 == Shifted(b1, e, mid + 1, to, step)
<1>1. /\ mid \in Nat /\ mid + 1 \in Nat /\ to \in Nat /\ from <= mid /\ mid + 1 <= to
      /\ step <= mid - from /\ step <= to - (mid + 1)
      /\ from .. mid \subseteq D /\ mid + 1 .. to \subseteq D
      /\ from .. to \subseteq D
      /\ to = 2 * mid - from + 1
  OBVIOUS
<1>2. d \in {"right", "left"} /\ e \in {"right", "left"} /\ (d = "right" <=> e = "left")
  OBVIOUS
<1>3. /\ ShiftedBy(ShiftedBy(b, FirstHalf(dir, from, h), step), SecondHalf(dir, from, h), step) = b2
  <2>1. mid + 1 = from + h
    OBVIOUS
  <2> QED
    BY <2>1 DEF ShiftedBy, FirstHalf, SecondHalf
<1>4. Symmetric(b, from, to)
  OBVIOUS
<1>5. b1 = [i \in D |-> IF i \in from .. mid THEN b[Source(d, from, mid, step, i)] ELSE b[i]]
  <2> HIDE DEF d, e, mid, to
  <2> QED
    BY <1>1, <1>2, ShiftedIs
<1> HIDE DEF b1
<1>6. b1 \in [D -> Nat]
  <2>1. ASSUME NEW i \in from .. mid PROVE Source(d, from, mid, step, i) \in D
    <3>1. Source(d, from, mid, step, i) \in from .. mid
      <4> HIDE DEF d, e, mid, to
      <4> QED
        BY <1>1, <1>2, SourceIsRotation
    <3> QED
      BY <1>1, <3>1
  <2> HIDE DEF d, e, mid, to
  <2> QED
    BY <1>5, <2>1
<1>7. b2 = [i \in D |-> IF i \in mid + 1 .. to THEN b1[Source(e, mid + 1, to, step, i)] ELSE b1[i]]
  <2>1. PICK c \in [D -> Nat], n \in Nat, t \in Nat, f \in {"right", "left"} :
          c = b1 /\ n = mid + 1 /\ t = to /\ f = e
    BY <1>1, <1>2, <1>6
  <2>2. n <= t /\ step <= t - n /\ n .. t \subseteq D
    BY <1>1, <2>1
  <2> HIDE DEF d, e, mid, to
  <2>3. Shifted(c, f, n, t, step) =
          [i \in D |-> IF i \in n .. t THEN c[Source(f, n, t, step, i)] ELSE c[i]]
    BY <2>2, ShiftedIs
  <2> QED
    BY <2>1, <2>3
<1> HIDE DEF b2, d, e, mid, to
<1>8. ASSUME NEW i \in from .. mid
      PROVE  b2[i] = b[Source(d, from, mid, step, i)]
  BY <1>1, <1>5, <1>6, <1>7
<1>9. ASSUME NEW i \in mid + 1 .. to
      PROVE  b2[i] = b[Source(e, mid + 1, to, step, i)]
  <2>1. Source(e, mid + 1, to, step, i) \in mid + 1 .. to
    BY <1>1, <1>2, SourceIsRotation
  <2>2. Source(e, mid + 1, to, step, i) \notin from .. mid
    BY <1>1, <2>1
  <2>3. b2[i] = b1[Source(e, mid + 1, to, step, i)]
    BY <1>1, <1>6, <1>7
  <2> QED
    BY <1>1, <1>5, <2>1, <2>2, <2>3
<1>10. ASSUME NEW i \in from .. mid
       PROVE  b2[i] = b2[to - (i - from)]
  <2> DEFINE j == to - (i - from)
             p == Source(d, from, mid, step, i)
  <2>1. j \in mid + 1 .. to
    BY <1>1
  <2>2. p \in from .. mid
    BY <1>1, <1>2, SourceIsRotation, Zenon
  <2>3. Source(e, mid + 1, to, step, j) = to - (p - from)
    <3>1. CASE d = "right"
      BY <1>1, <1>2, <3>1 DEF Source
    <3>2. CASE d = "left"
      BY <1>1, <1>2, <3>2 DEF Source
    <3> QED
      BY <1>2, <3>1, <3>2
  <2>4. b[p] = b[to - (p - from)]
    BY <1>1, <1>4, <2>2 DEF Symmetric
  <2> HIDE DEF p, j
  <2>5. b2[i] = b[p] /\ b2[j] = b[to - (p - from)]
    BY <1>8, <1>9, <2>1, <2>3 DEF p
  <2> QED
    BY <2>4, <2>5 DEF j
<1>11. ASSUME NEW i \in mid + 1 .. to
       PROVE  b2[i] = b2[to - (i - from)]
  <2>1. to - (i - from) \in from .. mid /\ to - ((to - (i - from)) - from) = i
    BY <1>1
  <2> QED
    BY <1>10, <2>1
<1>12. Symmetric(b2, from, to)
  <2> SUFFICES ASSUME NEW i \in from .. to PROVE b2[i] = b2[to - (i - from)]
    BY DEF Symmetric
  <2>1. i \in from .. mid \/ i \in mid + 1 .. to
    BY <1>1
  <2> QED
    BY <1>10, <1>11, <2>1
<1> QED
  BY <1>3, <1>12 DEF to
-----------------------------------------------------------------------------
(* Colours.                                                                *)

\* A component of any width that is read and drawn again keeps its value or loses
\* one unit, when the application's scale is at least as fine as the driver's
\* (tdl_pixel_get_color after tdl_pixel_set_single_color).
THEOREM ReadingBackLosesOne ==
  ASSUME Maximum <= Resolution, NEW v \in Nat
  PROVE  Scaled(Unscaled(v)) \in {v - 1, v}
<1> DEFINE q == (v * Resolution) \div Maximum
           r == (q * Maximum) \div Resolution
<1>1. Resolution \in Nat /\ Resolution > 0 /\ Maximum \in Nat /\ Maximum > 0
  BY ColorAssumption
<1>2. v * Resolution \in Nat
  BY <1>1
<1>3. q \in Nat /\ q * Maximum <= v * Resolution /\ v * Resolution < q * Maximum + Maximum
  BY <1>1, <1>2
<1>4. q * Maximum \in Nat
  BY <1>1, <1>3
<1>5. r \in Nat /\ r * Resolution <= q * Maximum /\ q * Maximum < r * Resolution + Resolution
  BY <1>1, <1>4
<1> HIDE DEF q, r
<1>6. r <= v
  <2>1. r * Resolution <= v * Resolution
    BY <1>1, <1>2, <1>3, <1>4, <1>5
  <2> QED
    BY <1>1, <1>5, <2>1
<1>7. v <= r + 1
  <2>1. v * Resolution < (r + 2) * Resolution
    BY <1>1, <1>2, <1>3, <1>4, <1>5
  <2> QED
    BY <1>1, <1>5, <2>1
<1>8. r = v - 1 \/ r = v
  BY <1>5, <1>6, <1>7
<1> QED
  BY <1>8 DEF Scaled, Unscaled, q, r

\* The values of the bits are what their recursion says.
LEMMA Pow2Is ==
  /\ Pow2 \in [0 .. Bits -> Nat] /\ Pow2[0] = 1
  /\ \A k \in 1 .. Bits : Pow2[k] = 2 * Pow2[k - 1]
<1> DEFINE F == [k \in 1 .. Bits |-> [x \in Nat |-> 2 * x]]
<1>1. Bits \in Nat
  BY ColorAssumption
<1>2. PICK g \in [0 .. Bits -> Nat] : g[0] = 1 /\ \A k \in 1 .. Bits : g[k] = F[k][g[k - 1]]
  <2>1. F \in [1 .. Bits -> [Nat -> Nat]] /\ 1 \in Nat
    OBVIOUS
  <2>2. Iterable(Bits, Nat, 1, F)
    <3> HIDE DEF F
    <3> QED
      BY <1>1, <2>1, StepByStep
  <2> HIDE DEF F
  <2> QED
    BY <2>2 DEF Iterable
<1>3. ASSUME NEW k \in 1 .. Bits PROVE g[k] = 2 * g[k - 1]
  <2>1. g[k - 1] \in Nat
    BY <1>1
  <2>2. F[k] = [x \in Nat |-> 2 * x]
    OBVIOUS
  <2> HIDE DEF F
  <2> QED
    BY <1>2, <2>1, <2>2
<1>4. g = [k \in 0 .. Bits |-> IF k = 0 THEN 1 ELSE 2 * g[k - 1]]
  BY <1>1, <1>2, <1>3
<1>5. Pow2 = [k \in 0 .. Bits |-> IF k = 0 THEN 1 ELSE 2 * Pow2[k - 1]]
  <2>1. \E f : f = [k \in 0 .. Bits |-> IF k = 0 THEN 1 ELSE 2 * f[k - 1]]
    BY <1>4
  <2> QED
    BY <2>1, Zenon DEF Pow2
<1> DEFINE Same == {k \in 0 .. Bits : Pow2[k] = g[k]}
<1>6. 0 \in Same
  BY <1>1, <1>2, <1>5
<1>7. ASSUME NEW k \in 1 .. Bits, k - 1 \in Same PROVE k \in Same
  BY <1>1, <1>3, <1>5, <1>7
<1>8. 0 .. Bits \subseteq Same
  <2> HIDE DEF Same
  <2> QED
    BY <1>1, <1>6, <1>7, UpTo
<1>9. Pow2 = g
  BY <1>5, <1>8
<1> QED
  BY <1>2, <1>3, <1>9

\* The chip receives the component that was sent: after k bits, what it has received,
\* over the byte that is left to send, is the component shifted k places up.
LEMMA ReceivedIs ==
  ASSUME NEW v \in Nat, v < Pow2[Bits]
  PROVE  Received(SpiData(v)) = v
<1> DEFINE W == Pow2[Bits]
           H == Pow2[Bits - 1]
           byte[k \in 0 .. Bits] == (IF k = 0 THEN v ELSE 2 * byte[k - 1]) % Pow2[Bits]
           bits == [k \in 0 .. Bits - 1 |-> byte[k] \div H]
           r[k \in 0 .. Bits] == IF k = 0 THEN 0 ELSE 2 * r[k - 1] + bits[k - 1]
<1>1. Bits \in Nat /\ Bits > 0
  BY ColorAssumption
<1>2. W \in Nat /\ H \in Nat /\ W = 2 * H /\ v < W
  BY <1>1, Pow2Is
<1>3. H > 0 /\ W > 0
  BY <1>2
<1>4. byte = [k \in 0 .. Bits |-> (IF k = 0 THEN v ELSE 2 * byte[k - 1]) % W]
  <2> DEFINE F == [k \in 1 .. Bits |-> [x \in 0 .. W - 1 |-> (2 * x) % W]]
  <2>1. v \in 0 .. W - 1 /\ v % W = v
    BY <1>2, <1>3
  <2>2. F \in [1 .. Bits -> [0 .. W - 1 -> 0 .. W - 1]]
    BY <1>2, <1>3
  <2>3. PICK g \in [0 .. Bits -> 0 .. W - 1] : g[0] = v /\ \A k \in 1 .. Bits : g[k] = F[k][g[k - 1]]
    <3> HIDE DEF F
    <3>1. Iterable(Bits, 0 .. W - 1, v, F)
      BY <1>1, <2>1, <2>2, StepByStep
    <3> QED
      BY <3>1 DEF Iterable
  <2>4. g = [k \in 0 .. Bits |-> (IF k = 0 THEN v ELSE 2 * g[k - 1]) % W]
    <3>1. ASSUME NEW k \in 1 .. Bits PROVE g[k] = (2 * g[k - 1]) % W
      <4>1. g[k - 1] \in 0 .. W - 1 
        BY <1>1
      <4> HIDE DEF W
      <4> QED
        BY <2>3, <4>1
    <3> HIDE DEF W
    <3> QED
      BY <1>1, <2>1, <2>3, <3>1
  <2>5. \E f : f = [k \in 0 .. Bits |-> (IF k = 0 THEN v ELSE 2 * f[k - 1]) % W]
    BY <2>4
  <2> QED
    BY <2>5, Zenon
<1> HIDE DEF byte, W, H
<1> DEFINE Halving == {k \in 0 .. Bits : byte[k] \in 0 .. W - 1}
<1>5. 0 .. Bits \subseteq Halving
  <2>1. 0 \in Halving
    BY <1>1, <1>2, <1>3, <1>4
  <2>2. ASSUME NEW k \in 1 .. Bits, k - 1 \in Halving PROVE k \in Halving
    <3>1. byte[k] = (2 * byte[k - 1]) % W
      BY <1>1, <1>4
    <3>2. 2 * byte[k - 1] \in Int
      BY <1>2, <2>2
    <3> QED
      BY <1>1, <1>2, <1>3, <3>1, <3>2
  <2> HIDE DEF Halving
  <2> QED
    BY <1>1, <2>1, <2>2, UpTo
<1>6. \A k \in 0 .. Bits : byte[k] \in 0 .. W - 1
  BY <1>5
<1>7. bits \in [0 .. Bits - 1 -> 0 .. 1]
  <2> SUFFICES ASSUME NEW k \in 0 .. Bits - 1 PROVE byte[k] \div H \in 0 .. 1
    OBVIOUS
  <2>1. byte[k] \in Nat /\ byte[k] < 2 * H
    BY <1>1, <1>2, <1>6
  <2> QED
    BY <1>2, <1>3, <2>1
<1>8. r = [k \in 0 .. Bits |-> IF k = 0 THEN 0 ELSE 2 * r[k - 1] + bits[k - 1]]
  <2> HIDE DEF bits
  <2> DEFINE F == [k \in 1 .. Bits |-> [x \in Nat |-> 2 * x + bits[k - 1]]]
  <2>1. ASSUME NEW k \in 1 .. Bits PROVE bits[k - 1] \in Nat
    BY <1>1, <1>7
  <2>2. F \in [1 .. Bits -> [Nat -> Nat]] /\ 0 \in Nat
    BY <2>1
  <2>3. PICK g \in [0 .. Bits -> Nat] : g[0] = 0 /\ \A k \in 1 .. Bits : g[k] = F[k][g[k - 1]]
    <3> HIDE DEF F
    <3>1. Iterable(Bits, Nat, 0, F)
      BY <1>1, <2>2, StepByStep
    <3> QED
      BY <3>1 DEF Iterable
  <2>4. g = [k \in 0 .. Bits |-> IF k = 0 THEN 0 ELSE 2 * g[k - 1] + bits[k - 1]]
    <3>1. ASSUME NEW k \in 1 .. Bits PROVE g[k] = 2 * g[k - 1] + bits[k - 1]
      <4>1. g[k - 1] \in Nat
        BY <1>1
      <4>2. F[k] = [x \in Nat |-> 2 * x + bits[k - 1]]
        OBVIOUS
      <4> HIDE DEF F
      <4> QED
        BY <2>3, <4>1, <4>2
    <3> HIDE DEF F
    <3> QED
      BY <1>1, <2>3, <3>1
  <2>5. \E f : f = [k \in 0 .. Bits |-> IF k = 0 THEN 0 ELSE 2 * f[k - 1] + bits[k - 1]]
    BY <2>4
  <2> QED
    BY <2>5, Zenon
<1>9. \A k \in 0 .. Bits - 1 : bits[k] = byte[k] \div H
  OBVIOUS
<1> HIDE DEF r, bits
<1> DEFINE Split == {k \in 0 .. Bits : r[k] \in Nat /\ r[k] * W + byte[k] = v * Pow2[k]}
<1>10. 0 .. Bits \subseteq Split
  <2>1. 0 \in Split
    <3>1. r[0] = 0 /\ byte[0] = v /\ Pow2[0] = 1
      <4>1. v % W = v
        BY <1>2, <1>3
      <4> QED
        BY <1>1, <1>4, <1>8, <4>1, Pow2Is
    <3> QED
      BY <1>1, <1>2, <3>1
  <2>2. ASSUME NEW k \in 1 .. Bits, k - 1 \in Split PROVE k \in Split
    <3> DEFINE x == byte[k - 1]
               q == r[k - 1]
               p == Pow2[k - 1]
    <3>1. k \in 0 .. Bits /\ k # 0 /\ k - 1 \in 0 .. Bits - 1 /\ k - 1 \in 0 .. Bits
      BY <1>1
    <3>2. x \in Nat /\ x < 2 * H /\ q \in Nat /\ p \in Nat /\ q * W + x = v * p
      BY <1>2, <1>6, <2>2, <3>1, Pow2Is
    <3>3. byte[k] = (2 * x) % W /\ r[k] = 2 * q + (x \div H) /\ Pow2[k] = 2 * p
      BY <1>4, <1>8, <1>9, <3>1, Pow2Is
    <3> HIDE DEF x, q, p
    <3>4. CASE x < H
      <4>1. x \div H = 0 /\ (2 * x) % W = 2 * x
        BY <1>2, <1>3, <3>2, <3>4
      <4>2. (2 * q) * W + 2 * x = v * (2 * p)
        BY <1>2, <3>2
      <4> QED
        BY <3>1, <3>2, <3>3, <4>1, <4>2
    <3>5. CASE x >= H
      <4>1. x \div H = 1 /\ (2 * x) % W = 2 * x - W
        BY <1>2, <1>3, <3>2, <3>5
      <4>2. (2 * q + 1) * W + (2 * x - W) = v * (2 * p)
        BY <1>2, <3>2
      <4> QED
        BY <3>1, <3>2, <3>3, <4>1, <4>2
    <3> QED
      BY <1>2, <3>2, <3>4, <3>5
  <2> HIDE DEF Split
  <2> QED
    BY <1>1, <2>1, <2>2, UpTo
<1>11. r[Bits] \in Nat /\ r[Bits] * W + byte[Bits] = v * W /\ byte[Bits] \in 0 .. W - 1
  BY <1>1, <1>6, <1>10 DEF W
<1>12. r[Bits] = v
  <2>1. PICK q \in Nat, x \in 0 .. W - 1 : q = r[Bits] /\ x = byte[Bits]
    BY <1>11
  <2>2. (v - q) * W = x
    <3>1. q * W + x = v * W
      BY <1>11, <2>1
    <3>2. q * W \in Int /\ v * W \in Int /\ (v - q) * W = v * W - q * W
      BY <1>2
    <3> QED
      BY <3>1, <3>2
  <2>3. v - q < 1
    BY <1>2, <1>3, <2>2
  <2>4. v - q > -1
    BY <1>2, <1>3, <2>2
  <2> QED
    BY <2>1, <2>3, <2>4
<1>13. SpiData(v) = bits
  BY DEF SpiData, bits, byte, H
<1>14. Received(bits) = r[Bits]
  BY DEF Received, r
<1> QED
  BY <1>12, <1>13, <1>14

\* The division that scales a component, without the quotient.
LEMMA ScaledIs ==
  ASSUME NEW c \in Nat
  PROVE  /\ Scaled(c) \in Nat
         /\ Scaled(c) * Resolution <= c * Maximum
         /\ c * Maximum < Scaled(c) * Resolution + Resolution
<1>1. Resolution \in Nat /\ Resolution > 0 /\ Maximum \in Nat /\ Maximum > 0
  BY ColorAssumption
<1>2. c * Maximum \in Nat
  BY <1>1
<1> QED
  BY <1>1, <1>2 DEF Scaled

\* A brighter colour is not scaled to a darker one.
LEMMA ScaledMonotone ==
  ASSUME NEW c \in Nat, NEW d \in Nat, c <= d
  PROVE  Scaled(c) <= Scaled(d)
<1>1. Resolution \in Nat /\ Resolution > 0 /\ Maximum \in Nat
  BY ColorAssumption
<1>2. PICK p \in Nat, q \in Nat : p = Scaled(c) /\ q = Scaled(d)
  BY ScaledIs
<1>3. p * Resolution <= c * Maximum /\ d * Maximum < q * Resolution + Resolution
  BY <1>2, ScaledIs
<1>4. c * Maximum <= d * Maximum
  BY <1>1
<1>5. c * Maximum \in Nat /\ d * Maximum \in Nat /\ p * Resolution \in Nat /\ q * Resolution \in Nat
      /\ (q + 1) * Resolution = q * Resolution + Resolution /\ (q + 1) * Resolution \in Nat
  BY <1>1
<1>6. p * Resolution < (q + 1) * Resolution
  BY <1>1, <1>3, <1>4, <1>5
<1>7. p < q + 1
  BY <1>1, <1>6
<1> QED
  BY <1>2, <1>7

\* Full brightness is the driver's full brightness.
LEMMA FullIsFull == Scaled(Resolution) = Maximum
<1>1. Resolution \in Nat /\ Resolution > 0 /\ Maximum \in Nat
  BY ColorAssumption
<1> QED
  BY <1>1 DEF Scaled

\* A scaled component fits the byte, so the chip gets it as it is.
LEMMA SentIs ==
  ASSUME Maximum < Pow2[Bits], NEW c \in 0 .. Resolution
  PROVE  Sent(c) = Scaled(c)
<1>1. Resolution \in Nat /\ Maximum \in Nat /\ c \in Nat
  BY ColorAssumption
<1>2. Scaled(c) \in Nat /\ Scaled(c) <= Maximum
  <2>1. Scaled(c) <= Scaled(Resolution)
    BY <1>1, ScaledMonotone
  <2> QED
    BY <1>1, <2>1, ScaledIs, FullIsFull
<1>3. Pow2[Bits] \in Nat
  BY Pow2Is, ColorAssumption
<1>4. Scaled(c) < Pow2[Bits]
  BY <1>1, <1>2, <1>3
<1> QED
  BY <1>2, <1>4, ReceivedIs DEF Sent
-----------------------------------------------------------------------------
(* The picture.                                                            *)

\* The arguments of a pending call are what its tests let through.
CallType(c) ==
  \/ c = Idle
  \/ /\ c.op \in {"paint", "back"} /\ c.from \in Nat /\ c.n \in Nat
     /\ c.color \in [0 .. c.n - 1 -> Colors] /\ (c.op = "back" => c.back \in Colors)
  \/ c.op = "all" /\ c.color \in Colors
  \/ /\ c.op = "shift" /\ c.dir \in {"right", "left"}
     /\ c.from \in Nat /\ c.to \in Nat /\ c.step \in Nat
  \/ /\ c.op = "mirror" /\ c.dir \in {"close", "far"}
     /\ c.from \in Nat /\ c.to \in Nat /\ c.step \in Nat /\ c.from < c.to
  \/ c.op = "copy" /\ c.src \in Nat /\ c.dst \in Nat /\ c.n \in Nat
  \/ c.op \in {"get", "refresh"}

\* This for every thread.
CallTypes == call = [u \in Users |-> call[u]] /\ \A u \in Users : CallType(call[u])

\* The picture has a colour for each of its cells.
PictureType == buf \in [0 .. cells - 1 -> Nat] /\ fault \in BOOLEAN

\* The inductive invariant behind the type of the picture.
DrawInv == SizeInv /\ CallTypes /\ PictureType

\* A call that joins the others changes nothing else.
LEMMA BeginTyped ==
  ASSUME CallTypes, NEW u \in Users, NEW c, CallType(c), Begin(u, c)
  PROVE  CallTypes' /\ UNCHANGED <<buf, cells, fault>>
<1>1. /\ call' = [v \in Users |-> call'[v]]
      /\ \A v \in Users : call'[v] = IF v = u THEN c ELSE call[v]
  BY DEF Begin, CallTypes
<1>2. \A v \in Users : CallType(call'[v])
  BY <1>1 DEF CallTypes
<1>3. CallTypes'
  BY <1>1, <1>2 DEF CallTypes, CallType, Idle
<1> QED
  BY <1>3 DEF Begin, deviceVars

\* A call that is over leaves the others as they were.
LEMMA DoneTyped ==
  ASSUME CallTypes, NEW u \in Users, Done(u) PROVE CallTypes'
<1>1. /\ call' = [v \in Users |-> call'[v]]
      /\ \A v \in Users : call'[v] = IF v = u THEN Idle ELSE call[v]
  BY DEF Done, CallTypes
<1>2. \A v \in Users : CallType(call'[v])
  BY <1>1 DEF CallTypes, CallType
<1> QED
  BY <1>1, <1>2 DEF CallTypes, CallType, Idle

\* The array of one colour.
LEMMA ConstantColors ==
  ASSUME NEW n \in Nat, NEW c \in Colors
  PROVE  [i \in 0 .. n - 1 |-> c] \in [0 .. n - 1 -> Colors]
OBVIOUS

\* The tests of every drawing call give the arguments their types.
LEMMA StartsTyped ==
  ASSUME CallTypes, NEW u \in Users, Starts(u)
  PROVE  CallTypes' /\ UNCHANGED <<buf, cells, fault>>
<1>1. Indices \subseteq Nat /\ \A a \in Arrays : a \in [DOMAIN a -> Colors]
  BY PixelAssumption
<1>2. CASE SetSingle(u)
  <2> PICK from \in Indices, n \in Indices, c \in Colors :
        Begin(u, [op |-> "paint", from |-> from, n |-> n, color |-> [i \in 0 .. n - 1 |-> c]])
    BY <1>2 DEF SetSingle
  <2>1. CallType([op |-> "paint", from |-> from, n |-> n, color |-> [i \in 0 .. n - 1 |-> c]])
    BY <1>1, ConstantColors DEF CallType
  <2> QED
    BY <2>1, BeginTyped
<1>3. CASE SetMulti(u)
  <2> PICK from \in Indices, n \in Indices, a \in Arrays :
        /\ DOMAIN a = 0 .. n - 1
        /\ Begin(u, [op |-> "paint", from |-> from, n |-> n, color |-> a])
    BY <1>3 DEF SetMulti
  <2>0. a \in [0 .. n - 1 -> Colors]
    BY <1>1
  <2>1. CallType([op |-> "paint", from |-> from, n |-> n, color |-> a])
    BY <1>1, <2>0 DEF CallType
  <2> QED
    BY <2>1, BeginTyped
<1>4. CASE SetWithBack(u)
  <2> PICK from \in Indices, n \in Indices, c \in Colors, back \in Colors :
        Begin(u, [op |-> "back", from |-> from, n |-> n, back |-> back,
                  color |-> [i \in 0 .. n - 1 |-> c]])
    BY <1>4 DEF SetWithBack
  <2>1. CallType([op |-> "back", from |-> from, n |-> n, back |-> back,
                  color |-> [i \in 0 .. n - 1 |-> c]])
    BY <1>1, ConstantColors DEF CallType
  <2> QED
    BY <2>1, BeginTyped
<1>5. CASE SetAll(u)
  <2> PICK c \in Colors : Begin(u, [op |-> "all", color |-> c])
    BY <1>5 DEF SetAll
  <2> QED
    BY BeginTyped DEF CallType
<1>6. CASE Shift(u)
  <2> PICK dir \in {"right", "left"}, from \in Indices, to \in Indices, step \in Indices :
        Begin(u, [op |-> "shift", dir |-> dir, from |-> from, to |-> to, step |-> step])
    BY <1>6 DEF Shift
  <2> QED
    BY <1>1, BeginTyped DEF CallType
<1>7. CASE Mirror(u)
  <2> PICK dir \in {"close", "far"}, from \in Indices, to \in Indices, step \in Indices :
        /\ from < to
        /\ Begin(u, [op |-> "mirror", dir |-> dir, from |-> from, to |-> to, step |-> step])
    BY <1>7 DEF Mirror
  <2> QED
    BY <1>1, BeginTyped DEF CallType
<1>8. CASE Copy(u)
  <2> PICK src \in Indices, dst \in Indices, n \in Indices :
        Begin(u, [op |-> "copy", src |-> src, dst |-> dst, n |-> n])
    BY <1>8 DEF Copy
  <2> QED
    BY <1>1, BeginTyped DEF CallType
<1>9. CASE Get(u)
  <2> PICK i \in Indices : Begin(u, [op |-> "get", index |-> i])
    BY <1>9 DEF Get
  <2> QED
    BY BeginTyped DEF CallType
<1>10. CASE Refresh(u)
  BY <1>10, BeginTyped DEF Refresh, CallType
<1> QED
  BY <1>2, <1>3, <1>4, <1>5, <1>6, <1>7, <1>8, <1>9, <1>10 DEF Starts

\* A shift inside the picture leaves a picture.
LEMMA ShiftedTyped ==
  ASSUME NEW D, NEW b \in [D -> Nat], NEW dir \in {"right", "left"},
         NEW from \in Nat, NEW to \in Nat, NEW step \in Nat,
         from <= to, step <= to - from, from .. to \subseteq D
  PROVE  Shifted(b, dir, from, to, step) \in [D -> Nat]
<1>1. Shifted(b, dir, from, to, step) =
        [i \in D |-> IF i \in from .. to THEN b[Source(dir, from, to, step, i)] ELSE b[i]]
  BY ShiftedIs
<1>2. ASSUME NEW i \in from .. to PROVE Source(dir, from, to, step, i) \in D
  <2>1. Source(dir, from, to, step, i) \in from .. to
    BY SourceIsRotation
  <2> QED
    BY <2>1
<1> QED
  BY <1>1, <1>2

\* The application's components have scaled values.
LEMMA ColorsScale == \A c \in Colors : Scaled(c) \in Nat
<1> SUFFICES ASSUME NEW c \in Colors PROVE Scaled(c) \in Nat
  OBVIOUS
<1>1. c \in Nat
  BY PixelAssumption, ColorAssumption
<1> QED
  BY <1>1, ScaledIs

\* So does a painted segment.
LEMMA PaintedTyped ==
  ASSUME NEW D, D \subseteq Nat, NEW b \in [D -> Nat], NEW from \in Nat, NEW n \in Nat,
         NEW color \in [0 .. n - 1 -> Colors]
  PROVE  Painted(b, from, n, color) \in [D -> Nat]
<1>1. ASSUME NEW i \in from .. from + n - 1 PROVE Scaled(color[i - from]) \in Nat
  <2>1. i - from \in 0 .. n - 1
    OBVIOUS
  <2>2. color[i - from] \in Colors
    BY <2>1
  <2> QED
    BY <2>2, ColorsScale
<1> QED
  BY <1>1 DEF Painted

\* The flag stays a flag.
LEMMA FaultIsBoolean ==
  ASSUME fault \in BOOLEAN, NEW u \in Users, Does(u) PROVE fault' \in BOOLEAN
<1>1. CASE DoPaint(u)
  BY <1>1 DEF DoPaint, Uses
<1>2. CASE DoBack(u)
  BY <1>2 DEF DoBack
<1>3. CASE DoAll(u)
  BY <1>3 DEF DoAll, Uses
<1>4. CASE DoShift(u)
  BY <1>4 DEF DoShift, Uses
<1>5. CASE DoMirror(u)
  BY <1>5 DEF DoMirror, Uses
<1>6. CASE DoCopy(u)
  BY <1>6 DEF DoCopy
<1>7. CASE DoGet(u)
  BY <1>7 DEF DoGet
<1>8. CASE DoRefresh(u)
  BY <1>8 DEF DoRefresh
<1> QED
  BY <1>1, <1>2, <1>3, <1>4, <1>5, <1>6, <1>7, <1>8 DEF Does

\* The halves that a mirrored shift makes of a segment.
LEMMA Halves ==
  ASSUME NEW from \in Nat, NEW to \in Nat, from < to, NEW h, h = Half(from, to)
  PROVE  h \in Nat /\ h > 0 /\ from + 2 * h <= to + 1
         /\ ((to - from) % 2 = 1 => from + 2 * h - 1 = to)
BY DEF Half

\* Both halves lie inside a picture of n pixels when the segment does.
LEMMA HalvesInside ==
  ASSUME NEW from \in Nat, NEW h \in Nat, NEW n \in Nat, h > 0, ~(from + 2 * h > n)
  PROVE  /\ from + h - 1 \in Nat /\ from .. from + h - 1 \subseteq 0 .. n - 1
         /\ from + h \in Nat /\ from + 2 * h - 1 \in Nat
         /\ from + h .. from + 2 * h - 1 \subseteq 0 .. n - 1
         /\ from + h <= from + 2 * h - 1
         /\ (from + 2 * h - 1) - (from + h) = (from + h - 1) - from
OBVIOUS

\* Whatever a call does to the picture under the mutex, and the unlocked copy without it,
\* reads only pixels that the picture has.
LEMMA PictureKept ==
  ASSUME DrawInv, NEW u \in Users, Does(u) PROVE buf' \in [0 .. cells - 1 -> Nat]
<1> DEFINE c == call[u]
           D == 0 .. cells - 1
<1>1. cells \in Nat /\ num \in Nat /\ buf \in [D -> Nat] /\ CallType(c) /\ D \subseteq Nat
  BY DEF DrawInv, SizeInv, SizeType, CallTypes, PictureType
<1>2. CASE DoPaint(u)
  <2>1. c.op = "paint" /\ buf' = Painted(buf, c.from, c.n, c.color)
    BY <1>2 DEF DoPaint
  <2>2. c.from \in Nat /\ c.n \in Nat /\ c.color \in [0 .. c.n - 1 -> Colors]
    BY <1>1, <2>1 DEF CallType, Idle
  <2> HIDE DEF c, D
  <2> QED
    BY <1>1, <2>1, <2>2, PaintedTyped DEF D
<1>3. CASE DoBack(u)
  <2> DEFINE b == [i \in D |-> IF i < num THEN Scaled(c.back) ELSE buf[i]]
  <2>1. c.op = "back" /\ buf' = Painted(b, c.from, c.n, c.color)
    BY <1>1, <1>3 DEF DoBack
  <2>2. c.from \in Nat /\ c.n \in Nat /\ c.color \in [0 .. c.n - 1 -> Colors] /\ c.back \in Colors
    BY <1>1, <2>1 DEF CallType, Idle
  <2>3. b \in [D -> Nat]
    <3>1. Scaled(c.back) \in Nat
      BY <2>2, ColorsScale
    <3> QED
      BY <1>1, <3>1
  <2> HIDE DEF c, D, b
  <2> QED
    BY <1>1, <2>1, <2>2, <2>3, PaintedTyped DEF D
<1>4. CASE DoAll(u)
  <2>1. c.op = "all" /\ buf' = [i \in D |-> IF i < num THEN Scaled(c.color) ELSE buf[i]]
    BY <1>1, <1>4 DEF DoAll
  <2>2. Scaled(c.color) \in Nat
    BY <1>1, <2>1, ColorsScale DEF CallType, Idle
  <2> QED
    BY <1>1, <2>1, <2>2
<1>5. CASE DoShift(u)
  <2>1. c.op = "shift" /\ (MayShift(c, c.step) \/ UNCHANGED buf)
    BY <1>5 DEF DoShift
  <2>2. c.dir \in {"right", "left"} /\ c.from \in Nat /\ c.to \in Nat /\ c.step \in Nat
    BY <1>1, <2>1 DEF CallType, Idle
  <2>3. CASE UNCHANGED buf
    BY <1>1, <2>3
  <2>4. CASE MayShift(c, c.step) /\ ~UNCHANGED buf
    <3>1. /\ fault' = (fault \/ (cells # 0 /\ c.from + (c.to - c.from + 1) > cells)) /\ ~fault'
          /\ buf' = Shifted(buf, c.dir, c.from, c.to, c.step)
      BY <1>5, <2>4 DEF DoShift, Uses
    <3>2. cells # 0 /\ c.from <= c.to /\ c.step <= c.to - c.from
      BY <2>4 DEF MayShift
    <3>3. ~(c.from + (c.to - c.from + 1) > cells)
      BY <3>1, <3>2
    <3>4. c.from .. c.to \subseteq D
      BY <1>1, <2>2, <3>3
    <3> HIDE DEF c, D
    <3> QED
      BY <1>1, <2>2, <3>1, <3>2, <3>4, ShiftedTyped DEF D
  <2> QED
    BY <2>1, <2>3, <2>4
<1>6. CASE DoMirror(u)
  <2> DEFINE h == Half(c.from, c.to)
             s == FirstHalf(c.dir, c.from, h)
             t == SecondHalf(c.dir, c.from, h)
  <2>1. c.op = "mirror" /\ (MayShift(s, c.step) \/ UNCHANGED buf)
    BY <1>6 DEF DoMirror
  <2>2. c.from \in Nat /\ c.to \in Nat /\ c.step \in Nat /\ c.from < c.to
    BY <1>1, <2>1 DEF CallType, Idle
  <2>3. CASE UNCHANGED buf
    BY <1>1, <2>3
  <2>4. CASE MayShift(s, c.step) /\ ~UNCHANGED buf
    <3>1. /\ fault' = (fault \/ (cells # 0 /\ c.from + 2 * h > cells)) /\ ~fault'
          /\ \/ buf' = ShiftedBy(ShiftedBy(buf, s, c.step), t, c.step)
             \/ buf' = ShiftedBy(buf, s, c.step)
      BY <1>6, <2>4 DEF DoMirror, Uses
    <3>2. cells # 0 /\ s.from <= s.to /\ c.step <= s.to - s.from
      BY <2>4 DEF MayShift
    <3>3. ~(c.from + 2 * h > cells)
      BY <3>1, <3>2
    <3>4. h \in Nat /\ h > 0
      BY <2>2, Halves
    <3>5. /\ s.from = c.from /\ s.to = c.from + h - 1 /\ s.dir \in {"right", "left"}
          /\ t.from = c.from + h /\ t.to = c.from + 2 * h - 1 /\ t.dir \in {"right", "left"}
      BY DEF FirstHalf, SecondHalf
    <3> HIDE DEF h, s, t
    <3>6. /\ s.from \in Nat /\ s.to \in Nat /\ s.from .. s.to \subseteq D
          /\ t.from \in Nat /\ t.to \in Nat /\ t.from .. t.to \subseteq D
          /\ t.from <= t.to /\ c.step <= t.to - t.from
      <4>1. PICK from \in Nat, k \in Nat : from = c.from /\ k = h
        BY <2>2, <3>4
      <4>2. k > 0 /\ ~(from + 2 * k > cells)
        BY <3>3, <3>4, <4>1
      <4>3. /\ from + k - 1 \in Nat /\ from .. from + k - 1 \subseteq D
            /\ from + k \in Nat /\ from + 2 * k - 1 \in Nat
            /\ from + k .. from + 2 * k - 1 \subseteq D
            /\ from + k <= from + 2 * k - 1
            /\ (from + 2 * k - 1) - (from + k) = (from + k - 1) - from
        BY <1>1, <4>2, HalvesInside
      <4> QED
        BY <3>2, <3>5, <4>1, <4>3
    <3> HIDE DEF c, D
    <3>7. PICK b \in [D -> Nat] : b = ShiftedBy(buf, s, c.step)
      BY <1>1, <2>2, <3>2, <3>5, <3>6, ShiftedTyped DEF ShiftedBy
    <3>8. ShiftedBy(b, t, c.step) \in [D -> Nat]
      BY <2>2, <3>5, <3>6, ShiftedTyped DEF ShiftedBy
    <3> QED
      BY <3>1, <3>7, <3>8 DEF D
  <2> QED
    BY <2>1, <2>3, <2>4
<1>7. CASE DoCopy(u)
  <2>1. /\ c.op = "copy" /\ fault' = (fault \/ c.src + c.n > cells \/ c.dst + c.n > cells)
        /\ buf' = IF fault' THEN buf
                  ELSE [i \in D |-> IF i \in c.dst .. c.dst + c.n - 1
                                      THEN buf[c.src + (i - c.dst)] ELSE buf[i]]
    BY <1>1, <1>7 DEF DoCopy
  <2>2. c.src \in Nat /\ c.dst \in Nat /\ c.n \in Nat
    BY <1>1, <2>1 DEF CallType, Idle
  <2>3. CASE fault'
    BY <1>1, <2>1, <2>3
  <2>4. CASE ~fault'
    <3>1. PICK src \in Nat, dst \in Nat, n \in Nat : src = c.src /\ dst = c.dst /\ n = c.n
      BY <2>2
    <3>2. ~(src + n > cells)
      BY <2>1, <2>4, <3>1
    <3>3. ASSUME NEW i \in dst .. dst + n - 1 PROVE src + (i - dst) \in D
      BY <1>1, <3>2
    <3> HIDE DEF c, D
    <3> QED
      BY <1>1, <2>1, <2>4, <3>1, <3>3 DEF D
  <2> QED
    BY <2>3, <2>4
<1>8. CASE DoGet(u) \/ DoRefresh(u)
  BY <1>1, <1>8 DEF DoGet, DoRefresh
<1> QED
  BY <1>2, <1>3, <1>4, <1>5, <1>6, <1>7, <1>8 DEF Does

\* Fresh memory, cleared or not.
LEMMA FreshTyped ==
  ASSUME NEW n, NEW dark, NEW b \in Fresh(n, dark) PROVE b \in [0 .. n - 1 -> Nat]
<1>1. b \in [0 .. n - 1 -> Junk \cup {0}] /\ Junk \cup {0} \subseteq Nat
  BY PixelAssumption DEF Fresh
<1> QED
  BY <1>1

\* Open, close and resize leave the calls alone and bring memory of the new size.
LEMMA LifeTyped ==
  ASSUME DrawInv, NEW u \in Users, Open(u) \/ Close(u) \/ Resize(u)
  PROVE  CallTypes' /\ PictureType'
<1>1. UNCHANGED <<call, fault>>
  BY DEF Open, Close, Resize
<1>2. UNCHANGED <<cells, buf>> \/ \E dark : buf' \in Fresh(cells', dark)
  <2>1. CASE Open(u)
    BY <2>1 DEF Open
  <2>2. CASE Close(u)
    BY <2>2 DEF Close
  <2>3. CASE Resize(u)
    BY <2>3 DEF Resize
  <2> QED
    BY <2>1, <2>2, <2>3
<1>3. PictureType'
  <2>1. CASE UNCHANGED <<cells, buf>>
    BY <1>1, <2>1 DEF DrawInv, PictureType
  <2>2. CASE \E dark : buf' \in Fresh(cells', dark)
    <3>1. buf' \in [0 .. cells' - 1 -> Nat]
      BY <2>2, FreshTyped
    <3> QED
      BY <1>1, <3>1 DEF DrawInv, PictureType
  <2> QED
    BY <1>2, <2>1, <2>2
<1> QED
  BY <1>1, <1>3 DEF DrawInv, CallTypes, CallType, Idle

\* The inductive step.
LEMMA DrawStep == DrawInv /\ [Next]_vars => DrawInv'
<1> SUFFICES ASSUME DrawInv, [Next]_vars PROVE DrawInv'
  OBVIOUS
<1>1. SizeInv'
  BY SizeStep DEF DrawInv
<1>2. ASSUME NEW u \in Users, Starts(u) PROVE CallTypes' /\ PictureType'
  BY <1>2, StartsTyped DEF DrawInv, PictureType
<1>3. ASSUME NEW u \in Users, Does(u) PROVE CallTypes' /\ PictureType'
  <2>1. Done(u)
    BY <1>3, DoesDone
  <2>2. CallTypes'
    BY <2>1, DoneTyped DEF DrawInv
  <2>3. buf' \in [0 .. cells - 1 -> Nat] /\ fault' \in BOOLEAN
    BY <1>3, PictureKept, FaultIsBoolean DEF DrawInv, PictureType
  <2> QED
    BY <2>1, <2>2, <2>3 DEF Done, PictureType
<1>4. ASSUME NEW u \in Users, Open(u) \/ Close(u) \/ Resize(u) PROVE CallTypes' /\ PictureType'
  BY <1>4, LifeTyped
<1>5. CASE UNCHANGED vars
  BY <1>1, <1>5 DEF vars, DrawInv, CallTypes, CallType, Idle, PictureType
<1> QED
  BY <1>1, <1>2, <1>3, <1>4, <1>5 DEF Next, DrawInv

\* The initial states.
LEMMA DrawInit == Init => DrawInv
<1> SUFFICES ASSUME Init PROVE DrawInv
  OBVIOUS
<1>1. SizeInv
  BY SizeInit
<1>2. CallTypes
  BY DEF Init, CallTypes, CallType
<1>3. buf = [i \in 0 .. -1 |-> 0] /\ cells = 0 /\ fault = FALSE
  BY DEF Init
<1>4. PictureType
  <2>1. 0 .. cells - 1 = 0 .. -1
    BY <1>3
  <2>2. buf \in [0 .. cells - 1 -> Nat]
    BY <1>3, <2>1
  <2> QED
    BY <1>3, <2>2 DEF PictureType
<1> QED
  BY <1>1, <1>2, <1>4 DEF DrawInv

\* The picture always has a value for each of its cells, whatever the callers do and
\* whichever memory is refused: no call reads a pixel it does not have into the picture.
THEOREM TypeCorrect == Spec => []TypeOK
<1>1. DrawInv => TypeOK
  <2> SUFFICES ASSUME DrawInv, NEW u \in Users PROVE call[u].op \in OpNames
    BY DEF DrawInv, SizeInv, SizeType, PictureType, TypeOK
  <2>1. CallType(call[u])
    BY DEF DrawInv, CallTypes
  <2> QED
    BY <2>1 DEF CallType, Idle, OpNames
<1> QED
  BY <1>1, DrawInit, DrawStep, PTL DEF Spec
-----------------------------------------------------------------------------
(* What the calls do with the picture.                                     *)

\* The segment of a pending shift is inside the picture, or there is none.
SegmentsInside ==
  \A u \in Users : call[u].op \in {"shift", "mirror"} => Covered(call[u].to + 1)

\* pixel_num, which the tests read before the mutex, is the size of an open device's
\* picture.
LEMMA StartsInside ==
  ASSUME Kept("memory"), DrawInv, SegmentsInside, NEW u \in Users, Starts(u) PROVE SegmentsInside'
<1>1. num \in Nat /\ cells \in Nat /\ (start => cells = num) /\ Indices \subseteq Nat
  BY PixelAssumption DEF DrawInv, SizeInv, SizeType, SizesAgree
<1>2. UNCHANGED cells /\ start
  BY DEF Starts, SetSingle, SetMulti, SetWithBack, SetAll, Shift, Mirror, Copy, Get, Refresh,
         Begin, deviceVars
<1>3. ASSUME NEW c, call' = [call EXCEPT ![u] = c],
             c.op \in {"shift", "mirror"} => Covered(c.to + 1)
      PROVE  SegmentsInside'
  <2>1. \A v \in Users : call'[v] = IF v = u THEN c ELSE call[v]
    BY <1>3 DEF DrawInv, CallTypes
  <2> QED
    BY <1>2, <1>3, <2>1 DEF SegmentsInside, Covered
<1>4. CASE Shift(u)
  <2> PICK dir \in {"right", "left"}, from \in Indices, to \in Indices, step \in Indices :
        /\ to < num
        /\ call' = [call EXCEPT ![u] = [op |-> "shift", dir |-> dir, from |-> from, to |-> to,
                                        step |-> step]]
    BY <1>4 DEF Shift, Begin
  <2>1. Covered(to + 1)
    BY <1>1, <1>2 DEF Covered
  <2> QED
    BY <1>3, <2>1
<1>5. CASE Mirror(u)
  <2> PICK dir \in {"close", "far"}, from \in Indices, to \in Indices, step \in Indices :
        /\ to < num
        /\ call' = [call EXCEPT ![u] = [op |-> "mirror", dir |-> dir, from |-> from, to |-> to,
                                        step |-> step]]
    BY <1>5 DEF Mirror, Begin
  <2>1. Covered(to + 1)
    BY <1>1, <1>2 DEF Covered
  <2> QED
    BY <1>3, <2>1
<1>6. CASE ~(Shift(u) \/ Mirror(u))
  <2>1. PICK c : c.op \notin {"shift", "mirror"} /\ call' = [call EXCEPT ![u] = c]
    BY <1>6 DEF Starts, SetSingle, SetMulti, SetWithBack, SetAll, Copy, Get, Refresh, Begin
  <2> QED
    BY <1>3, <2>1
<1> QED
  BY <1>4, <1>5, <1>6

\* The inductive step: nobody is in a call when the picture gets another size, and a close
\* leaves none.
LEMMA SegmentsStep ==
  ASSUME Kept("alone"), Kept("memory")
  PROVE  DrawInv /\ SegmentsInside /\ [Next]_vars => SegmentsInside'
<1> SUFFICES ASSUME DrawInv, SegmentsInside, [Next]_vars PROVE SegmentsInside'
  OBVIOUS
<1>1. ASSUME NEW u \in Users, Starts(u) PROVE SegmentsInside'
  BY <1>1, StartsInside
<1>2. ASSUME NEW u \in Users, Does(u) PROVE SegmentsInside'
  <2>1. Done(u)
    BY <1>2, DoesDone
  <2>2. \A v \in Users : call'[v] = IF v = u THEN Idle ELSE call[v]
    BY <2>1 DEF Done, DrawInv, CallTypes
  <2> QED
    BY <2>1, <2>2 DEF Done, SegmentsInside, Idle, Covered
<1>3. ASSUME NEW u \in Users, Open(u) \/ Resize(u) PROVE SegmentsInside'
  <2>1. \A v \in Users : call'[v] = Idle
    BY <1>3 DEF Open, Resize, Ready, Quiet
  <2> QED
    BY <2>1 DEF SegmentsInside, Idle
<1>4. ASSUME NEW u \in Users, Close(u) PROVE SegmentsInside'
  BY <1>4 DEF Close, SegmentsInside, Covered
<1>5. CASE UNCHANGED vars
  BY <1>5 DEF vars, SegmentsInside, Covered
<1> QED
  BY <1>1, <1>2, <1>3, <1>4, <1>5 DEF Next

\* The initial states.
LEMMA SegmentsInit == Init => SegmentsInside
BY DEF Init, SegmentsInside, Idle

\* The shift of tdl_pixel_cycle_shift_color, cell by cell with the lost cells saved, is
\* the rotation of the segment, for pictures, segments and steps of any size: no colour
\* is lost and no other pixel moves.
THEOREM ShiftsRotate ==
  ASSUME Kept("alone"), Kept("memory") PROVE Spec => []ShiftIsRotation
<1>1. DrawInv /\ SegmentsInside => ShiftIsRotation
  <2> SUFFICES ASSUME DrawInv, SegmentsInside, NEW u \in Users, call[u].op = "shift",
                      MayShift(call[u], call[u].step)
               PROVE  Shifted(buf, call[u].dir, call[u].from, call[u].to, call[u].step)
                        = Rotated(buf, call[u].dir, call[u].from, call[u].to, call[u].step)
    BY DEF ShiftIsRotation
  <2>1. cells \in Nat /\ buf \in [0 .. cells - 1 -> Nat] /\ CallType(call[u])
    BY DEF DrawInv, SizeInv, SizeType, PictureType, CallTypes
  <2>2. PICK dir \in {"right", "left"}, from \in Nat, to \in Nat, step \in Nat :
          dir = call[u].dir /\ from = call[u].from /\ to = call[u].to /\ step = call[u].step
    BY <2>1 DEF CallType, Idle
  <2>3. cells # 0 /\ from <= to /\ step <= to - from /\ to + 1 <= cells
    BY <2>1, <2>2 DEF MayShift, SegmentsInside, Covered
  <2>4. from .. to \subseteq 0 .. cells - 1
    BY <2>1, <2>3
  <2>5. Shifted(buf, dir, from, to, step) = Rotated(buf, dir, from, to, step)
    <3> DEFINE D == 0 .. cells - 1
    <3>1. buf \in [D -> Nat] /\ from .. to \subseteq D
      BY <2>1, <2>4
    <3> HIDE DEF D
    <3> QED
      BY <2>3, <3>1, ShiftedIsRotated
  <2> QED
    BY <2>2, <2>5
<1>2. Init => DrawInv /\ SegmentsInside
  BY DrawInit, SegmentsInit
<1>3. DrawInv /\ SegmentsInside /\ [Next]_vars => (DrawInv /\ SegmentsInside)'
  BY DrawStep, SegmentsStep
<1> QED
  BY <1>1, <1>2, <1>3, PTL DEF Spec

\* tdl_pixel_mirror_cycle_shift_color keeps a symmetric picture symmetric on an even
\* segment of any size.
THEOREM MirrorsStaySymmetric ==
  ASSUME Kept("alone"), Kept("memory") PROVE Spec => []MirrorKeepsSymmetry
<1>1. DrawInv /\ SegmentsInside => MirrorKeepsSymmetry
  <2> SUFFICES ASSUME DrawInv, SegmentsInside, NEW u \in Users, call[u].op = "mirror",
                      NEW h, h = Half(call[u].from, call[u].to),
                      MayShift(FirstHalf(call[u].dir, call[u].from, h), call[u].step),
                      (call[u].to - call[u].from) % 2 = 1,
                      Symmetric(buf, call[u].from, call[u].to)
               PROVE  Symmetric(ShiftedBy(ShiftedBy(buf, FirstHalf(call[u].dir, call[u].from, h),
                                                    call[u].step),
                                          SecondHalf(call[u].dir, call[u].from, h), call[u].step),
                                call[u].from, call[u].to)
    BY Zenon DEF MirrorKeepsSymmetry
  <2>1. cells \in Nat /\ buf \in [0 .. cells - 1 -> Nat] /\ CallType(call[u])
    BY DEF DrawInv, SizeInv, SizeType, PictureType, CallTypes
  <2>2. PICK dir \in {"close", "far"}, from \in Nat, to \in Nat, step \in Nat :
          dir = call[u].dir /\ from = call[u].from /\ to = call[u].to /\ step = call[u].step
    BY <2>1 DEF CallType, Idle
  <2>3. from < to
    BY <2>1, <2>2 DEF CallType, Idle
  <2>4. h \in Nat /\ h > 0 /\ from + 2 * h - 1 = to
    BY <2>2, <2>3, Halves
  <2>5. cells # 0 /\ step < h /\ to + 1 <= cells
    <3>1. cells # 0 /\ step <= (from + h - 1) - from
      BY <2>2 DEF MayShift, FirstHalf
    <3>2. Covered(to + 1)
      BY <2>2 DEF SegmentsInside
    <3> QED
      BY <2>4, <3>1, <3>2 DEF Covered
  <2>6. from .. from + 2 * h - 1 \subseteq 0 .. cells - 1 /\ Symmetric(buf, from, from + 2 * h - 1)
    <3>1. from .. to \subseteq 0 .. cells - 1
      BY <2>1, <2>5
    <3> QED
      BY <2>2, <2>4, <3>1
  <2>7. Symmetric(ShiftedBy(ShiftedBy(buf, FirstHalf(dir, from, h), step),
                            SecondHalf(dir, from, h), step),
                  from, from + 2 * h - 1)
    BY <2>1, <2>4, <2>5, <2>6, MirroredIsSymmetric
  <2> QED
    BY <2>2, <2>4, <2>7
<1>2. Init => DrawInv /\ SegmentsInside
  BY DrawInit, SegmentsInit
<1>3. DrawInv /\ SegmentsInside /\ [Next]_vars => (DrawInv /\ SegmentsInside)'
  BY DrawStep, SegmentsStep
<1> QED
  BY <1>1, <1>2, <1>3, PTL DEF Spec

\* For every scale of the application and every width of a component that holds the
\* driver's maximum, the chip never receives a darker value for a brighter colour, and it
\* receives the maximum for full brightness.
THEOREM BrightnessArrives ==
  ASSUME Maximum < Pow2[Bits] PROVE Spec => []BrightnessKept
<1>1. DrawInv => BrightnessKept
  <2> SUFFICES ASSUME DrawInv, NEW u \in Users, call[u].op = "all",
                      NEW color, color = call[u].color
               PROVE  /\ \A c \in 0 .. color : Sent(c) <= Sent(color)
                      /\ color = Resolution => Sent(color) = Maximum
    BY Zenon DEF BrightnessKept
  <2>1. color \in 0 .. Resolution /\ Resolution \in Nat
    BY PixelAssumption, ColorAssumption DEF DrawInv, CallTypes, CallType, Idle
  <2>2. ASSUME NEW c \in 0 .. color PROVE Sent(c) <= Sent(color)
    <3>1. c \in 0 .. Resolution /\ c \in Nat /\ color \in Nat /\ c <= color
      BY <2>1
    <3>2. Sent(c) = Scaled(c) /\ Sent(color) = Scaled(color)
      BY <2>1, <3>1, SentIs
    <3> QED
      BY <3>1, <3>2, ScaledMonotone
  <2>3. color = Resolution => Sent(color) = Maximum
    BY <2>1, SentIs, FullIsFull
  <2> QED
    BY <2>2, <2>3
<1> QED
  BY <1>1, DrawInit, DrawStep, PTL DEF Spec
=============================================================================
