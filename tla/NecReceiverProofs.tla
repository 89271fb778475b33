------------------------- MODULE NecReceiverProofs --------------------------
(***************************************************************************)
(* Proofs about NecReceiver: for frames of any width, any number of frames *)
(* and repeats, any ring and any tolerances that tell the codes apart, the *)
(* callback reports every clean frame once, and the queue gets a frame if  *)
(* it was repeated.                                                        *)
(***************************************************************************)
EXTENDS NecReceiver, FiniteSetTheorems, SequenceTheorems, TLAPS

-----------------------------------------------------------------------------
(* Numbers.                                                                *)

\* A set of numbers that is not empty has a least one: the initial segments 0 .. n are
\* finite sets, which inclusion orders well.
LEMMA LeastNumber ==
  ASSUME NEW T, T \subseteq Nat, T # {}
  PROVE  \E m \in T : \A k \in T : m <= k
<1> DEFINE R == StrictSubsetOrdering(Nat)
           U == {0 .. n : n \in T}
<1>1. IsWellFoundedOn(R, FiniteSubsetsOf(Nat))
  BY FS_StrictSubsetOrderingWellFounded
<1>2. U \subseteq FiniteSubsetsOf(Nat)
  <2> SUFFICES ASSUME NEW n \in T PROVE 0 .. n \in FiniteSubsetsOf(Nat)
    OBVIOUS
  <2>1. IsFiniteSet(0 .. n)
    BY FS_Interval
  <2> QED
    BY <2>1 DEF FiniteSubsetsOf
<1>3. U # {}
  OBVIOUS
<1> HIDE DEF R, U
<1>4. \E x \in U : \A y \in U : ~(<<y, x>> \in R)
  BY <1>1, <1>2, <1>3, WFMin
<1>5. PICK m \in T : \A k \in T : ~(<<0 .. k, 0 .. m>> \in R)
  BY <1>4 DEF U
<1>6. ASSUME NEW k \in T, k < m PROVE FALSE
  <2>1. 0 .. k \subseteq 0 .. m /\ 0 .. k # 0 .. m /\ 0 .. m \subseteq Nat /\ 0 .. k \subseteq Nat
    BY <1>6
  <2> QED
    BY <1>5, <2>1 DEF R, StrictSubsetOrdering
<1> QED
  BY <1>6

\* Induction up to N, for a set in place of a predicate.
LEMMA UpTo ==
  ASSUME NEW N \in Nat, NEW T, 0 \in T, \A k \in 1 .. N : k - 1 \in T => k \in T
  PROVE  0 .. N \subseteq T
<1> DEFINE Missed == {k \in 0 .. N : k \notin T}
<1> SUFFICES ASSUME Missed # {} PROVE FALSE
  OBVIOUS
<1>0. Missed \subseteq Nat
  OBVIOUS
<1>1. PICK m \in Missed : \A k \in Missed : m <= k
  <2> HIDE DEF Missed
  <2> QED
    BY <1>0, LeastNumber
<1>2. m \in 1 .. N /\ m - 1 \in 0 .. N
  OBVIOUS
<1>3. m - 1 \in T
  BY <1>1, <1>2
<1> QED
  BY <1>2, <1>3

\* There is a function that starts with s and takes the step F[k] from k - 1 to k.
Iterable(N, S, s, F) ==
  \E g \in [0 .. N -> S] : g[0] = s /\ \A k \in 1 .. N : g[k] = F[k][g[k - 1]]

\* A recursive definition over 0 .. N has a solution.
LEMMA StepByStep ==
  ASSUME NEW N \in Nat, NEW S, NEW s \in S, NEW F \in [1 .. N -> [S -> S]]
  PROVE  Iterable(N, S, s, F)
<1> DEFINE Reached == {n \in 0 .. N : \E g \in [0 .. n -> S] :
                          g[0] = s /\ \A k \in 1 .. n : g[k] = F[k][g[k - 1]]}
<1>1. 0 \in Reached
  <2> DEFINE g == [k \in 0 .. 0 |-> s]
  <2>1. g \in [0 .. 0 -> S] /\ g[0] = s /\ \A k \in 1 .. 0 : g[k] = F[k][g[k - 1]]
    OBVIOUS
  <2> HIDE DEF g
  <2> QED
    BY <2>1
<1>2. ASSUME NEW n \in 1 .. N, n - 1 \in Reached PROVE n \in Reached
  <2> PICK g \in [0 .. n - 1 -> S] : g[0] = s /\ \A k \in 1 .. n - 1 : g[k] = F[k][g[k - 1]]
    BY <1>2
  <2> DEFINE h == [k \in 0 .. n |-> IF k = n THEN F[n][g[n - 1]] ELSE g[k]]
  <2>1. F[n][g[n - 1]] \in S
    <3>1. g[n - 1] \in S OBVIOUS
    <3>2. F[n] \in [S -> S] OBVIOUS
    <3> QED
      BY <3>1, <3>2
  <2>2. h \in [0 .. n -> S] /\ h[0] = s
    BY <2>1
  <2>3. ASSUME NEW k \in 1 .. n PROVE h[k] = F[k][h[k - 1]]
    <3>1. CASE k = n
      BY <3>1
    <3>2. CASE k # n
      BY <3>2
    <3> QED
      BY <3>1, <3>2
  <2> HIDE DEF h
  <2>4. n \in 0 .. N
    OBVIOUS
  <2>5. \E f \in [0 .. n -> S] : f[0] = s /\ \A k \in 1 .. n : f[k] = F[k][f[k - 1]]
    BY <2>2, <2>3
  <2> QED
    BY <2>4, <2>5
<1>3. 0 .. N \subseteq Reached
  BY <1>1, <1>2, UpTo
<1>4. N \in Reached
  BY <1>3
<1> QED
  BY <1>4 DEF Iterable

\* What Min chooses.
LEMMA MinIs ==
  ASSUME NEW T, T \subseteq Nat, T # {}
  PROVE  Min(T) \in T /\ Min(T) \in Nat /\ \A k \in T : Min(T) <= k
<1>1. \E m \in T : \A k \in T : m =< k
  BY LeastNumber
<1>2. Min(T) \in T /\ \A k \in T : Min(T) =< k
  BY <1>1, Zenon DEF Min
<1> QED
  BY <1>2

\* It is the only number of the set that is below all others.
LEMMA MinUnique ==
  ASSUME NEW T, T \subseteq Nat, NEW m \in T, \A k \in T : m <= k
  PROVE  Min(T) = m
<1>1. Min(T) \in T /\ Min(T) \in Nat /\ \A k \in T : Min(T) <= k
  BY MinIs
<1>2. m \in Nat /\ m <= Min(T) /\ Min(T) <= m
  BY <1>1
<1> QED
  BY <1>1, <1>2

\* The sizes of a frame.
LEMMA Sizes ==
  /\ ByteBits \in Nat /\ ByteBits > 0 /\ Bits \in Nat /\ Bits = 4 * ByteBits
  /\ DataLen = 2 * Bits /\ DataLen \in Nat
  /\ FrameMin = DataLen + 2 /\ FrameMin \in Nat /\ FrameMin >= 10
  /\ FrameLen = FrameMin + 2 /\ FrameLen \in Nat /\ HalfBits = 0 .. 2 * ByteBits - 1
BY NecAssumption DEF Bits, DataLen, FrameMin, FrameLen, HalfBits
-----------------------------------------------------------------------------
(* The bits of a frame.                                                    *)

\* Division with remainder by the width of a byte.
LEMMA Division ==
  ASSUME NEW w \in Nat, w > 0, NEW q \in 0 .. 3, NEW j \in 0 .. w - 1
  PROVE  (q * w + j) \div w = q /\ (q * w + j) % w = j
OBVIOUS

\* The parser puts bit k where the builder took it from, and every bit of the word
\* is sent.
LEMMA EveryBitSent ==
  ASSUME NEW b \in 0 .. Bits - 1
  PROVE  \E k \in 0 .. Bits - 1 : SentBit(k) = b /\ ReadBit(k) = b
<1>1. PICK q \in 0 .. 3, i \in 0 .. ByteBits - 1 : b = (3 - q) * ByteBits + i
  <2>1. CASE b < ByteBits
    <3>1. b = (3 - 3) * ByteBits + b /\ b \in 0 .. ByteBits - 1
      BY <2>1, Sizes
    <3> QED
      BY <3>1
  <2>2. CASE b >= ByteBits /\ b < 2 * ByteBits
    <3>1. b = (3 - 2) * ByteBits + (b - ByteBits) /\ b - ByteBits \in 0 .. ByteBits - 1
      BY <2>2, Sizes
    <3> QED
      BY <3>1
  <2>3. CASE b >= 2 * ByteBits /\ b < 3 * ByteBits
    <3>1. b = (3 - 1) * ByteBits + (b - 2 * ByteBits) /\ b - 2 * ByteBits \in 0 .. ByteBits - 1
      BY <2>3, Sizes
    <3> QED
      BY <3>1
  <2>4. CASE b >= 3 * ByteBits
    <3>1. b = (3 - 0) * ByteBits + (b - 3 * ByteBits) /\ b - 3 * ByteBits \in 0 .. ByteBits - 1
      BY <2>4, Sizes
    <3> QED
      BY <3>1
  <2> QED
    BY <2>1, <2>2, <2>3, <2>4, Sizes
<1> DEFINE j == IF Msb THEN ByteBits - 1 - i ELSE i
           k == q * ByteBits + j
<1>2. j \in 0 .. ByteBits - 1 /\ i = IF Msb THEN ByteBits - 1 - j ELSE j
  BY Sizes, NecAssumption
<1> HIDE DEF j
<1>3. k \div ByteBits = q /\ k % ByteBits = j
  BY <1>2, Sizes, Division
<1>4. k \in 0 .. Bits - 1
  <2>1. q = 0 \/ q = 1 \/ q = 2 \/ q = 3
    OBVIOUS
  <2> QED
    BY <1>2, <2>1, Sizes
<1> HIDE DEF k
<1>5. SentBit(k) = b /\ ReadBit(k) = b
  BY <1>1, <1>2, <1>3 DEF SentBit, ReadBit
<1> QED
  BY <1>4, <1>5

\* Reading the bits that were sent gives the address and the command.
LEMMA WordsArrive ==
  ASSUME NEW f \in Nec, NEW ones, NEW r,
         ones = {k \in 0 .. Bits - 1 : SentBit(k) \in Word32(f)}
  PROVE  NecOf(ones, r) = [addr |-> f.addr, cmd |-> f.cmd, repeat |-> r]
<1> DEFINE word == {ReadBit(k) : k \in ones}
<1>1. f.addr \subseteq HalfBits /\ f.cmd \subseteq HalfBits
  BY DEF Nec
<1>0. \A b \in HalfBits : b \in Nat /\ b < 2 * ByteBits
  BY Sizes
<1>w. \A b : b \in Word32(f) <=> b \in f.cmd \/ \E a \in f.addr : b = a + 2 * ByteBits
  BY Zenon DEF Word32
<1>2. ASSUME NEW b \in Word32(f) PROVE b \in 0 .. Bits - 1
  <2>1. CASE b \in f.cmd
    BY <1>0, <1>1, <2>1, Sizes
  <2>2. CASE b \notin f.cmd
    <3>1. PICK a \in f.addr : b = a + 2 * ByteBits
      BY <1>w, <2>2
    <3>2. a \in Nat /\ a < 2 * ByteBits
      BY <1>0, <1>1
    <3> QED
      BY <3>1, <3>2, Sizes
  <2> QED
    BY <2>1, <2>2
<1>3. word = Word32(f)
  <2>1. ASSUME NEW k \in ones PROVE ReadBit(k) \in Word32(f)
    BY <2>1 DEF ReadBit, SentBit
  <2>2. ASSUME NEW b \in Word32(f) PROVE b \in word
    <3>1. PICK k \in 0 .. Bits - 1 : SentBit(k) = b /\ ReadBit(k) = b
      BY <1>2, EveryBitSent
    <3> QED
      BY <3>1
  <2> QED
    BY <2>1, <2>2
<1> HIDE DEF word
<1>4. {b \in HalfBits : b + 2 * ByteBits \in Word32(f)} = f.addr
  <2>1. ASSUME NEW b \in HalfBits, b + 2 * ByteBits \in Word32(f) PROVE b \in f.addr
    <3>1. b + 2 * ByteBits \notin f.cmd
      <4>1. b \in Nat /\ \A x \in f.cmd : x \in Nat /\ x < 2 * ByteBits
        BY <1>0, <1>1
      <4>2. ~(b + 2 * ByteBits < 2 * ByteBits)
        BY <4>1, Sizes
      <4> QED
        BY <4>1, <4>2
    <3>2. PICK a \in f.addr : b + 2 * ByteBits = a + 2 * ByteBits
      BY <1>w, <2>1, <3>1
    <3>3. a \in Nat /\ b \in Nat
      BY <1>0, <1>1
    <3> QED
      BY <3>2, <3>3, Sizes
  <2>2. ASSUME NEW b \in f.addr PROVE b + 2 * ByteBits \in Word32(f)
    BY <1>w
  <2> QED
    BY <1>1, <2>1, <2>2
<1>5. Word32(f) \cap HalfBits = f.cmd
  <2>1. ASSUME NEW b \in HalfBits, b \in Word32(f) PROVE b \in f.cmd
    <3>1. ASSUME NEW a \in f.addr, b = a + 2 * ByteBits PROVE FALSE
      BY <1>0, <1>1, <3>1, Sizes
    <3> QED
      BY <1>w, <2>1, <3>1
  <2> QED
    BY <1>1, <1>w, <2>1
<1> QED
  BY <1>3, <1>4, <1>5 DEF NecOf, word
-----------------------------------------------------------------------------
(* The parser.                                                             *)

\* A mark and a space that are read as the bit that was sent.
Sent(high, low, one) ==
  IF one THEN IsLogic1(high, low) /\ ~IsLogic0(high, low) ELSE IsLogic0(high, low)

\* The codes W, n of them, are a leader, the bits of f, and r repeat codes that nothing
\* like a repeat code follows.
ReadsAs(W, n, f, r) ==
  /\ n >= FrameMin /\ r <= n /\ IsLeader(W[0], W[1])
  /\ \A k \in 0 .. Bits - 1 : Sent(W[2 + 2 * k], W[3 + 2 * k], SentBit(k) \in Word32(f))
  /\ \A q \in 0 .. r - 1 : /\ FrameMin + 4 * q + 3 < n
                           /\ IsRepeat(W[FrameMin + 4 * q + 2], W[FrameMin + 4 * q + 3])
  /\ FrameMin + 4 * r + 3 < n => ~IsRepeat(W[FrameMin + 4 * r + 2], W[FrameMin + 4 * r + 3])

\* The frame with as many repeats as have arrived.
Arrived(f, r) == [addr |-> f.addr, cmd |-> f.cmd, repeat |-> r]

\* What a buffer holds from off on, and beyond its end.
View(d, off, b) == [i \in Nat |-> Read(d, off + i, b)]

LEMMA ParserReads ==
  ASSUME NEW d, NEW off \in Nat, NEW n \in Nat, NEW b, NEW f \in Nec, NEW r \in Nat,
         ReadsAs(View(d, off, b), n, f, r)
  PROVE  ParserSingle(d, off, n, b) = [len |-> FrameMin + 4 * r, nec |-> Arrived(f, r)]
<1> DEFINE W == View(d, off, b)
           V(i) == Read(d, off + i, b)
           Data == {2 + 2 * k : k \in 0 .. Bits - 1}
           bad  == {i \in Data : ~IsLogic0(V(i), V(i + 1)) /\ ~IsLogic1(V(i), V(i + 1))}
           ones == {k \in 0 .. Bits - 1 : ~IsLogic0(V(2 + 2 * k), V(3 + 2 * k))}
           At(q) == FrameMin + 4 * q
           more == {q \in 0 .. n : At(q) + 3 < n /\ IsRepeat(V(At(q) + 2), V(At(q) + 3))}
           rest == {q \in 0 .. n + 1 : q \notin more}
<1>0. FrameMin \in Nat /\ Bits \in Nat
  BY Sizes
<1>1. \A i \in Nat : V(i) = W[i]
  BY DEF View
<1> HIDE DEF V
<1>2. IsLeader(V(0), V(1))
  BY <1>1 DEF ReadsAs
<1>3. ASSUME NEW k \in 0 .. Bits - 1
      PROVE  Sent(V(2 + 2 * k), V(3 + 2 * k), SentBit(k) \in Word32(f))
  <2>1. 2 + 2 * k \in Nat /\ 3 + 2 * k \in Nat
    BY <1>0
  <2> QED
    BY <1>1, <2>1 DEF ReadsAs
<1>4. bad = {}
  <2> SUFFICES ASSUME NEW k \in 0 .. Bits - 1
               PROVE  IsLogic0(V(2 + 2 * k), V(2 + 2 * k + 1)) \/ IsLogic1(V(2 + 2 * k), V(2 + 2 * k + 1))
    BY Zenon
  <2>1. 2 + 2 * k + 1 = 3 + 2 * k
    BY <1>0
  <2> QED
    BY <1>3, <2>1, Zenon DEF Sent
<1>5. ones = {k \in 0 .. Bits - 1 : SentBit(k) \in Word32(f)}
  BY <1>3, Zenon DEF Sent
<1>6. ASSUME NEW q \in 0 .. r - 1 PROVE q \in more
  <2>1. At(q) + 3 < n /\ IsRepeat(W[At(q) + 2], W[At(q) + 3])
    BY DEF ReadsAs
  <2>2. At(q) + 2 \in Nat /\ At(q) + 3 \in Nat /\ q \in 0 .. n
    BY <1>0 DEF ReadsAs
  <2> QED
    BY <1>1, <2>1, <2>2
<1>7. r \notin more
  <2>1. At(r) + 2 \in Nat /\ At(r) + 3 \in Nat
    BY <1>0
  <2> QED
    BY <1>1, <2>1 DEF ReadsAs
<1>8. r \in rest /\ rest \subseteq Nat /\ \A q \in rest : r <= q
  <2>1. r \in 0 .. n + 1
    BY DEF ReadsAs
  <2>2. ASSUME NEW q \in rest PROVE r <= q
    <3> HIDE DEF more
    <3>1. q \in 0 .. n + 1 /\ q \notin more
      OBVIOUS
    <3>2. CASE q < r
      BY <1>6, <3>1, <3>2
    <3> QED
      BY <3>1, <3>2
  <2> HIDE DEF more
  <2> QED
    BY <1>7, <2>1, <2>2
<1>9. Min(rest) = r
  <2> HIDE DEF rest
  <2> QED
    BY <1>8, MinUnique
<1>10. NecOf(ones, r) = Arrived(f, r)
  <2> HIDE DEF ones
  <2> QED
    BY <1>5, WordsArrive DEF Arrived
<1>11. ParserSingle(d, off, n, b)
         = IF n < FrameMin THEN [len |-> 0, nec |-> NoNec]
           ELSE IF ~IsLeader(V(0), V(1)) THEN [len |-> 2, nec |-> NoNec]
           ELSE IF bad # {} THEN [len |-> Min(bad), nec |-> NoNec]
           ELSE [len |-> At(Min(rest)), nec |-> NecOf(ones, Min(rest))]
  BY Zenon DEF ParserSingle, V
<1>12. ~(n < FrameMin)
  BY <1>0 DEF ReadsAs
<1> HIDE DEF bad, ones, rest
<1> QED
  BY <1>2, <1>4, <1>9, <1>10, <1>11, <1>12, Zenon
-----------------------------------------------------------------------------
(* A reception.                                                            *)

\* The codes C hold the frames m, each from its place in S on: the noise before the first
\* is shorter than a frame, a frame follows the end mark and the space of the one before,
\* and the last one has its end mark only.
Placed(m, C, S) ==
  /\ m \in Seq(Nec) /\ Len(m) > 0 /\ C \in Seq(Int) /\ S \in [1 .. Len(m) -> Nat]
  /\ S[1] + 2 <= FrameMin
  /\ \A f \in 1 .. Len(m) : S[f] + FrameMin + 4 * m[f].repeat + 1 <= Len(C)
  /\ \A f \in 1 .. Len(m) - 1 : S[f + 1] = S[f] + FrameMin + 4 * m[f].repeat + 2
  /\ Len(C) = S[Len(m)] + FrameMin + 4 * m[Len(m)].repeat + 1

\* Leaders, bits and repeats are recognised.
Readable(m, C, S) ==
  \A f \in 1 .. Len(m) :
    /\ IsLeader(C[S[f] + 1], C[S[f] + 2])
    /\ \A k \in 0 .. Bits - 1 :
         Sent(C[S[f] + 2 * k + 3], C[S[f] + 2 * k + 4], SentBit(k) \in Word32(m[f]))
    /\ \A q \in 0 .. m[f].repeat - 1 :
         IsRepeat(C[S[f] + FrameMin + 4 * q + 3], C[S[f] + FrameMin + 4 * q + 4])

\* Nothing before a leader is taken for one, and no leader for a repeat.
Apart(m, C, S) ==
  /\ \A p \in 1 .. S[1] : \A low : ~IsLeader(C[p], low)
  /\ \A f \in 2 .. Len(m) :
       /\ ~IsLeader(C[S[f] - 1], C[S[f]]) /\ ~IsLeader(C[S[f]], C[S[f] + 1])
       /\ ~IsRepeat(C[S[f] + 1], C[S[f] + 2])

Laid(m, C, S) == Placed(m, C, S) /\ Readable(m, C, S) /\ Apart(m, C, S)

\* The n codes from off on are those of C behind place p.
InCopy(d, off, n, C, p) ==
  \A i \in 0 .. n - 1 : off + i \in DOMAIN d /\ d[off + i] = C[p + i + 1]

LEMMA PlacedTypes ==
  ASSUME NEW m, NEW C, NEW S, Laid(m, C, S), NEW f \in 1 .. Len(m)
  PROVE  /\ m[f] \in Nec /\ m[f].repeat \in Nat /\ S[f] \in Nat
         /\ Len(m) \in Nat /\ Len(C) \in Nat
<1>1. m[f] \in Nec /\ S[f] \in Nat /\ Len(m) \in Nat /\ Len(C) \in Nat
  BY DEF Laid, Placed
<1>2. m[f].repeat \in Nat
  BY <1>1 DEF Nec
<1> QED
  BY <1>1, <1>2

\* A buffer has n codes of C from the beginning of frame f on, all of them that carry data.
Holds(m, C, S, f, d, off, n) ==
  /\ Laid(m, C, S) /\ f \in 1 .. Len(m) /\ off \in Nat /\ n \in Nat
  /\ n >= FrameMin /\ S[f] + n <= Len(C) /\ InCopy(d, off, n, C, S[f])

\* The parser finds the frame and the repeats that have arrived.
LEMMA ParsesFrame ==
  ASSUME NEW m, NEW C, NEW S, NEW f, NEW d, NEW off, NEW n, NEW b, Holds(m, C, S, f, d, off, n)
  PROVE  \E r \in 0 .. m[f].repeat :
           /\ FrameMin + 4 * r <= n
           /\ r < m[f].repeat => n < FrameMin + 4 * r + 4
           /\ ParserSingle(d, off, n, b) = [len |-> FrameMin + 4 * r, nec |-> Arrived(m[f], r)]
<1> /\ Laid(m, C, S) /\ f \in 1 .. Len(m) /\ off \in Nat /\ n \in Nat
    /\ n >= FrameMin /\ S[f] + n <= Len(C) /\ InCopy(d, off, n, C, S[f])
  BY DEF Holds
<1>1. PICK rep \in Nat : rep = m[f].repeat
  BY PlacedTypes
<1>a. m[f] \in Nec
  BY PlacedTypes
<1>s. PICK s \in Nat : s = S[f]
  BY PlacedTypes
<1>b. PICK W : W = View(d, off, b)
  OBVIOUS
<1>2. FrameMin \in Nat /\ Bits \in Nat /\ FrameMin = 2 * Bits + 2
  BY Sizes
<1>3. \A i \in 0 .. n - 1 : W[i] = C[s + i + 1]
  <2> SUFFICES ASSUME NEW i \in 0 .. n - 1 PROVE W[i] = C[s + i + 1]
    OBVIOUS
  <2>1. off + i \in DOMAIN d /\ d[off + i] = C[s + i + 1]
    BY <1>s DEF InCopy
  <2>2. W[i] = Read(d, off + i, b)
    BY <1>b DEF View
  <2> QED
    BY <2>1, <2>2 DEF Read
<1>4. PICK r \in 0 .. rep : /\ FrameMin + 4 * r <= n
                            /\ r < rep => n < FrameMin + 4 * r + 4
  <2>1. CASE FrameMin + 4 * rep <= n
    BY <1>2, <2>1
  <2>2. CASE FrameMin + 4 * rep > n
    <3> DEFINE r == (n - FrameMin) \div 4
    <3>1. r \in 0 .. rep /\ FrameMin + 4 * r <= n /\ n < FrameMin + 4 * r + 4
      BY <1>2, <2>2
    <3> QED
      BY <3>1
  <2> QED
    BY <1>2, <2>1, <2>2
<1>5. IsLeader(W[0], W[1])
  <2>1. 0 \in 0 .. n - 1 /\ 1 \in 0 .. n - 1 /\ s + 0 + 1 = s + 1 /\ s + 1 + 1 = s + 2
    BY <1>2, Sizes
  <2>2. IsLeader(C[s + 1], C[s + 2])
    BY <1>s DEF Laid, Readable
  <2> QED
    BY <1>3, <2>1, <2>2
<1>6. ASSUME NEW k \in 0 .. Bits - 1
      PROVE  Sent(W[2 + 2 * k], W[3 + 2 * k], SentBit(k) \in Word32(m[f]))
  <2>1. /\ 2 + 2 * k \in 0 .. n - 1 /\ 3 + 2 * k \in 0 .. n - 1
        /\ s + (2 + 2 * k) + 1 = s + 2 * k + 3 /\ s + (3 + 2 * k) + 1 = s + 2 * k + 4
    BY <1>2
  <2>2. Sent(C[s + 2 * k + 3], C[s + 2 * k + 4], SentBit(k) \in Word32(m[f]))
    BY <1>s DEF Laid, Readable
  <2> QED
    BY <1>3, <2>1, <2>2
<1>7. ASSUME NEW q \in 0 .. r - 1
      PROVE  /\ FrameMin + 4 * q + 3 < n
             /\ IsRepeat(W[FrameMin + 4 * q + 2], W[FrameMin + 4 * q + 3])
  <2>1. /\ FrameMin + 4 * q + 3 < n
        /\ FrameMin + 4 * q + 2 \in 0 .. n - 1 /\ FrameMin + 4 * q + 3 \in 0 .. n - 1
        /\ s + (FrameMin + 4 * q + 2) + 1 = s + FrameMin + 4 * q + 3
        /\ s + (FrameMin + 4 * q + 3) + 1 = s + FrameMin + 4 * q + 4
        /\ q \in 0 .. rep - 1
    BY <1>2, <1>4
  <2>2. IsRepeat(C[s + FrameMin + 4 * q + 3], C[s + FrameMin + 4 * q + 4])
    BY <1>1, <1>s, <2>1 DEF Laid, Readable
  <2> QED
    BY <1>3, <2>1, <2>2
<1>8. ASSUME FrameMin + 4 * r + 3 < n
      PROVE  ~IsRepeat(W[FrameMin + 4 * r + 2], W[FrameMin + 4 * r + 3])
  <2>1. r = rep
    BY <1>2, <1>4, <1>8
  <2>2. Len(m) \in Nat /\ Len(C) \in Nat
    BY PlacedTypes
  <2>3. f # Len(m)
    <3>1. f = Len(m) => Len(C) = s + FrameMin + 4 * rep + 1
      BY <1>1, <1>s DEF Laid, Placed
    <3> QED
      BY <1>2, <1>8, <1>s, <2>1, <2>2, <3>1
  <2>4. f + 1 \in 2 .. Len(m) /\ f \in 1 .. Len(m) - 1
    BY <2>2, <2>3
  <2>5. S[f + 1] = s + FrameMin + 4 * rep + 2
    BY <1>1, <1>s, <2>4 DEF Laid, Placed
  <2>6. ~IsRepeat(C[S[f + 1] + 1], C[S[f + 1] + 2])
    BY <2>4 DEF Laid, Apart
  <2>7. /\ FrameMin + 4 * r + 2 \in 0 .. n - 1 /\ FrameMin + 4 * r + 3 \in 0 .. n - 1
        /\ s + (FrameMin + 4 * r + 2) + 1 = S[f + 1] + 1
        /\ s + (FrameMin + 4 * r + 3) + 1 = S[f + 1] + 2
    BY <1>2, <1>8, <2>1, <2>5
  <2> QED
    BY <1>3, <2>6, <2>7
<1>9. r \in Nat /\ r <= n
  BY <1>2, <1>4
<1>10. ReadsAs(W, n, m[f], r)
  BY <1>5, <1>6, <1>7, <1>8, <1>9 DEF ReadsAs
<1>11. ParserSingle(d, off, n, b) = [len |-> FrameMin + 4 * r, nec |-> Arrived(m[f], r)]
  BY <1>a, <1>b, <1>9, <1>10, ParserReads
<1> QED
  BY <1>1, <1>4, <1>11

\* Where the ring begins while frame f is received: the codes before the end mark of the
\* frame before are discarded.
Begin(S, f) == IF f = 1 THEN 0 ELSE S[f] - 2

\* It is before the frame.
LEMMA BeginIs ==
  ASSUME NEW m, NEW C, NEW S, Laid(m, C, S), NEW f \in 1 .. Len(m)
  PROVE  /\ Begin(S, f) \in Nat /\ Begin(S, f) <= S[f]
         /\ S[f] + 2 <= Begin(S, f) + FrameMin
<1>1. S[f] \in Nat /\ Len(m) \in Nat
  BY PlacedTypes
<1>2. CASE f = 1
  <2>1. S[1] + 2 <= FrameMin
    BY DEF Laid, Placed
  <2> QED
    BY <1>1, <1>2, <2>1, Sizes DEF Begin
<1>3. CASE f # 1
  <2>1. PICK g \in 1 .. Len(m) - 1 : f = g + 1
    BY <1>1, <1>3
  <2>2. S[f] = S[g] + FrameMin + 4 * m[g].repeat + 2
    BY <2>1 DEF Laid, Placed
  <2>3. S[g] \in Nat /\ m[g].repeat \in Nat
    BY <1>1, PlacedTypes
  <2>4. S[f] >= 2
    <3>1. PICK x \in Nat, y \in Nat, F \in Nat : x = S[g] /\ y = m[g].repeat /\ F = FrameMin
      BY <2>3, Sizes
    <3>2. S[f] = x + F + 4 * y + 2
      BY <2>2, <3>1
    <3>3. x + F + 4 * y + 2 >= 2
      OBVIOUS
    <3> QED
      BY <3>2, <3>3
  <2> QED
    BY <1>1, <1>3, <2>4, Sizes DEF Begin
<1> QED
  BY <1>2, <1>3

\* The head that is found is the leader of the frame.
LEMMA HeadFound ==
  ASSUME NEW m, NEW C, NEW S, Laid(m, C, S), NEW f \in 1 .. Len(m),
         NEW d, NEW off \in Nat, NEW n \in Nat, NEW b,
         InCopy(d, off, n, C, Begin(S, f)), S[f] + 2 <= Begin(S, f) + n
  PROVE  Heads(d, off, n, b) # {} /\ Min(Heads(d, off, n, b)) = S[f] - Begin(S, f)
<1>1. PICK s \in Nat : s = S[f]
  BY PlacedTypes
<1>2. PICK q \in Nat : q = Begin(S, f)
  BY BeginIs
<1>3. PICK h \in Nat : h = s - q
  BY <1>1, <1>2, BeginIs
<1>4. h + 1 < n
  <2>1. s + 2 <= q + n
    BY <1>1, <1>2
  <2> QED
    BY <1>3, <2>1
<1>5. PICK V : V = View(d, off, b)
  OBVIOUS
<1>6. \A i \in 0 .. n - 1 : V[i] = C[q + i + 1]
  BY <1>2, <1>5 DEF InCopy, Read, View
<1>7. \A i : i \in Heads(d, off, n, b) <=> i \in 0 .. n - 1 /\ n >= 2 /\ IsLeader(V[i], V[i + 1])
  <2> SUFFICES ASSUME NEW i \in 0 .. n - 1
               PROVE  V[i] = Read(d, off + i, b) /\ V[i + 1] = Read(d, off + i + 1, b)
    BY DEF Heads
  <2>1. i + 1 \in Nat /\ off + (i + 1) = off + i + 1
    OBVIOUS
  <2> QED
    BY <1>5, <2>1 DEF View
<1>8. h \in Heads(d, off, n, b)
  <2>1. h \in 0 .. n - 1 /\ h + 1 \in 0 .. n - 1 /\ n >= 2 /\ q + h + 1 = s + 1 /\ q + (h + 1) + 1 = s + 2
    BY <1>3, <1>4
  <2>2. IsLeader(C[s + 1], C[s + 2])
    BY <1>1 DEF Laid, Readable
  <2> QED
    BY <1>6, <1>7, <2>1, <2>2
<1>9. ASSUME NEW i \in Heads(d, off, n, b), i < h PROVE FALSE
  <2>1. i \in 0 .. n - 1 /\ IsLeader(V[i], V[i + 1])
    BY <1>7, <1>9
  <2>2. i + 1 \in 0 .. n - 1 /\ q + (i + 1) + 1 = q + i + 2
    BY <1>4, <1>9, <2>1
  <2>3. IsLeader(C[q + i + 1], C[q + i + 2])
    BY <1>6, <2>1, <2>2
  <2>4. CASE f = 1
    <3>1. q = 0
      BY <1>2, <2>4 DEF Begin
    <3>2. q + i + 1 \in 1 .. s
      BY <1>3, <1>9, <2>1, <3>1
    <3> QED
      BY <1>1, <2>3, <2>4, <3>2 DEF Laid, Apart
  <2>5. CASE f # 1
    <3>1. f \in 2 .. Len(m)
      BY <2>5, PlacedTypes
    <3>2. ~IsLeader(C[s - 1], C[s]) /\ ~IsLeader(C[s], C[s + 1])
      BY <1>1, <3>1 DEF Laid, Apart
    <3>3. q = s - 2
      BY <1>1, <1>2, <2>5 DEF Begin
    <3>4. (q + i + 1 = s - 1 /\ q + i + 2 = s) \/ (q + i + 1 = s /\ q + i + 2 = s + 1)
      BY <1>3, <1>9, <2>1, <3>3
    <3> QED
      BY <2>3, <3>2, <3>4
  <2> QED
    BY <2>4, <2>5
<1>10. Heads(d, off, n, b) \subseteq Nat
  BY <1>7
<1>11. \A i \in Heads(d, off, n, b) : h <= i
  BY <1>9, <1>10
<1>12. Min(Heads(d, off, n, b)) = h
  BY <1>8, <1>10, <1>11, MinUnique
<1> QED
  BY <1>1, <1>2, <1>3, <1>8, <1>12
-----------------------------------------------------------------------------
(* The reports.                                                            *)

Report == [finish : BOOLEAN, nec : Nec]

Finished(o, n) == {j \in 1 .. n : o[j].finish}

About(o, i) == Cardinality(Finished(o, i - 1)) + 1

\* The reports o, given while frame f of m is received, are right: the frames before f
\* were finished, and every report tells of its frame, with more repeats than the one
\* before.
RightAt(o, m, i) ==
  /\ About(o, i) \in 1 .. Len(m)
  /\ o[i].nec.repeat <= m[About(o, i)].repeat
  /\ o[i].nec = Arrived(m[About(o, i)], o[i].nec.repeat)
  /\ o[i].finish => o[i].nec = m[About(o, i)]
  /\ i > 1 /\ ~o[i - 1].finish /\ ~o[i].finish => o[i - 1].nec.repeat < o[i].nec.repeat

Right(o, m, f) ==
  Cardinality(Finished(o, Len(o))) = f - 1 /\ \A i \in 1 .. Len(o) : RightAt(o, m, i)

\* The last report was not the last of its frame.
Pending(o) == o # <<>> /\ ~o[Len(o)].finish

LEMMA FinishedFinite ==
  ASSUME NEW o, NEW n \in Int
  PROVE  IsFiniteSet(Finished(o, n)) /\ Cardinality(Finished(o, n)) \in Nat
<1>1. IsFiniteSet(1 .. n)
  BY FS_Interval
<1>2. Finished(o, n) \subseteq 1 .. n
  BY DEF Finished
<1> QED
  BY <1>1, <1>2, FS_Subset, FS_CardinalityType

\* A pending report is about the frame that is received.
LEMMA PendingIsCurrent ==
  ASSUME NEW o \in Seq(Report), NEW m, NEW f \in Int, Right(o, m, f), Pending(o)
  PROVE  Len(o) \in 1 .. Len(o) /\ o[Len(o)] \in Report /\ About(o, Len(o)) = f
         /\ o[Len(o)].nec.repeat \in Nat /\ o[Len(o)].nec.repeat <= m[f].repeat
<1>1. Len(o) \in 1 .. Len(o)
  BY DEF Pending
<1>2. o[Len(o)] \in Report
  BY <1>1
<1>3. PICK n \in Nat : n = Len(o) /\ n > 0
  BY <1>1
<1>4. Finished(o, n - 1) = Finished(o, n)
  BY <1>3 DEF Finished, Pending
<1>5. About(o, Len(o)) = f
  <2>1. Cardinality(Finished(o, n)) = f - 1 /\ Cardinality(Finished(o, n)) \in Nat
    BY <1>3, FinishedFinite DEF Right
  <2>2. About(o, n) = Cardinality(Finished(o, n)) + 1
    BY <1>4 DEF About
  <2>3. RightAt(o, m, n)
    BY <1>1, <1>3 DEF Right
  <2> QED
    BY <1>3, <2>1, <2>2
<1>6. o[Len(o)].nec.repeat <= m[f].repeat
  BY <1>1, <1>5 DEF Right, RightAt
<1>7. o[Len(o)].nec.repeat \in Nat
  BY <1>2 DEF Report, Nec
<1> QED
  BY <1>1, <1>2, <1>5, <1>6, <1>7

\* To the reports o one more is added, of frame f with r repeats.
Adds(o, m, f, fin, r, p) ==
  /\ m \in Seq(Nec) /\ o \in Seq(Report) /\ f \in 1 .. Len(m) /\ Right(o, m, f)
  /\ fin \in BOOLEAN /\ r \in 0 .. m[f].repeat /\ (fin => r = m[f].repeat)
  /\ Pending(o) /\ ~fin => o[Len(o)].nec.repeat < r
  /\ p = Append(o, [finish |-> fin, nec |-> Arrived(m[f], r)])

\* One more report of the frame that is received.
LEMMA OneMoreReport ==
  ASSUME NEW m, NEW o, NEW f, NEW fin, NEW r, NEW p, Adds(o, m, f, fin, r, p)
  PROVE  /\ p \in Seq(Report) /\ Right(p, m, IF fin THEN f + 1 ELSE f)
         /\ p[Len(p)].nec.repeat = r /\ (Pending(p) <=> ~fin)
<1> DEFINE x == [finish |-> fin, nec |-> Arrived(m[f], r)]
<1> /\ m \in Seq(Nec) /\ o \in Seq(Report) /\ f \in 1 .. Len(m) /\ Right(o, m, f)
    /\ fin \in BOOLEAN /\ r \in 0 .. m[f].repeat /\ (fin => r = m[f].repeat)
    /\ Pending(o) /\ ~fin => o[Len(o)].nec.repeat < r
    /\ p = Append(o, [finish |-> fin, nec |-> Arrived(m[f], r)])
  BY DEF Adds
<1>1. m[f] \in Nec /\ m[f].repeat \in Nat
  <2>1. m[f] \in Nec
    OBVIOUS
  <2> QED
    BY <2>1 DEF Nec
<1>2. x \in Report /\ x.finish = fin /\ x.nec = Arrived(m[f], r) /\ x.nec.repeat = r
  BY <1>1 DEF Report, Nec, Arrived
<1>3. fin => x.nec = m[f]
  <2>1. ASSUME NEW g \in Nec PROVE Arrived(g, g.repeat) = g
    BY DEF Arrived, Nec
  <2> QED
    BY <1>1, <1>2, <2>1
<1> HIDE DEF x
<1>4. PICK n \in Nat : n = Len(o)
  OBVIOUS
<1>5. /\ p \in Seq(Report) /\ Len(p) = n + 1 /\ p[n + 1] = x
      /\ \A i \in 1 .. n : p[i] = o[i]
  <2>1. p = Append(o, x)
    BY DEF x
  <2> QED
    BY <1>2, <1>4, <2>1
<1>6. ASSUME NEW k \in 0 .. n PROVE Finished(p, k) = Finished(o, k)
  BY <1>5 DEF Finished
<1>7. ASSUME NEW i \in 1 .. n PROVE RightAt(p, m, i)
  <2>1. About(p, i) = About(o, i)
    <3>1. i - 1 \in 0 .. n
      OBVIOUS
    <3> QED
      BY <1>6, <3>1 DEF About
  <2>2. p[i] = o[i] /\ (i > 1 => p[i - 1] = o[i - 1])
    BY <1>5
  <2>3. RightAt(o, m, i)
    BY <1>4 DEF Right
  <2> QED
    BY <2>1, <2>2, <2>3 DEF RightAt
<1>8. Cardinality(Finished(o, n)) = f - 1 /\ IsFiniteSet(Finished(o, n))
  BY <1>4, FinishedFinite DEF Right
<1>9. About(p, n + 1) = f
  <2>1. n \in 0 .. n /\ (n + 1) - 1 = n
    OBVIOUS
  <2>2. Finished(p, (n + 1) - 1) = Finished(o, n)
    BY <1>6, <2>1
  <2> QED
    BY <1>8, <2>2 DEF About
<1>10. RightAt(p, m, n + 1)
  <2>1. ASSUME n + 1 > 1, ~p[n + 1 - 1].finish, ~p[n + 1].finish
        PROVE  p[n + 1 - 1].nec.repeat < p[n + 1].nec.repeat
    <3>1. n \in 1 .. n /\ n + 1 - 1 = n
      BY <2>1
    <3>2. p[n] = o[n]
      BY <1>5, <3>1
    <3>3. Pending(o)
      BY <1>4, <2>1, <3>1, <3>2 DEF Pending
    <3> QED
      BY <1>2, <1>4, <1>5, <2>1, <3>1, <3>2, <3>3
  <2>2. r <= m[f].repeat
    BY <1>1
  <2> QED
    BY <1>2, <1>3, <1>5, <1>9, <2>1, <2>2 DEF RightAt
<1>11. Cardinality(Finished(p, n + 1)) = IF fin THEN f ELSE f - 1
  <2>1. CASE fin
    <3>1. Finished(p, n + 1) = Finished(o, n) \cup {n + 1}
      BY <1>2, <1>5, <2>1 DEF Finished
    <3>2. n + 1 \notin Finished(o, n)
      BY DEF Finished
    <3>3. Cardinality(Finished(p, n + 1)) = Cardinality(Finished(o, n)) + 1
      <4> PICK T : T = Finished(o, n)
        OBVIOUS
      <4> QED
        BY <1>8, <3>1, <3>2, FS_AddElement
    <3> QED
      BY <1>8, <2>1, <3>3
  <2>2. CASE ~fin
    <3>1. Finished(p, n + 1) = Finished(o, n)
      BY <1>2, <1>5, <2>2 DEF Finished
    <3> QED
      BY <1>8, <2>2, <3>1
  <2> QED
    BY <2>1, <2>2
<1>12. Right(p, m, IF fin THEN f + 1 ELSE f)
  <2>1. ASSUME NEW i \in 1 .. Len(p) PROVE RightAt(p, m, i)
    BY <1>5, <1>7, <1>10
  <2>2. Cardinality(Finished(p, Len(p))) = (IF fin THEN f + 1 ELSE f) - 1
    BY <1>5, <1>11
  <2> QED
    BY <2>1, <2>2 DEF Right
<1>13. p # <<>>
  BY <1>5
<1> QED
  BY <1>2, <1>5, <1>12, <1>13 DEF Pending

LEMMA LastReport ==
  ASSUME NEW m \in Seq(Nec), NEW o \in Seq(Report), NEW f \in 1 .. Len(m), Right(o, m, f),
         NEW r, r = m[f].repeat,
         NEW p, p = Append(o, [finish |-> TRUE, nec |-> Arrived(m[f], r)])
  PROVE  Right(p, m, f + 1) /\ ~Pending(p)
<1>1. PICK fin \in BOOLEAN : fin = TRUE
  OBVIOUS
<1>2. m[f] \in Nec
  OBVIOUS
<1>3. r \in 0 .. m[f].repeat
  BY <1>2 DEF Nec
<1>4. p = Append(o, [finish |-> fin, nec |-> Arrived(m[f], r)])
  BY <1>1
<1>5. Right(p, m, IF fin THEN f + 1 ELSE f) /\ (Pending(p) <=> ~fin)
  <2>1. Adds(o, m, f, fin, r, p)
    BY <1>1, <1>3, <1>4 DEF Adds
  <2> QED
    BY <2>1, OneMoreReport
<1> QED
  BY <1>1, <1>5

LEMMA ReportOnTheWay ==
  ASSUME NEW m \in Seq(Nec), NEW o \in Seq(Report), NEW f \in 1 .. Len(m), Right(o, m, f),
         NEW r \in 0 .. m[f].repeat, Pending(o) => o[Len(o)].nec.repeat < r
  PROVE  LET p == Append(o, [finish |-> FALSE, nec |-> Arrived(m[f], r)])
         IN  Right(p, m, f) /\ p[Len(p)].nec.repeat = r
<1>1. PICK fin \in BOOLEAN : fin = FALSE
  OBVIOUS
<1>4. PICK p : /\ p = Append(o, [finish |-> FALSE, nec |-> Arrived(m[f], r)])
               /\ p = Append(o, [finish |-> fin, nec |-> Arrived(m[f], r)])
  BY <1>1
<1>5. Right(p, m, IF fin THEN f + 1 ELSE f) /\ p[Len(p)].nec.repeat = r
  <2>1. Adds(o, m, f, fin, r, p)
    BY <1>1, <1>4 DEF Adds
  <2>2. Right(p, m, IF fin THEN f + 1 ELSE f)
    BY <2>1, OneMoreReport
  <2>3. p[Len(p)].nec.repeat = r
    BY <2>1, OneMoreReport
  <2> QED
    BY <2>2, <2>3
<1>6. Right(p, m, f) /\ p[Len(p)].nec.repeat = r
  BY <1>1, <1>5
<1> QED
  BY <1>4, <1>6, Zenon
-----------------------------------------------------------------------------
(* What is built.                                                          *)

\* The space that fills the cycle is a number.
LEMMA GapIsNumber ==
  ASSUME NEW codes \in Seq(Int)
  PROVE  Gap(codes) \in Int
<1> DEFINE N == Len(codes)
           left[k \in 0 .. N] == IF k = 0 THEN CODE_CYCLE ELSE left[k - 1] - codes[k]
           F == [k \in 1 .. N |-> [x \in Int |-> x - codes[k]]]
<1>0. N \in Nat /\ CODE_CYCLE \in Int /\ \A k \in 1 .. N : codes[k] \in Int
  BY DEF CODE_CYCLE
<1>1. F \in [1 .. N -> [Int -> Int]]
  BY <1>0
<1>2. PICK g \in [0 .. N -> Int] : g[0] = CODE_CYCLE /\ \A k \in 1 .. N : g[k] = F[k][g[k - 1]]
  <2>1. Iterable(N, Int, CODE_CYCLE, F)
    <3> HIDE DEF F, N
    <3> QED
      BY <1>0, <1>1, StepByStep
  <2> QED
    BY <2>1 DEF Iterable
<1>3. ASSUME NEW k \in 1 .. N PROVE g[k] = g[k - 1] - codes[k]
  <2>1. g[k - 1] \in Int
    BY <1>0
  <2>2. F[k] = [x \in Int |-> x - codes[k]]
    OBVIOUS
  <2> HIDE DEF F
  <2> QED
    BY <1>2, <2>1, <2>2
<1>4. g = [k \in 0 .. N |-> IF k = 0 THEN CODE_CYCLE ELSE g[k - 1] - codes[k]]
  <2> HIDE DEF F, N
  <2> QED
    BY <1>0, <1>2, <1>3
<1>5. left = [k \in 0 .. N |-> IF k = 0 THEN CODE_CYCLE ELSE left[k - 1] - codes[k]]
  <2>1. \E f : f = [k \in 0 .. N |-> IF k = 0 THEN CODE_CYCLE ELSE f[k - 1] - codes[k]]
    BY <1>4
  <2> QED
    BY <2>1, Zenon
<1>6. Gap(codes) = left[N]
  BY DEF Gap
<1> HIDE DEF left, N, F
<1> DEFINE Numbers == {k \in 0 .. N : left[k] \in Int}
<1>7. 0 \in Numbers
  BY <1>0, <1>5
<1>8. ASSUME NEW k \in 1 .. N, k - 1 \in Numbers PROVE k \in Numbers
  <2>1. left[k] = left[k - 1] - codes[k]
    BY <1>0, <1>5
  <2>2. left[k - 1] \in Int /\ codes[k] \in Int
    BY <1>0, <1>8
  <2> QED
    BY <1>0, <2>1, <2>2
<1>9. 0 .. N \subseteq Numbers
  <2> HIDE DEF Numbers
  <2> QED
    BY <1>0, <1>7, <1>8, UpTo
<1> QED
  BY <1>0, <1>6, <1>9

LEMMA ClosedIs ==
  ASSUME NEW codes \in Seq(Int)
  PROVE  /\ Closed(codes) \in Seq(Int) /\ Len(Closed(codes)) = Len(codes) + 2
         /\ \A i \in 1 .. Len(codes) : Closed(codes)[i] = codes[i]
         /\ Closed(codes)[Len(codes) + 1] = LOGIC_HIGH_US
<1> DEFINE marked == Append(codes, LOGIC_HIGH_US)
<1>1. /\ marked \in Seq(Int) /\ Len(marked) = Len(codes) + 1
      /\ \A i \in 1 .. Len(codes) : marked[i] = codes[i]
      /\ marked[Len(codes) + 1] = LOGIC_HIGH_US
  BY DEF LOGIC_HIGH_US
<1>2. Closed(codes) = Append(marked, Gap(marked))
  BY DEF Closed
<1> HIDE DEF marked
<1>3. Gap(marked) \in Int
  BY <1>1, GapIsNumber
<1> QED
  BY <1>1, <1>2, <1>3

\* The codes of a frame: leader, bits, end mark, and every repeat with its end mark.
BuiltAs(B, f) ==
  /\ B \in Seq(Int) /\ Len(B) = FrameLen + 4 * f.repeat
  /\ B[1] = LEADER[1] /\ B[2] = LEADER[2]
  /\ \A k \in 0 .. Bits - 1 :
       /\ B[2 * k + 3] = LOGIC_HIGH_US
       /\ B[2 * k + 4] = IF SentBit(k) \in Word32(f) THEN LOGIC1_LOW_US ELSE LOGIC0_LOW_US
  /\ \A q \in 0 .. f.repeat : B[FrameMin + 4 * q + 1] = LOGIC_HIGH_US
  /\ \A q \in 0 .. f.repeat - 1 :
       B[FrameMin + 4 * q + 3] = REPEAT[1] /\ B[FrameMin + 4 * q + 4] = REPEAT[2]

LEMMA BuildIs ==
  ASSUME NEW f \in Nec
  PROVE  BuiltAs(Build(f), f)
<1> DEFINE bits == DataCodes(f)
           frame == Closed(LEADER \o bits)
           repeat == Closed(REPEAT)
<1>1. f.repeat \in Nat
  BY DEF Nec
<1>2. PICK F \in Nat : F = FrameMin
  BY Sizes
<1>3. FrameLen = F + 2 /\ F = 2 * Bits + 2 /\ Bits \in Nat /\ DataLen = 2 * Bits
  BY <1>2, Sizes
<1>4. bits \in Seq(Int) /\ Len(bits) = 2 * Bits
  BY <1>3 DEF DataCodes, LOGIC_HIGH_US, LOGIC1_LOW_US, LOGIC0_LOW_US
<1>5. ASSUME NEW k \in 0 .. Bits - 1
      PROVE  /\ bits[2 * k + 1] = LOGIC_HIGH_US
             /\ bits[2 * k + 2] = IF SentBit(k) \in Word32(f) THEN LOGIC1_LOW_US ELSE LOGIC0_LOW_US
  <2>1. /\ 2 * k + 1 \in 1 .. DataLen /\ 2 * k + 2 \in 1 .. DataLen
        /\ (2 * k + 1) % 2 = 1 /\ (2 * k + 2) % 2 # 1 /\ (2 * k + 2) \div 2 - 1 = k
    BY <1>3
  <2> QED
    BY <2>1 DEF DataCodes
<1>6. LEADER \in Seq(Int) /\ Len(LEADER) = 2 /\ REPEAT \in Seq(Int) /\ Len(REPEAT) = 2
  BY DEF LEADER, REPEAT
<1> DEFINE open == LEADER \o bits
<1>7. /\ open \in Seq(Int) /\ Len(open) = F
      /\ open[1] = LEADER[1] /\ open[2] = LEADER[2]
      /\ \A i \in 1 .. 2 * Bits : open[i + 2] = bits[i]
  <2> HIDE DEF bits
  <2>1. /\ open \in Seq(Int) /\ Len(open) = Len(LEADER) + Len(bits)
        /\ \A i \in 1 .. Len(LEADER) + Len(bits) :
             open[i] = IF i <= Len(LEADER) THEN LEADER[i] ELSE bits[i - Len(LEADER)]
    BY <1>4, <1>6, ConcatProperties
  <2> HIDE DEF open
  <2>2. \A i \in 1 .. 2 + 2 * Bits : open[i] = IF i <= 2 THEN LEADER[i] ELSE bits[i - 2]
    BY <1>4, <1>6, <2>1
  <2>3. ASSUME NEW i \in 1 .. 2 * Bits PROVE open[i + 2] = bits[i]
    <3>1. i + 2 \in 1 .. 2 + 2 * Bits /\ ~(i + 2 <= 2) /\ (i + 2) - 2 = i
      BY <1>3
    <3> QED
      BY <2>2, <3>1
  <2> QED
    BY <1>3, <1>4, <1>6, <2>1, <2>2, <2>3
<1> HIDE DEF open, bits
<1>8. /\ frame \in Seq(Int) /\ Len(frame) = F + 2 /\ \A i \in 1 .. F : frame[i] = open[i]
      /\ frame[F + 1] = LOGIC_HIGH_US
  BY <1>7, ClosedIs DEF open
<1>9. /\ repeat \in Seq(Int) /\ Len(repeat) = 4 /\ repeat[1] = REPEAT[1] /\ repeat[2] = REPEAT[2]
      /\ repeat[3] = LOGIC_HIGH_US
  <2>1. /\ repeat \in Seq(Int) /\ Len(repeat) = Len(REPEAT) + 2
        /\ \A i \in 1 .. Len(REPEAT) : repeat[i] = REPEAT[i]
        /\ repeat[Len(REPEAT) + 1] = LOGIC_HIGH_US
    BY <1>6, ClosedIs
  <2> HIDE DEF repeat
  <2> QED
    BY <1>6, <2>1
<1>10. Build(f) = [i \in 1 .. F + 2 + 4 * f.repeat |->
                    IF i <= F + 2 THEN frame[i] ELSE repeat[((i - (F + 2) - 1) % 4) + 1]]
  BY <1>3 DEF Build, bits
<1> HIDE DEF frame, repeat
<1>r. PICK rep \in Nat : rep = f.repeat
  BY <1>1
<1>b. PICK B : B = Build(f)
  OBVIOUS
<1>11. /\ DOMAIN B = 1 .. F + 2 + 4 * rep
       /\ \A i \in 1 .. F + 2 + 4 * rep : i <= F + 2 => B[i] = frame[i]
       /\ \A i \in 1 .. F + 2 + 4 * rep : i > F + 2 => B[i] = repeat[((i - (F + 2) - 1) % 4) + 1]
  BY <1>10, <1>r, <1>b
<1>12. B \in Seq(Int) /\ Len(B) = F + 2 + 4 * rep
  <2>1. ASSUME NEW i \in 1 .. F + 2 + 4 * rep PROVE B[i] \in Int
    <3>1. CASE i <= F + 2
      BY <1>8, <1>11, <3>1
    <3>2. CASE i > F + 2
      <4>1. ((i - (F + 2) - 1) % 4) + 1 \in 1 .. 4
        OBVIOUS
      <4>2. repeat \in Seq(Int) /\ Len(repeat) = 4
        BY <1>9
      <4>3. \A j \in 1 .. 4 : repeat[j] \in Int
        BY <4>2, ElementOfSeq
      <4> QED
        BY <1>11, <3>2, <4>1, <4>3
    <3> QED
      BY <3>1, <3>2
  <2>2. B \in [1 .. F + 2 + 4 * rep -> Int]
    BY <1>10, <1>r, <1>b, <2>1
  <2> QED
    BY <2>2
<1>13. \A i \in 1 .. F : B[i] = open[i]
  BY <1>8, <1>11
<1>14. B[1] = LEADER[1] /\ B[2] = LEADER[2]
  BY <1>3, <1>7, <1>13
<1>15. ASSUME NEW k \in 0 .. Bits - 1
       PROVE  /\ B[2 * k + 3] = LOGIC_HIGH_US
              /\ B[2 * k + 4] = IF SentBit(k) \in Word32(f) THEN LOGIC1_LOW_US ELSE LOGIC0_LOW_US
  <2>1. /\ 2 * k + 1 \in 1 .. 2 * Bits /\ 2 * k + 2 \in 1 .. 2 * Bits
        /\ (2 * k + 1) + 2 = 2 * k + 3 /\ (2 * k + 2) + 2 = 2 * k + 4
        /\ 2 * k + 3 \in 1 .. F /\ 2 * k + 4 \in 1 .. F
    BY <1>3
  <2>2. B[2 * k + 3] = open[2 * k + 3] /\ B[2 * k + 4] = open[2 * k + 4]
    BY <1>13, <2>1
  <2>3. open[(2 * k + 1) + 2] = bits[2 * k + 1] /\ open[(2 * k + 2) + 2] = bits[2 * k + 2]
    BY <1>7, <2>1
  <2>4. B[2 * k + 3] = bits[2 * k + 1] /\ B[2 * k + 4] = bits[2 * k + 2]
    BY <2>1, <2>2, <2>3
  <2> QED
    BY <1>5, <2>4
<1>16. ASSUME NEW q \in 0 .. rep - 1
       PROVE  /\ B[F + 4 * q + 3] = REPEAT[1] /\ B[F + 4 * q + 4] = REPEAT[2]
              /\ B[F + 4 * q + 5] = LOGIC_HIGH_US
  <2>1. /\ F + 4 * q + 3 \in 1 .. F + 2 + 4 * rep /\ F + 4 * q + 3 > F + 2
        /\ ((F + 4 * q + 3 - (F + 2) - 1) % 4) + 1 = 1
    OBVIOUS
  <2>2. /\ F + 4 * q + 4 \in 1 .. F + 2 + 4 * rep /\ F + 4 * q + 4 > F + 2
        /\ ((F + 4 * q + 4 - (F + 2) - 1) % 4) + 1 = 2
    OBVIOUS
  <2>3. /\ F + 4 * q + 5 \in 1 .. F + 2 + 4 * rep /\ F + 4 * q + 5 > F + 2
        /\ ((F + 4 * q + 5 - (F + 2) - 1) % 4) + 1 = 3
    OBVIOUS
  <2> QED
    BY <1>9, <1>11, <2>1, <2>2, <2>3
<1>17. ASSUME NEW q \in 0 .. rep PROVE B[F + 4 * q + 1] = LOGIC_HIGH_US
  <2>1. CASE q = 0
    BY <1>8, <1>11, <2>1
  <2>2. CASE q # 0
    <3>1. q - 1 \in 0 .. rep - 1 /\ F + 4 * (q - 1) + 5 = F + 4 * q + 1
      BY <2>2
    <3> QED
      BY <1>16, <3>1
  <2> QED
    BY <2>1, <2>2
<1>18. Len(B) = FrameLen + 4 * f.repeat
  BY <1>3, <1>12, <1>r
<1>19. BuiltAs(B, f)
  BY <1>2, <1>r, <1>12, <1>14, <1>15, <1>16, <1>17, <1>18 DEF BuiltAs
<1> QED
  BY <1>19, <1>b

\* Lists of codes.
Codes == Seq(Int)

LEMMA Joined ==
  ASSUME NEW x \in Codes, NEW y \in Codes
  PROVE  /\ x \o y \in Codes /\ Len(x) \in Nat /\ Len(y) \in Nat
         /\ Len(x \o y) = Len(x) + Len(y)
         /\ \A i \in 1 .. Len(x) + Len(y) :
              (x \o y)[i] = IF i <= Len(x) THEN x[i] ELSE y[i - Len(x)]
BY ConcatProperties DEF Codes

\* Concatenation as a recursion.
LEMMA FlattenIs ==
  ASSUME NEW seqs \in Seq(Codes), NEW N \in Nat, N = Len(seqs), N > 0
  PROVE  \E g \in [0 .. N -> Codes] :
           g[0] = <<>> /\ (\A k \in 1 .. N : g[k] = g[k - 1] \o seqs[k]) /\ FlattenSeq(seqs) = g[N]
<1> DEFINE F == [k \in 1 .. N |-> [x \in Codes |-> x \o seqs[k]]]
           flatten[i \in 1 .. N] == IF i = 1 THEN seqs[i] ELSE flatten[i - 1] \o seqs[i]
<1>1. ASSUME NEW k \in 1 .. N PROVE seqs[k] \in Codes
  BY ElementOfSeq
<1>2. <<>> \in Codes
  BY DEF Codes
<1>3. F \in [1 .. N -> [Codes -> Codes]]
  <2> SUFFICES ASSUME NEW k \in 1 .. N, NEW x \in Codes PROVE x \o seqs[k] \in Codes
    OBVIOUS
  <2> QED
    BY <1>1, Joined
<1>4. PICK g \in [0 .. N -> Codes] : g[0] = <<>> /\ \A k \in 1 .. N : g[k] = F[k][g[k - 1]]
  <2> HIDE DEF F
  <2>1. Iterable(N, Codes, <<>>, F)
    BY <1>2, <1>3, StepByStep
  <2> QED
    BY <2>1 DEF Iterable
<1>5. ASSUME NEW k \in 1 .. N PROVE g[k] = g[k - 1] \o seqs[k]
  <2>1. g[k - 1] \in Codes
    OBVIOUS
  <2>2. F[k] = [x \in Codes |-> x \o seqs[k]]
    OBVIOUS
  <2> HIDE DEF F
  <2> QED
    BY <1>4, <2>1, <2>2
<1>6. g[1] = seqs[1]
  <2>1. 1 \in 1 .. N /\ 1 - 1 = 0
    OBVIOUS
  <2>2. g[1] = <<>> \o seqs[1]
    <3>1. g[1] = g[1 - 1] \o seqs[1]
      BY <1>5, <2>1
    <3>2. g[1 - 1] = <<>>
      BY <1>4, <2>1
    <3> QED
      BY <3>1, <3>2, Zenon
  <2>3. seqs[1] \in Codes
    BY <1>1, <2>1
  <2> QED
    BY <2>2, <2>3, ConcatEmptySeq DEF Codes
<1> HIDE DEF F
<1>7. flatten = [i \in 1 .. N |-> IF i = 1 THEN seqs[i] ELSE flatten[i - 1] \o seqs[i]]
  <2> DEFINE h == [i \in 1 .. N |-> g[i]]
  <2>1. ASSUME NEW i \in 1 .. N PROVE h[i] = IF i = 1 THEN seqs[i] ELSE h[i - 1] \o seqs[i]
    <3>1. CASE i = 1
      BY <1>6, <3>1
    <3>2. CASE i # 1
      <4>1. i - 1 \in 1 .. N
        BY <3>2
      <4>2. h[i] = g[i] /\ h[i - 1] = g[i - 1]
        BY <4>1
      <4> HIDE DEF h
      <4> QED
        BY <1>5, <3>2, <4>2
    <3> QED
      BY <3>1, <3>2
  <2>2. h = [i \in 1 .. N |-> IF i = 1 THEN seqs[i] ELSE h[i - 1] \o seqs[i]]
    BY <2>1
  <2>3. \E f : f = [i \in 1 .. N |-> IF i = 1 THEN seqs[i] ELSE f[i - 1] \o seqs[i]]
    BY <2>2
  <2> QED
    BY <2>3, Zenon
<1>8. FlattenSeq(seqs) = flatten[N]
  <2>1. Len(seqs) # 0
    OBVIOUS
  <2> QED
    BY <2>1, Zenon DEF FlattenSeq
<1> HIDE DEF flatten
<1> DEFINE Same == {k \in 0 .. N : k = 0 \/ flatten[k] = g[k]}
<1>9. 0 \in Same
  OBVIOUS
<1>10. ASSUME NEW k \in 1 .. N, k - 1 \in Same PROVE k \in Same
  <2>1. CASE k = 1
    <3>1. flatten[1] = seqs[1]
      BY <1>7
    <3> QED
      BY <1>6, <2>1, <3>1
  <2>2. CASE k # 1
    <3>1. flatten[k] = flatten[k - 1] \o seqs[k]
      BY <1>7, <2>2
    <3>2. flatten[k - 1] = g[k - 1]
      BY <1>10, <2>2
    <3>3. g[k] = g[k - 1] \o seqs[k]
      BY <1>5
    <3>4. flatten[k] = g[k]
      BY <3>1, <3>2, <3>3, Zenon
    <3> QED
      BY <3>4
  <2> QED
    BY <2>1, <2>2
<1>11. 0 .. N \subseteq Same
  <2> HIDE DEF Same
  <2> QED
    BY <1>9, <1>10, UpTo
<1>12. flatten[N] = g[N]
  BY <1>11
<1> QED
  BY <1>4, <1>5, <1>8, <1>12

\* The sequences seqs follow each other in codes, sequence k from place T[k] on.
Chained(codes, seqs, N, T) ==
  /\ codes \in Seq(Int) /\ T \in [1 .. N + 1 -> Nat] /\ T[1] = 0 /\ Len(codes) = T[N + 1]
  /\ \A k \in 1 .. N : T[k + 1] = T[k] + Len(seqs[k]) /\ T[k + 1] <= Len(codes)
  /\ \A k \in 1 .. N : \A i \in 1 .. Len(seqs[k]) : codes[T[k] + i] = seqs[k][i]

LEMMA FlattenChains ==
  ASSUME NEW seqs \in Seq(Codes), NEW N \in Nat, N = Len(seqs), N > 0
  PROVE  \E T : Chained(FlattenSeq(seqs), seqs, N, T)
<1>1. PICK g \in [0 .. N -> Codes] :
        g[0] = <<>> /\ (\A k \in 1 .. N : g[k] = g[k - 1] \o seqs[k]) /\ FlattenSeq(seqs) = g[N]
  BY FlattenIs
<1>2. ASSUME NEW k \in 1 .. N
      PROVE  /\ g[k - 1] \in Codes /\ seqs[k] \in Codes
             /\ Len(g[k - 1]) \in Nat /\ Len(seqs[k]) \in Nat
             /\ Len(g[k]) = Len(g[k - 1]) + Len(seqs[k])
             /\ \A i \in 1 .. Len(g[k - 1]) + Len(seqs[k]) :
                  g[k][i] = IF i <= Len(g[k - 1]) THEN g[k - 1][i] ELSE seqs[k][i - Len(g[k - 1])]
  <2>1. g[k - 1] \in Codes /\ seqs[k] \in Codes /\ g[k] = g[k - 1] \o seqs[k]
    BY <1>1, ElementOfSeq
  <2>2. PICK x \in Codes, y \in Codes : x = g[k - 1] /\ y = seqs[k]
    BY <2>1
  <2>3. g[k] = x \o y
    BY <2>1, <2>2, Zenon
  <2>4. /\ Len(x) \in Nat /\ Len(y) \in Nat /\ Len(g[k]) = Len(x) + Len(y)
        /\ \A i \in 1 .. Len(x) + Len(y) : g[k][i] = IF i <= Len(x) THEN x[i] ELSE y[i - Len(x)]
    <3>1. PICK z : z = x \o y
      OBVIOUS
    <3>2. /\ Len(x) \in Nat /\ Len(y) \in Nat /\ Len(z) = Len(x) + Len(y)
          /\ \A i \in 1 .. Len(x) + Len(y) : z[i] = IF i <= Len(x) THEN x[i] ELSE y[i - Len(x)]
      BY <3>1, Joined, Zenon
    <3> QED
      BY <2>3, <3>1, <3>2, Zenon
  <2> QED
    BY <2>2, <2>4, Zenon
<1>3. ASSUME NEW k \in 0 .. N PROVE Len(g[k]) \in Nat /\ g[k] \in Codes
  <2>1. g[k] \in Codes
    OBVIOUS
  <2> QED
    BY <2>1, Joined
<1> DEFINE Longer == {n \in 0 .. N : \A k \in 0 .. n :
                        Len(g[k]) <= Len(g[n]) /\ \A i \in 1 .. Len(g[k]) : g[n][i] = g[k][i]}
<1>4. 0 \in Longer
  BY <1>3
<1>5. ASSUME NEW n \in 1 .. N, n - 1 \in Longer PROVE n \in Longer
  <2> SUFFICES ASSUME NEW k \in 0 .. n
               PROVE  Len(g[k]) <= Len(g[n]) /\ \A i \in 1 .. Len(g[k]) : g[n][i] = g[k][i]
    OBVIOUS
  <2>1. CASE k = n
    BY <1>3, <2>1
  <2>2. CASE k # n
    <3>1. k \in 0 .. n - 1 /\ k \in 0 .. N
      BY <2>2
    <3>2. PICK a \in Nat, b \in Nat, c \in Nat : a = Len(g[k]) /\ b = Len(g[n - 1]) /\ c = Len(seqs[n])
      BY <1>2, <1>3, <3>1
    <3>3. a <= b /\ \A i \in 1 .. a : g[n - 1][i] = g[k][i]
      BY <1>5, <3>1, <3>2
    <3>4. Len(g[n]) = b + c /\ \A i \in 1 .. b + c : i <= b => g[n][i] = g[n - 1][i]
      BY <1>2, <3>2
    <3>5. ASSUME NEW i \in 1 .. a PROVE g[n][i] = g[k][i]
      BY <3>3, <3>4
    <3>6. a <= b + c
      BY <3>3
    <3> QED
      BY <3>2, <3>4, <3>5, <3>6
  <2> QED
    BY <2>1, <2>2
<1>6. 0 .. N \subseteq Longer
  <2> HIDE DEF Longer
  <2> QED
    BY <1>4, <1>5, UpTo
<1>7. \A k \in 0 .. N : Len(g[k]) <= Len(g[N]) /\ \A i \in 1 .. Len(g[k]) : g[N][i] = g[k][i]
  <2>1. N \in Longer
    <3> HIDE DEF Longer
    <3> QED
      BY <1>6
  <2> QED
    BY <2>1, Zenon
<1> HIDE DEF Longer
<1>8. PICK T : T = [k \in 1 .. N + 1 |-> Len(g[k - 1])]
  OBVIOUS
<1>9. T \in [1 .. N + 1 -> Nat] /\ T[1] = 0 /\ T[N + 1] = Len(g[N])
  <2>1. ASSUME NEW k \in 1 .. N + 1 PROVE Len(g[k - 1]) \in Nat
    BY <1>3
  <2>2. T[1] = Len(g[0]) /\ T[N + 1] = Len(g[N])
    <3>1. 1 \in 1 .. N + 1 /\ N + 1 \in 1 .. N + 1 /\ 1 - 1 = 0 /\ (N + 1) - 1 = N
      OBVIOUS
    <3> QED
      BY <1>8, <3>1
  <2> QED
    BY <1>1, <1>8, <2>1, <2>2
<1>10. ASSUME NEW k \in 1 .. N
       PROVE  /\ T[k + 1] = T[k] + Len(seqs[k]) /\ T[k + 1] <= Len(g[N])
              /\ \A i \in 1 .. Len(seqs[k]) : g[N][T[k] + i] = seqs[k][i]
  <2>1. k \in 1 .. N + 1 /\ k + 1 \in 1 .. N + 1 /\ (k + 1) - 1 = k /\ k \in 0 .. N
    OBVIOUS
  <2>2. T[k] = Len(g[k - 1]) /\ T[k + 1] = Len(g[k])
    BY <1>8, <2>1
  <2>3. PICK a \in Nat, c \in Nat : a = Len(g[k - 1]) /\ c = Len(seqs[k])
    BY <1>2
  <2>4. Len(g[k]) = a + c /\ \A i \in 1 .. a + c : i > a => g[k][i] = seqs[k][i - a]
    <3>1. /\ Len(g[k]) = a + c
          /\ \A i \in 1 .. a + c : g[k][i] = IF i <= a THEN g[k - 1][i] ELSE seqs[k][i - a]
      BY <1>2, <2>3, Zenon
    <3>2. ASSUME NEW i \in 1 .. a + c, i > a PROVE ~(i <= a)
      BY <3>2
    <3> QED
      BY <3>1, <3>2, Zenon
  <2>5. a + c <= Len(g[N]) /\ \A i \in 1 .. a + c : g[N][i] = g[k][i]
    BY <1>7, <2>1, <2>4
  <2>6. ASSUME NEW i \in 1 .. c PROVE g[N][a + i] = seqs[k][i]
    <3>1. a + i \in 1 .. a + c /\ a + i > a /\ (a + i) - a = i
      OBVIOUS
    <3> QED
      BY <2>4, <2>5, <3>1
  <2> QED
    BY <2>2, <2>3, <2>4, <2>5, <2>6
<1>11. g[N] \in Seq(Int)
  BY <1>3 DEF Codes
<1>12. Chained(g[N], seqs, N, T)
  BY <1>9, <1>10, <1>11, Zenon DEF Chained
<1> QED
  BY <1>1, <1>12, Zenon

\* The codes of a message.
Message(m) == FlattenSeq([i \in DOMAIN m |-> Build(m[i])])

\* The frames of a message follow each other, each from an even place on.
Framed(m, codes, seqs, T) ==
  /\ Chained(codes, seqs, Len(m), T)
  /\ \A f \in 1 .. Len(m) : BuiltAs(seqs[f], m[f]) /\ \E h \in Nat : T[f] = 2 * h

LEMMA MessageChains ==
  ASSUME NEW m \in Seq(Nec), NEW N \in Nat, N = Len(m), N > 0
  PROVE  \E seqs, T : Framed(m, Message(m), seqs, T)
<1>1. PICK seqs : seqs = [i \in DOMAIN m |-> Build(m[i])]
  OBVIOUS
<1>2. DOMAIN m = 1 .. N /\ \A f \in 1 .. N : m[f] \in Nec
  OBVIOUS
<1>3. ASSUME NEW f \in 1 .. N PROVE BuiltAs(seqs[f], m[f]) /\ seqs[f] \in Codes
  <2>1. seqs[f] = Build(m[f])
    BY <1>1, <1>2
  <2>2. BuiltAs(Build(m[f]), m[f])
    BY <1>2, BuildIs
  <2>3. seqs[f] \in Seq(Int)
    BY <2>1, <2>2 DEF BuiltAs
  <2> QED
    BY <2>1, <2>2, <2>3 DEF Codes
<1>4. seqs \in Seq(Codes) /\ Len(seqs) = N
  <2>1. seqs \in [1 .. N -> Codes]
    <3>1. DOMAIN seqs = 1 .. N /\ seqs = [i \in 1 .. N |-> seqs[i]]
      BY <1>1, <1>2
    <3> QED
      BY <1>3, <3>1
  <2> QED
    BY <2>1
<1>5. PICK T : Chained(FlattenSeq(seqs), seqs, N, T)
  BY <1>4, FlattenChains
<1> DEFINE Even == {k \in 0 .. N : \E h \in Nat : T[k + 1] = 2 * h}
<1>6. 0 \in Even
  <2>1. T[1] = 0
    BY <1>5 DEF Chained
  <2>2. T[0 + 1] = 2 * 0 /\ 0 \in Nat /\ 0 \in 0 .. N
    BY <2>1
  <2> QED
    BY <2>2
<1>7. ASSUME NEW k \in 1 .. N, k - 1 \in Even PROVE k \in Even
  <2>1. PICK h \in Nat : T[k] = 2 * h
    BY <1>7
  <2>2. T[k + 1] = T[k] + Len(seqs[k])
    BY <1>5 DEF Chained
  <2>3. PICK r \in Nat : Len(seqs[k]) = FrameLen + 4 * r
    <3>1. m[k] \in Nec /\ BuiltAs(seqs[k], m[k])
      BY <1>2, <1>3
    <3> QED
      BY <3>1 DEF BuiltAs, Nec
  <2>4. h + Bits + 2 + 2 * r \in Nat /\ T[k + 1] = 2 * (h + Bits + 2 + 2 * r)
    BY <2>1, <2>2, <2>3, Sizes
  <2> QED
    BY <2>4
<1>8. 0 .. N \subseteq Even
  <2> HIDE DEF Even
  <2> QED
    BY <1>6, <1>7, UpTo
<1>9. ASSUME NEW f \in 1 .. N PROVE \E h \in Nat : T[f] = 2 * h
  <2>1. f - 1 \in Even
    <3> HIDE DEF Even
    <3> QED
      BY <1>8
  <2> QED
    BY <2>1
<1>10. Chained(Message(m), seqs, N, T)
  BY <1>1, <1>5, Zenon DEF Message
<1>11. \A f \in 1 .. N : BuiltAs(seqs[f], m[f]) /\ \E h \in Nat : T[f] = 2 * h
  BY <1>3, <1>9, Zenon
<1>12. Framed(m, Message(m), seqs, T)
  BY <1>10, <1>11, Zenon DEF Framed
<1> QED
  BY <1>12
-----------------------------------------------------------------------------
(* What is received.                                                       *)

LEMMA NotAMark ==
  ASSUME NEW x \in Int, Distance(x, LEADER[1]) > ErrVal(LEADER[1], Tolerance["lead"])
  PROVE  \A low : ~IsLeader(x, low)
<1>1. Tolerance["lead"] \in 0 .. 99
  BY NecAssumption
<1>2. LEADER[1] \in Int
  BY DEF LEADER
<1>3. Distance(x, LEADER[1]) \in Int /\ ErrVal(LEADER[1], Tolerance["lead"]) \in Int
  BY <1>1, <1>2 DEF Distance, ErrVal
<1> QED
  BY <1>3 DEF IsLeader

LEMMA NotASpace ==
  ASSUME NEW x \in Int, Distance(x, LEADER[2]) > ErrVal(LEADER[2], Tolerance["lead"])
  PROVE  \A high : ~IsLeader(high, x)
<1>1. Tolerance["lead"] \in 0 .. 99
  BY NecAssumption
<1>2. LEADER[2] \in Int
  BY DEF LEADER
<1>3. Distance(x, LEADER[2]) \in Int /\ ErrVal(LEADER[2], Tolerance["lead"]) \in Int
  BY <1>1, <1>2 DEF Distance, ErrVal
<1> QED
  BY <1>3 DEF IsLeader

\* The codes C follow the first edge.
Follows(a, C) == Len(a) = Len(C) + 1 /\ \A i \in 1 .. Len(C) : a[i + 1] = C[i]

\* The noise and then the codes but the last, each off by the drift.
Transmitted(C, codes, d, noise) ==
  /\ C \in Seq(Int) /\ Len(C) = Len(noise) + Len(codes) - 1
  /\ \A p \in 1 .. Len(noise) : C[p] = noise[p]
  /\ \A j \in 1 .. Len(codes) - 1 :
       C[Len(noise) + j] = codes[j] + IF j % 2 = 1 THEN d.mark ELSE d.space

LEMMA SpoiltIs ==
  ASSUME NEW L \in Nat, NEW E \in [1 .. L -> Int], NEW s \in Nat
  PROVE  Spoilt(E, s) \in [1 .. L -> Int] /\ (s = 0 => Spoilt(E, s) = E)
<1>1. CRACKLE \in Int
  BY DEF CRACKLE
<1>2. [E EXCEPT ![s] = CRACKLE] \in [1 .. L -> Int]
  BY <1>1
<1> QED
  BY <1>2 DEF Spoilt

LEMMA OnAirIs ==
  ASSUME NEW m, NEW d \in [mark : Int, space : Int], NEW noise \in Seq(Nat), NEW s \in Nat,
         NEW codes \in Seq(Int), codes = Message(m), Len(codes) > 0
  PROVE  /\ OnAir(m, d, noise, s) \in Seq(Int)
         /\ s = 0 => \E C : Transmitted(C, codes, d, noise) /\ Follows(OnAir(m, d, noise, s), C)
<1>1. PICK L \in Nat, n \in Nat : L = Len(codes) /\ n = Len(noise)
  OBVIOUS
<1>2. PICK D : D = Spoilt(Drifted(codes, d), s)
  OBVIOUS
<1>3. d.mark \in Int /\ d.space \in Int
  OBVIOUS
<1>4. PICK E : E = Drifted(codes, d)
  OBVIOUS
<1>5. /\ E \in [1 .. L -> Int]
      /\ \A j \in 1 .. L : E[j] = codes[j] + IF j % 2 = 1 THEN d.mark ELSE d.space
  <2>1. DOMAIN codes = 1 .. L /\ \A j \in 1 .. L : codes[j] \in Int
    BY <1>1
  <2>2. E = [j \in 1 .. L |-> codes[j] + IF j % 2 = 1 THEN d.mark ELSE d.space]
    BY <1>4, <2>1 DEF Drifted
  <2>3. ASSUME NEW j \in 1 .. L
        PROVE  codes[j] + (IF j % 2 = 1 THEN d.mark ELSE d.space) \in Int
    <3>1. PICK x \in Int, y \in Int : x = codes[j] /\ y = IF j % 2 = 1 THEN d.mark ELSE d.space
      BY <1>3, <2>1
    <3> QED
      BY <3>1
  <2> QED
    BY <2>2, <2>3
<1>6. D \in [1 .. L -> Int] /\ (s = 0 => D = E)
  <2>1. E \in [1 .. L -> Int]
    BY <1>5
  <2>2. D = Spoilt(E, s)
    BY <1>2, <1>4
  <2> QED
    BY <2>1, <2>2, SpoiltIs
<1>7. D \in Seq(Int) /\ Len(D) = L
  BY <1>6
<1>8. PICK F : F = Front(D)
  OBVIOUS
<1>9. F \in Seq(Int) /\ Len(F) = L - 1 /\ \A j \in 1 .. L - 1 : F[j] = D[j]
  <2>1. F = SubSeq(D, 1, L - 1)
    BY <1>7, <1>8 DEF Front
  <2>2. L - 1 \in Nat /\ 1 <= L - 1 + 1 /\ L - 1 <= L
    BY <1>1
  <2>3. F = [j \in 1 .. L - 1 |-> D[j]]
    BY <1>7, <2>1, <2>2
  <2>4. \A j \in 1 .. L - 1 : D[j] \in Int
    BY <1>6, <2>2
  <2>5. F \in [1 .. L - 1 -> Int]
    BY <2>3, <2>4
  <2> QED
    BY <2>2, <2>3, <2>5
<1>10. noise \in Seq(Int) /\ <<0>> \in Seq(Int) /\ Len(<<0>>) = 1
  OBVIOUS
<1>11. PICK G : G = <<0>> \o noise
  OBVIOUS
<1>12. G \in Seq(Int) /\ Len(G) = n + 1 /\ \A i \in 1 .. n : G[i + 1] = noise[i]
  BY <1>1, <1>10, <1>11
<1>13. PICK A : A = OnAir(m, d, noise, s)
  OBVIOUS
<1>14. A = G \o F
  <2>1. FlattenSeq([i \in DOMAIN m |-> Build(m[i])]) = codes
    BY DEF Message
  <2> QED
    BY <1>2, <1>8, <1>11, <1>13, <2>1, Zenon DEF OnAir
<1>15. /\ A \in Seq(Int) /\ Len(A) = n + L
       /\ \A i \in 1 .. n + L : A[i] = IF i <= n + 1 THEN G[i] ELSE F[i - (n + 1)]
  <2>1. /\ A \in Seq(Int) /\ Len(A) = Len(G) + Len(F)
        /\ \A i \in 1 .. Len(G) + Len(F) : A[i] = IF i <= Len(G) THEN G[i] ELSE F[i - Len(G)]
    <3>1. G \in Seq(Int) /\ F \in Seq(Int)
      BY <1>9, <1>12
    <3> QED
      BY <1>14, <3>1, ConcatProperties
  <2> QED
    BY <1>1, <1>9, <1>12, <2>1
<1>16. ASSUME s = 0 PROVE \E C : Transmitted(C, codes, d, noise) /\ Follows(A, C)
  <2>1. PICK C : C = noise \o F
    OBVIOUS
  <2>2. /\ C \in Seq(Int) /\ Len(C) = n + L - 1
        /\ \A i \in 1 .. n + L - 1 : C[i] = IF i <= n THEN noise[i] ELSE F[i - n]
    <3>1. /\ C \in Seq(Int) /\ Len(C) = Len(noise) + Len(F)
          /\ \A i \in 1 .. Len(noise) + Len(F) : C[i] = IF i <= Len(noise) THEN noise[i] ELSE F[i - Len(noise)]
      BY <1>9, <1>10, <2>1, ConcatProperties
    <3> QED
      BY <1>1, <1>9, <3>1
  <2>3. ASSUME NEW p \in 1 .. n PROVE C[p] = noise[p]
    <3>1. p \in 1 .. n + L - 1 /\ p <= n
      BY <1>1
    <3> QED
      BY <2>2, <3>1
  <2>4. ASSUME NEW j \in 1 .. L - 1
        PROVE  C[n + j] = codes[j] + IF j % 2 = 1 THEN d.mark ELSE d.space
    <3>1. n + j \in 1 .. n + L - 1 /\ ~(n + j <= n) /\ (n + j) - n = j /\ j \in 1 .. L
      OBVIOUS
    <3>2. C[n + j] = F[j]
      BY <2>2, <3>1
    <3>3. F[j] = E[j]
      BY <1>6, <1>9, <1>16
    <3> QED
      BY <1>5, <3>1, <3>2, <3>3
  <2>5. ASSUME NEW i \in 1 .. n + L - 1 PROVE A[i + 1] = C[i]
    <3>1. i + 1 \in 1 .. n + L
      OBVIOUS
    <3>2. CASE i <= n
      BY <1>12, <1>15, <2>2, <3>1, <3>2
    <3>3. CASE i > n
      <4>1. ~(i + 1 <= n + 1) /\ (i + 1) - (n + 1) = i - n /\ ~(i <= n)
        BY <3>3
      <4> QED
        BY <1>15, <2>2, <3>1, <4>1
    <3> QED
      BY <3>2, <3>3
  <2>6. Transmitted(C, codes, d, noise)
    BY <1>1, <2>2, <2>3, <2>4 DEF Transmitted
  <2>7. Follows(A, C)
    BY <1>1, <1>15, <2>2, <2>5 DEF Follows
  <2> QED
    BY <2>6, <2>7
<1> QED
  BY <1>13, <1>15, <1>16

\* The messages and what the receiver makes of them are lists of numbers.
LEMMA AirTypes ==
  ASSUME NEW m \in Messages, NEW d \in Drifts, NEW noise \in Noises, NEW s \in Spoils
  PROVE  /\ m \in Seq(Nec) /\ Len(m) \in Nat /\ Len(m) > 0
         /\ d \in [mark : Int, space : Int] /\ noise \in Seq(Nat)
         /\ OnAir(m, d, noise, s) \in Seq(Int)
<1>1. /\ m \in Seq(Nec) /\ m # <<>> /\ d \in [mark : Int, space : Int] /\ noise \in Seq(Nat)
      /\ s \in Nat
  BY ReceiverAssumption
<1>2. PICK N \in Nat : N = Len(m) /\ N > 0
  BY <1>1
<1>3. PICK seqs, T : Framed(m, Message(m), seqs, T)
  BY <1>1, <1>2, MessageChains
<1>4. PICK codes : codes = Message(m)
  OBVIOUS
<1>5. codes \in Seq(Int) /\ Len(codes) > 0
  <2>1. codes \in Seq(Int) /\ Chained(codes, seqs, N, T)
    BY <1>2, <1>3, <1>4 DEF Framed, Chained
  <2>2. T[1] = 0 /\ 1 \in 1 .. N /\ 1 + 1 = 2
    BY <1>2, <2>1 DEF Chained
  <2>3. T[2] = Len(seqs[1]) /\ T[2] <= Len(codes)
    <3>1. T[1 + 1] = T[1] + Len(seqs[1]) /\ T[1 + 1] <= Len(codes)
      BY <2>1, <2>2 DEF Chained
    <3>2. BuiltAs(seqs[1], m[1])
      BY <1>2, <1>3, <2>2 DEF Framed
    <3>3. Len(seqs[1]) \in Nat
      BY <3>2 DEF BuiltAs
    <3> QED
      BY <2>2, <3>1, <3>3
  <2>4. Len(seqs[1]) \in Nat /\ Len(seqs[1]) > 0
    <3>1. BuiltAs(seqs[1], m[1]) /\ m[1] \in Nec
      BY <1>1, <1>2, <1>3, <2>2 DEF Framed
    <3>2. m[1].repeat \in Nat /\ Len(seqs[1]) = FrameLen + 4 * m[1].repeat
      BY <3>1 DEF BuiltAs, Nec
    <3> QED
      BY <3>2, Sizes
  <2> QED
    BY <2>1, <2>3, <2>4
<1>6. OnAir(m, d, noise, s) \in Seq(Int)
  BY <1>1, <1>4, <1>5, OnAirIs
<1> QED
  BY <1>1, <1>2, <1>6

\* A message that is sent in the clear is received as frames that are laid out as the
\* parser needs them.
LEMMA LaidOnAir ==
  ASSUME CodesClear, NEW m \in Messages, NEW d \in Drifts, NEW noise \in Noises, 0 \in Spoils
  PROVE  \E C, S : Laid(m, C, S) /\ Follows(OnAir(m, d, noise, 0), C)
<1>1. m \in Seq(Nec) /\ d \in [mark : Int, space : Int] /\ noise \in Seq(Nat)
  BY AirTypes
<1>2. PICK N \in Nat : N = Len(m) /\ N > 0
  BY AirTypes
<1>3. PICK codes : codes = Message(m)
  OBVIOUS
<1>4. PICK seqs, T : Framed(m, codes, seqs, T)
  BY <1>1, <1>2, <1>3, MessageChains
<1>5. /\ codes \in Seq(Int) /\ T \in [1 .. N + 1 -> Nat] /\ T[1] = 0 /\ Len(codes) = T[N + 1]
      /\ \A f \in 1 .. N : T[f + 1] = T[f] + Len(seqs[f]) /\ T[f + 1] <= Len(codes)
      /\ \A f \in 1 .. N : \A i \in 1 .. Len(seqs[f]) : codes[T[f] + i] = seqs[f][i]
  BY <1>2, <1>4 DEF Framed, Chained
<1>6. ASSUME NEW f \in 1 .. N
      PROVE  /\ m[f] \in Nec /\ m[f].repeat \in Nat /\ T[f] \in Nat /\ BuiltAs(seqs[f], m[f])
             /\ Len(seqs[f]) = FrameMin + 4 * m[f].repeat + 2
             /\ T[f + 1] = T[f] + FrameMin + 4 * m[f].repeat + 2
             /\ T[f + 1] <= Len(codes) /\ \E h \in Nat : T[f] = 2 * h
  <2>1. m[f] \in Nec /\ BuiltAs(seqs[f], m[f]) /\ \E h \in Nat : T[f] = 2 * h
    BY <1>1, <1>2, <1>4 DEF Framed
  <2>2. m[f].repeat \in Nat
    BY <2>1 DEF Nec
  <2>3. Len(seqs[f]) = FrameLen + 4 * m[f].repeat
    BY <2>1 DEF BuiltAs
  <2>4. T[f] \in Nat /\ T[f + 1] = T[f] + Len(seqs[f]) /\ T[f + 1] <= Len(codes)
    BY <1>5
  <2>5. PICK r \in Nat, t \in Nat : r = m[f].repeat /\ t = T[f]
    BY <2>2, <2>4
  <2>6. FrameLen + 4 * r = FrameMin + 4 * r + 2
        /\ t + (FrameMin + 4 * r + 2) = t + FrameMin + 4 * r + 2
    BY Sizes
  <2>7. Len(seqs[f]) = FrameMin + 4 * r + 2 /\ T[f + 1] = t + FrameMin + 4 * r + 2
    BY <2>3, <2>4, <2>5, <2>6
  <2> QED
    BY <2>1, <2>2, <2>4, <2>5, <2>7
<1>7. PICK L \in Nat : L = Len(codes) /\ L > 0
  <2>1. 1 \in 1 .. N /\ Len(codes) \in Nat
    BY <1>2, <1>5
  <2>2. T[1 + 1] = T[1] + FrameMin + 4 * m[1].repeat + 2 /\ T[1 + 1] <= Len(codes)
        /\ T[1] \in Nat /\ m[1].repeat \in Nat
    BY <1>6, <2>1
  <2> QED
    BY <2>1, <2>2, Sizes
<1>8. PICK C : Transmitted(C, codes, d, noise) /\ Follows(OnAir(m, d, noise, 0), C)
  BY <1>1, <1>3, <1>5, <1>7, OnAirIs
<1>9. PICK n \in Nat : n = Len(noise)
  BY <1>1
<1>10. PICK mark \in Int, space \in Int : mark = d.mark /\ space = d.space
  BY <1>1
<1>11. /\ C \in Seq(Int) /\ Len(C) = n + L - 1 /\ \A p \in 1 .. n : C[p] = noise[p]
       /\ \A j \in 1 .. L - 1 : C[n + j] = codes[j] + IF j % 2 = 1 THEN mark ELSE space
  BY <1>7, <1>8, <1>9, <1>10 DEF Transmitted
<1>12. PICK S : S = [f \in 1 .. N |-> n + T[f]]
  OBVIOUS
<1>13. \A f \in 1 .. N : S[f] = n + T[f]
  BY <1>12
<1>14. S \in [1 .. N -> Nat]
  BY <1>6, <1>12
<1>15. ASSUME NEW f \in 1 .. N, NEW j \in 1 .. FrameMin + 4 * m[f].repeat + 1
       PROVE  C[S[f] + j] = seqs[f][j] + IF j % 2 = 1 THEN mark ELSE space
  <2>1. PICK t \in Nat, h \in Nat, rep \in Nat : t = T[f] /\ t = 2 * h /\ rep = m[f].repeat
    BY <1>6
  <2>2. PICK i \in Nat : i = t + j /\ j \in 1 .. FrameMin + 4 * rep + 1
    BY <2>1, Sizes
  <2>3. i \in 1 .. L - 1 /\ n + i = S[f] + j
    <3>1. t + FrameMin + 4 * rep + 2 <= L
      BY <1>6, <1>7, <2>1
    <3>2. S[f] = n + t
      BY <1>13, <2>1
    <3> QED
      BY <2>2, <3>1, <3>2, Sizes
  <2>4. (i % 2 = 1) <=> (j % 2 = 1)
    BY <2>1, <2>2
  <2>5. codes[i] = seqs[f][j]
    <3>1. j \in 1 .. Len(seqs[f])
      <4>1. Len(seqs[f]) = FrameMin + 4 * rep + 2
        BY <1>6, <2>1
      <4> QED
        BY <2>2, <4>1, Sizes
    <3> QED
      BY <1>5, <2>1, <2>2, <3>1
  <2> QED
    BY <1>11, <2>3, <2>4, <2>5
<1>17. Recognised(d) /\ Harmless(noise)
  BY DEF CodesClear
<1>18. /\ IsLeader(LEADER[1] + mark, LEADER[2] + space)
       /\ IsLogic0(LOGIC_HIGH_US + mark, LOGIC0_LOW_US + space)
       /\ IsLogic1(LOGIC_HIGH_US + mark, LOGIC1_LOW_US + space)
       /\ ~IsLogic0(LOGIC_HIGH_US + mark, LOGIC1_LOW_US + space)
       /\ IsRepeat(REPEAT[1] + mark, REPEAT[2] + space)
       /\ ~IsRepeat(LEADER[1] + mark, LEADER[2] + space)
       /\ Distance(LOGIC_HIGH_US + mark, LEADER[1]) > ErrVal(LEADER[1], Tolerance["lead"])
       /\ Distance(LEADER[1] + mark, LEADER[2]) > ErrVal(LEADER[2], Tolerance["lead"])
  BY <1>10, <1>17, Zenon DEF Recognised
<1>19. n + 2 <= FrameMin
       /\ \A i \in 1 .. n : Distance(noise[i], LEADER[1]) > ErrVal(LEADER[1], Tolerance["lead"])
  BY <1>1, <1>9, <1>17 DEF Harmless
<1>20. Placed(m, C, S)
  <2>1. S[1] + 2 <= FrameMin
    <3>1. 1 \in 1 .. N /\ n + 0 = n
      BY <1>2
    <3>2. S[1] = n
      BY <1>5, <1>13, <3>1
    <3> QED
      BY <1>19, <3>2
  <2>a. ASSUME NEW f \in 1 .. N
        PROVE  \E r \in Nat, t \in Nat : /\ r = m[f].repeat /\ t = T[f] /\ S[f] = n + t
                                         /\ T[f + 1] = t + FrameMin + 4 * r + 2
                                         /\ t + FrameMin + 4 * r + 2 <= L
    BY <1>6, <1>7, <1>13
  <2>2. ASSUME NEW f \in 1 .. N PROVE S[f] + FrameMin + 4 * m[f].repeat + 1 <= Len(C)
    <3>1. PICK r \in Nat, t \in Nat : /\ r = m[f].repeat /\ t = T[f] /\ S[f] = n + t
                                      /\ t + FrameMin + 4 * r + 2 <= L
      BY <2>a
    <3>2. n + t + FrameMin + 4 * r + 1 <= n + L - 1
      <4>1. t + FrameMin + 4 * r + 2 <= L
        BY <3>1
      <4> QED
        BY <4>1, Sizes
    <3> QED
      BY <1>11, <3>1, <3>2
  <2>3. ASSUME NEW f \in 1 .. N - 1 PROVE S[f + 1] = S[f] + FrameMin + 4 * m[f].repeat + 2
    <3>1. f \in 1 .. N /\ f + 1 \in 1 .. N
      OBVIOUS
    <3>2. PICK r \in Nat, t \in Nat : /\ r = m[f].repeat /\ t = T[f] /\ S[f] = n + t
                                      /\ T[f + 1] = t + FrameMin + 4 * r + 2
      BY <2>a, <3>1
    <3>3. S[f + 1] = n + (t + FrameMin + 4 * r + 2)
      BY <1>13, <3>1, <3>2
    <3>4. n + (t + FrameMin + 4 * r + 2) = n + t + FrameMin + 4 * r + 2
      BY Sizes
    <3> QED
      BY <3>2, <3>3, <3>4
  <2>4. Len(C) = S[N] + FrameMin + 4 * m[N].repeat + 1
    <3>1. PICK f \in 1 .. N : f = N
      BY <1>2
    <3>2. PICK r \in Nat, t \in Nat : /\ r = m[f].repeat /\ t = T[f] /\ S[f] = n + t
                                      /\ T[f + 1] = t + FrameMin + 4 * r + 2
      BY <2>a
    <3>3. L = t + FrameMin + 4 * r + 2
      BY <1>5, <1>7, <3>1, <3>2
    <3>4. n + L - 1 = n + t + FrameMin + 4 * r + 1
      BY <3>3, Sizes
    <3> QED
      BY <1>11, <3>1, <3>2, <3>4
  <2> QED
    BY <1>1, <1>2, <1>11, <1>14, <2>1, <2>2, <2>3, <2>4 DEF Placed
<1>21. ASSUME NEW f \in 1 .. N
       PROVE  /\ C[S[f] + 1] = LEADER[1] + mark /\ C[S[f] + 2] = LEADER[2] + space
              /\ C[S[f] + FrameMin + 4 * m[f].repeat + 1] = LOGIC_HIGH_US + mark
  <2>1. PICK rep \in Nat : rep = m[f].repeat
    BY <1>6
  <2>2. S[f] \in Nat
    BY <1>14
  <2>3. \A j \in 1 .. FrameMin + 4 * rep + 1 :
          C[S[f] + j] = seqs[f][j] + IF j % 2 = 1 THEN mark ELSE space
    BY <1>15, <2>1
  <2>4. PICK e \in Nat : e = FrameMin + 4 * rep + 1 /\ e % 2 = 1 /\ 1 <= e /\ 2 <= e
                         /\ S[f] + FrameMin + 4 * rep + 1 = S[f] + e
    BY <2>2, Sizes
  <2>5. seqs[f][1] = LEADER[1] /\ seqs[f][2] = LEADER[2] /\ seqs[f][e] = LOGIC_HIGH_US
    <3>1. BuiltAs(seqs[f], m[f])
      BY <1>6
    <3>2. rep \in 0 .. m[f].repeat
      BY <2>1
    <3> QED
      BY <2>4, <3>1, <3>2 DEF BuiltAs
  <2>6. 1 \in 1 .. e /\ 2 \in 1 .. e /\ e \in 1 .. e /\ 1 % 2 = 1 /\ 2 % 2 # 1
    BY <2>4
  <2> QED
    BY <2>1, <2>3, <2>4, <2>5, <2>6
<1>22. Readable(m, C, S)
  <2> SUFFICES ASSUME NEW f \in 1 .. N
               PROVE  /\ IsLeader(C[S[f] + 1], C[S[f] + 2])
                      /\ \A k \in 0 .. Bits - 1 :
                           Sent(C[S[f] + 2 * k + 3], C[S[f] + 2 * k + 4], SentBit(k) \in Word32(m[f]))
                      /\ \A q \in 0 .. m[f].repeat - 1 :
                           IsRepeat(C[S[f] + FrameMin + 4 * q + 3], C[S[f] + FrameMin + 4 * q + 4])
    BY <1>2 DEF Readable
  <2>1. PICK rep \in Nat : rep = m[f].repeat
    BY <1>6
  <2>2. PICK s \in Nat : s = S[f]
    BY <1>14
  <2>3. \A j \in 1 .. FrameMin + 4 * rep + 1 :
          C[s + j] = seqs[f][j] + IF j % 2 = 1 THEN mark ELSE space
    BY <1>15, <2>1, <2>2
  <2>4. PICK B : B = seqs[f]
    OBVIOUS
  <2>5. BuiltAs(B, m[f])
    BY <1>6, <2>4
  <2>6. IsLeader(C[S[f] + 1], C[S[f] + 2])
    BY <1>18, <1>21
  <2>7. ASSUME NEW k \in 0 .. Bits - 1
        PROVE  Sent(C[s + 2 * k + 3], C[s + 2 * k + 4], SentBit(k) \in Word32(m[f]))
    <3>1. PICK i \in Nat, j \in Nat : i = 2 * k + 3 /\ j = 2 * k + 4
      BY Sizes
    <3>2. /\ i \in 1 .. FrameMin + 4 * rep + 1 /\ j \in 1 .. FrameMin + 4 * rep + 1
          /\ i % 2 = 1 /\ j % 2 # 1 /\ s + 2 * k + 3 = s + i /\ s + 2 * k + 4 = s + j
      BY <3>1, Sizes
    <3>3. C[s + i] = B[i] + mark /\ C[s + j] = B[j] + space
      BY <2>3, <2>4, <3>2
    <3>4. B[i] = LOGIC_HIGH_US
          /\ B[j] = IF SentBit(k) \in Word32(m[f]) THEN LOGIC1_LOW_US ELSE LOGIC0_LOW_US
      BY <2>5, <3>1 DEF BuiltAs
    <3>5. CASE SentBit(k) \in Word32(m[f])
      BY <1>18, <3>2, <3>3, <3>4, <3>5 DEF Sent
    <3>6. CASE SentBit(k) \notin Word32(m[f])
      BY <1>18, <3>2, <3>3, <3>4, <3>6 DEF Sent
    <3> QED
      BY <3>5, <3>6
  <2>8. ASSUME NEW q \in 0 .. rep - 1
        PROVE  IsRepeat(C[s + FrameMin + 4 * q + 3], C[s + FrameMin + 4 * q + 4])
    <3>1. PICK i \in Nat, j \in Nat : i = FrameMin + 4 * q + 3 /\ j = FrameMin + 4 * q + 4
      BY Sizes
    <3>2. /\ i \in 1 .. FrameMin + 4 * rep + 1 /\ j \in 1 .. FrameMin + 4 * rep + 1
          /\ i % 2 = 1 /\ j % 2 # 1
          /\ s + FrameMin + 4 * q + 3 = s + i /\ s + FrameMin + 4 * q + 4 = s + j
      BY <3>1, Sizes
    <3>3. C[s + i] = B[i] + mark /\ C[s + j] = B[j] + space
      BY <2>3, <2>4, <3>2
    <3>4. B[i] = REPEAT[1] /\ B[j] = REPEAT[2]
      BY <2>1, <2>5, <3>1 DEF BuiltAs
    <3> QED
      BY <1>18, <3>2, <3>3, <3>4
  <2> QED
    BY <2>1, <2>2, <2>6, <2>7, <2>8
<1>23. Apart(m, C, S)
  <2>1. S[1] = n
    BY <1>2, <1>5, <1>13
  <2>2. ASSUME NEW p \in 1 .. S[1] PROVE \A low : ~IsLeader(C[p], low)
    <3>1. p \in 1 .. n /\ C[p] = noise[p] /\ noise[p] \in Int
      BY <1>1, <1>9, <1>11, <2>1
    <3> QED
      BY <1>19, <3>1, NotAMark
  <2>3. ASSUME NEW f \in 2 .. Len(m)
        PROVE  /\ ~IsLeader(C[S[f] - 1], C[S[f]]) /\ ~IsLeader(C[S[f]], C[S[f] + 1])
               /\ ~IsRepeat(C[S[f] + 1], C[S[f] + 2])
    <3>1. PICK g \in 1 .. N - 1 : f = g + 1
      BY <1>2
    <3>2. g \in 1 .. N /\ f \in 1 .. N
      BY <1>2, <3>1
    <3>3. PICK e \in Nat, rep \in Nat : e = S[g] /\ rep = m[g].repeat
      BY <1>6, <1>14, <3>2
    <3>4. S[f] = e + FrameMin + 4 * rep + 2
      BY <1>2, <1>20, <3>1, <3>3 DEF Placed
    <3>5. S[f] - 1 = e + FrameMin + 4 * rep + 1
      BY <3>4, Sizes
    <3>6. C[S[f] - 1] = LOGIC_HIGH_US + mark
      BY <1>21, <3>2, <3>3, <3>5
    <3>7. C[S[f] + 1] = LEADER[1] + mark /\ C[S[f] + 2] = LEADER[2] + space
      BY <1>21, <3>2
    <3>8. LOGIC_HIGH_US + mark \in Int /\ LEADER[1] + mark \in Int
      BY DEF LOGIC_HIGH_US, LEADER
    <3>9. ~IsLeader(C[S[f] - 1], C[S[f]])
      BY <1>18, <3>6, <3>8, NotAMark
    <3>10. ~IsLeader(C[S[f]], C[S[f] + 1])
      BY <1>18, <3>7, <3>8, NotASpace
    <3> QED
      BY <1>18, <3>7, <3>9, <3>10
  <2> QED
    BY <2>2, <2>3 DEF Apart
<1> QED
  BY <1>8, <1>20, <1>22, <1>23 DEF Laid
-----------------------------------------------------------------------------
(* Types.                                                                  *)

LEMMA ParserTypes ==
  ASSUME NEW d, NEW off, NEW n \in Nat, NEW b
  PROVE  ParserSingle(d, off, n, b).len \in Nat /\ ParserSingle(d, off, n, b).nec \in Nec
<1> DEFINE V(i) == Read(d, off + i, b)
           Data == {2 + 2 * k : k \in 0 .. Bits - 1}
           bad  == {i \in Data : ~IsLogic0(V(i), V(i + 1)) /\ ~IsLogic1(V(i), V(i + 1))}
           ones == {k \in 0 .. Bits - 1 : ~IsLogic0(V(2 + 2 * k), V(3 + 2 * k))}
           At(q) == FrameMin + 4 * q
           more == {q \in 0 .. n : At(q) + 3 < n /\ IsRepeat(V(At(q) + 2), V(At(q) + 3))}
           rest == {q \in 0 .. n + 1 : q \notin more}
<1>1. ParserSingle(d, off, n, b)
        = IF n < FrameMin THEN [len |-> 0, nec |-> NoNec]
          ELSE IF ~IsLeader(V(0), V(1)) THEN [len |-> 2, nec |-> NoNec]
          ELSE IF bad # {} THEN [len |-> Min(bad), nec |-> NoNec]
          ELSE [len |-> At(Min(rest)), nec |-> NecOf(ones, Min(rest))]
  BY Zenon DEF ParserSingle
<1>2. NoNec \in Nec
  BY DEF NoNec, Nec
<1>3. bad # {} => Min(bad) \in Nat
  <2>1. Data \subseteq Nat
    BY Sizes
  <2>2. bad \subseteq Nat
    BY <2>1
  <2> HIDE DEF bad
  <2> QED
    BY <2>2, MinIs
<1>4. Min(rest) \in Nat
  <2> HIDE DEF more
  <2>1. n + 1 \in rest
    <3>1. n + 1 \notin more
      BY DEF more
    <3> QED
      BY <3>1
  <2>2. rest \subseteq Nat
    OBVIOUS
  <2> HIDE DEF rest
  <2> QED
    BY <2>1, <2>2, MinIs
<1>5. ASSUME NEW o, NEW r \in Nat PROVE NecOf(o, r) \in Nec
  BY DEF NecOf, Nec
<1> HIDE DEF V, Data, bad, ones, more, rest
<1>6. At(Min(rest)) \in Nat
  BY <1>4, Sizes
<1>7. NecOf(ones, Min(rest)) \in Nec
  BY <1>4, <1>5
<1> HIDE DEF At
<1>8. CASE n < FrameMin
  <2>1. ParserSingle(d, off, n, b) = [len |-> 0, nec |-> NoNec]
    BY <1>1, <1>8, Zenon
  <2> QED
    BY <1>2, <2>1
<1>9. CASE ~(n < FrameMin) /\ ~IsLeader(V(0), V(1))
  <2>1. ParserSingle(d, off, n, b) = [len |-> 2, nec |-> NoNec]
    BY <1>1, <1>9, Zenon
  <2> QED
    BY <1>2, <2>1
<1>10. CASE ~(n < FrameMin) /\ IsLeader(V(0), V(1)) /\ bad # {}
  <2>1. ParserSingle(d, off, n, b) = [len |-> Min(bad), nec |-> NoNec]
    BY <1>1, <1>10, Zenon
  <2> QED
    BY <1>2, <1>3, <1>10, <2>1
<1>11. CASE ~(n < FrameMin) /\ IsLeader(V(0), V(1)) /\ bad = {}
  <2>1. ParserSingle(d, off, n, b) = [len |-> At(Min(rest)), nec |-> NecOf(ones, Min(rest))]
    BY <1>1, <1>11, Zenon
  <2> QED
    BY <1>6, <1>7, <2>1
<1> QED
  BY <1>8, <1>9, <1>10, <1>11, Zenon

\* The inductive invariant: the lists are lists of numbers and of reports, the ring is
\* empty between receptions, and in the queue's task the place and what is left add up
\* to the copy.
TypesInv ==
  /\ TypeOK
  /\ frames \in Seq(Nec) /\ air \in Seq(Int) /\ ring \in Seq(Int) /\ out \in Seq(Report)
  /\ status = "idle" => ring = <<>>
  /\ pc = "queue" => DOMAIN data = 0 .. offset + len - 1

LEMMA TypesInit == Init => TypesInv
<1> SUFFICES ASSUME Init PROVE TypesInv
  OBVIOUS
<1>1. frames \in Seq(Nec) /\ air \in Seq(Int) /\ ring \in Seq(Int) /\ out \in Seq(Report)
  BY DEF Init
<1>2. RingLen \in Nat /\ RingLen > 0
  BY ReceiverAssumption
<1>3. Len(ring) < RingLen /\ lastTotal \in 0 .. RingLen /\ \A i \in DOMAIN out : out[i].nec \in Nec
  BY <1>2 DEF Init
<1>4. TypeOK
  BY <1>3 DEF Init, TypeOK
<1> QED
  BY <1>1, <1>4 DEF Init, TypesInv

\* Discarding codes makes the ring no longer.
LEMMA DiscardTypes ==
  ASSUME NEW r \in Seq(Int), NEW n \in Nat
  PROVE  Discard(r, n) \in Seq(Int) /\ Len(Discard(r, n)) <= Len(r)
BY DEF Discard

\* The task's copy and its place in it.
PlaceType == offset \in Nat /\ len \in Nat /\ frameLen \in Nat /\ pc \in {"wait", "parse", "queue"}

\* One round of the decoder's loop, with what it computes.
ParseWith(b, report, from, left, heads, skip, finish) ==
  /\ report = ParserSingle(data, offset, len, b)
  /\ from = offset + report.len /\ left = len - report.len
  /\ heads = (IF left > 4 THEN Heads(data, from, left, b) ELSE {})
  /\ skip = (IF heads = {} THEN 0 ELSE Min(heads))
  /\ finish = FrameIsOver(heads, left)
  /\ Continue("parse", left - skip >= FrameMin, data, from + skip, left - skip,
              IF heads = {} THEN frameLen + report.len ELSE skip)
  /\ ring' = IF heads = {} THEN ring ELSE Discard(ring, frameLen + report.len)
  /\ IF Reports(report, finish)
       THEN /\ out' = Append(out, [finish |-> finish, nec |-> report.nec])
            /\ lastRepeat' = RepeatAfter(finish, report)
       ELSE UNCHANGED <<out, lastRepeat>>
  /\ lastTotal' = IF finish THEN 0 ELSE lastTotal

LEMMA ParseRound ==
  ASSUME SyncParse
  PROVE  \E b \in Junk : \E report, from, left, heads, skip, finish :
           ParseWith(b, report, from, left, heads, skip, finish)
<1>1. PICK b \in Junk :
       LET report == ParserSingle(data, offset, len, b)
           from   == offset + report.len
           left   == len - report.len
           heads  == IF left > 4 THEN Heads(data, from, left, b) ELSE {}
           skip   == IF heads = {} THEN 0 ELSE Min(heads)
           finish == FrameIsOver(heads, left)
       IN  /\ Continue("parse", left - skip >= FrameMin, data, from + skip, left - skip,
                       IF heads = {} THEN frameLen + report.len ELSE skip)
           /\ ring' = IF heads = {} THEN ring ELSE Discard(ring, frameLen + report.len)
           /\ IF Reports(report, finish)
                THEN /\ out' = Append(out, [finish |-> finish, nec |-> report.nec])
                     /\ lastRepeat' = RepeatAfter(finish, report)
                ELSE UNCHANGED <<out, lastRepeat>>
           /\ lastTotal' = IF finish THEN 0 ELSE lastTotal
  BY Zenon DEF SyncParse
<1> DEFINE report == ParserSingle(data, offset, len, b)
           from   == offset + report.len
           left   == len - report.len
           heads  == IF left > 4 THEN Heads(data, from, left, b) ELSE {}
           skip   == IF heads = {} THEN 0 ELSE Min(heads)
           finish == FrameIsOver(heads, left)
<1>2. ParseWith(b, report, from, left, heads, skip, finish)
  BY <1>1, Zenon DEF ParseWith
<1> HIDE DEF report, from, left, heads, skip, finish
<1> QED
  BY <1>2

\* One round of the queue's task, with what it computes: nothing to post, a frame that is
\* posted or lost, a failed malloc.
Onward(report, off, more) ==
  /\ Continue("queue", more, data, off, len - report.len, 0)
  /\ IF more THEN UNCHANGED <<ring, status>> ELSE Idle

QueueWith(b, heads, report, off, more) ==
  /\ heads = Heads(data, offset, len, b) /\ report = ParserSingle(data, Min(heads), len, b)
  /\ off = offset + report.len
  /\ more <=> heads # {} /\ off + FrameLen <= Cardinality(DOMAIN data)
  /\ \/ /\ heads = {} \/ ~Posted(report)
        /\ Onward(report, off, more) /\ UNCHANGED <<out, spoilt>>
     \/ /\ heads # {} /\ Posted(report) /\ Onward(report, off, more)
        /\ \/ out' = Append(out, [finish |-> TRUE, nec |-> report.nec]) /\ UNCHANGED spoilt
           \/ UNCHANGED out /\ spoilt' = TRUE
     \/ /\ heads # {} /\ Continue("queue", FALSE, data, 0, 0, 0) /\ Idle
        /\ spoilt' = TRUE /\ UNCHANGED out

LEMMA QueueRound ==
  ASSUME QueueParse
  PROVE  \E b \in Junk : \E heads, report, off, more :
           more \in BOOLEAN /\ QueueWith(b, heads, report, off, more)
<1>1. PICK b \in Junk :
       LET heads  == Heads(data, offset, len, b)
           report == ParserSingle(data, Min(heads), len, b)
           off    == offset + report.len
           more   == heads # {} /\ off + FrameLen <= Cardinality(DOMAIN data)
       IN  \/ /\ heads = {} \/ ~Posted(report)
              /\ Continue("queue", more, data, off, len - report.len, 0)
              /\ IF more THEN UNCHANGED <<ring, status>> ELSE Idle
              /\ UNCHANGED <<out, spoilt>>
           \/ /\ heads # {} /\ Posted(report)
              /\ Continue("queue", more, data, off, len - report.len, 0)
              /\ IF more THEN UNCHANGED <<ring, status>> ELSE Idle
              /\ \/ out' = Append(out, [finish |-> TRUE, nec |-> report.nec]) /\ UNCHANGED spoilt
                 \/ UNCHANGED out /\ spoilt' = TRUE
           \/ /\ heads # {}
              /\ Continue("queue", FALSE, data, 0, 0, 0) /\ Idle
              /\ spoilt' = TRUE /\ UNCHANGED out
  BY Zenon DEF QueueParse
<1> DEFINE heads  == Heads(data, offset, len, b)
           report == ParserSingle(data, Min(heads), len, b)
           off    == offset + report.len
           more   == heads # {} /\ off + FrameLen <= Cardinality(DOMAIN data)
<1>2. QueueWith(b, heads, report, off, more)
  BY <1>1, Zenon DEF QueueWith, Onward
<1>3. more \in BOOLEAN
  BY Zenon
<1> HIDE DEF heads, report, off, more
<1> QED
  BY <1>2, <1>3

LEMMA TypesStep == TypesInv /\ [Next]_vars => TypesInv'
<1> SUFFICES ASSUME TypesInv, [Next]_vars PROVE TypesInv'
  OBVIOUS
<1>0. RingLen \in Nat /\ RingLen > 0
  BY ReceiverAssumption
<1>1. /\ frames \in Seq(Nec) /\ air \in Seq(Int) /\ ring \in Seq(Int) /\ out \in Seq(Report)
      /\ status = "idle" => ring = <<>>
      /\ pc = "queue" => DOMAIN data = 0 .. offset + len - 1
  BY DEF TypesInv
<1>2. /\ way \in Ways /\ status \in {"idle", "recving", "overflow", "finish"} /\ spoilt \in BOOLEAN
      /\ Len(ring) \in Nat /\ Len(ring) < RingLen /\ lastTotal \in 0 .. RingLen
      /\ lastRepeat \in Nat \cup {-1}
  BY <1>1 DEF TypesInv, TypeOK
<1>3. PlaceType
  BY DEF TypesInv, TypeOK, PlaceType
\* What an action has to keep.
<1> DEFINE Kept == /\ way \in Ways /\ status \in {"idle", "recving", "overflow", "finish"}
                   /\ spoilt \in BOOLEAN
                   /\ frames \in Seq(Nec) /\ air \in Seq(Int)
                   /\ ring \in Seq(Int) /\ Len(ring) < RingLen
                   /\ lastTotal \in 0 .. RingLen /\ lastRepeat \in Nat \cup {-1}
                   /\ out \in Seq(Report)
                   /\ status = "idle" => ring = <<>>
           Queued == pc = "queue" => DOMAIN data = 0 .. offset + len - 1
<1>4. ASSUME Kept', PlaceType', Queued' PROVE TypesInv'
  <2>1. \A i \in DOMAIN out' : out'[i].nec \in Nec
    <3> SUFFICES ASSUME NEW i \in DOMAIN out' PROVE out'[i].nec \in Nec
      OBVIOUS
    <3>1. out'[i] \in Report
      BY <1>4
    <3> QED
      BY <3>1 DEF Report
  <2> QED
    BY <1>4, <2>1 DEF TypesInv, TypeOK, PlaceType
<1>5. CASE Sends
  <2>1. PICK m \in Messages, d \in Drifts, noise \in Noises, s \in Spoils :
          frames' = m /\ air' = OnAir(m, d, noise, s) /\ spoilt' = (s # 0)
    BY <1>5 DEF Sends
  <2>2. frames' \in Seq(Nec) /\ air' \in Seq(Int)
    BY <2>1, AirTypes
  <2>3. /\ UNCHANGED <<way, ring, status, lastTotal, lastRepeat, pc, data, offset, len, frameLen>>
        /\ out' = <<>>
    BY <1>5 DEF Sends, taskVars
  <2>4. Kept'
    BY <1>1, <1>2, <2>1, <2>2, <2>3
  <2>5. PlaceType' /\ Queued'
    BY <1>1, <1>3, <2>3 DEF PlaceType
  <2> QED
    BY <1>4, <2>4, <2>5
<1>6. CASE Edge
  <2>1. /\ UNCHANGED <<way, frames, lastTotal, lastRepeat, pc, data, offset, len, frameLen, out>>
        /\ air # <<>> /\ air' = Tail(air)
    BY <1>6 DEF Edge, taskVars
  <2>2. air' \in Seq(Int) /\ Head(air) \in Int
    BY <1>1, <2>1
  <2>3. /\ ring' \in Seq(Int) /\ Len(ring') < RingLen /\ spoilt' \in BOOLEAN
        /\ status' \in {"idle", "recving", "overflow", "finish"}
        /\ status' = "idle" => ring' = <<>>
    <3>1. CASE IsFull(ring)
      BY <1>1, <1>2, <1>6, <3>1 DEF Edge
    <3>2. CASE ~IsFull(ring)
      <4>1. Len(ring) + 1 < RingLen
        BY <1>0, <1>2, <3>2 DEF IsFull
      <4>2. Append(ring, Head(air)) \in Seq(Int) /\ Len(Append(ring, Head(air))) < RingLen
        BY <1>1, <2>2, <4>1
      <4> QED
        BY <1>1, <1>2, <1>6, <3>2, <4>2 DEF Edge
    <3> QED
      BY <3>1, <3>2
  <2>4. Kept'
    BY <1>1, <1>2, <2>1, <2>2, <2>3
  <2>5. PlaceType' /\ Queued'
    BY <1>1, <1>3, <2>1 DEF PlaceType
  <2> QED
    BY <1>4, <2>4, <2>5
<1>7. CASE Round
  <2>1. /\ UNCHANGED <<way, frames, air>> /\ status' \in {"recving", "finish"} /\ pc = "wait"
    BY <1>7 DEF Round
  <2>2. CASE UNCHANGED <<lastTotal, lastRepeat, ring, taskVars, spoilt, out>>
    <3>1. UNCHANGED <<lastTotal, lastRepeat, ring, pc, data, offset, len, frameLen, spoilt, out>>
      BY <2>2 DEF taskVars
    <3>2. Kept'
      BY <1>1, <1>2, <2>1, <3>1
    <3>3. PlaceType' /\ Queued'
      BY <1>1, <1>3, <3>1 DEF PlaceType
    <3> QED
      BY <1>4, <3>2, <3>3
  <2>3. CASE SyncBegins
    <3> DEFINE total == Len(ring)
    <3>1. CASE Restart /\ ring' = <<>> /\ spoilt' = TRUE /\ UNCHANGED <<taskVars, out>>
      <4>1. UNCHANGED <<pc, data, offset, len, frameLen, out>> /\ lastRepeat' = -1 /\ lastTotal' = 0
        BY <3>1 DEF taskVars, Restart
      <4>2. ring' \in Seq(Int) /\ Len(ring') < RingLen
        BY <1>0, <3>1
      <4>3. Kept'
        BY <1>0, <1>1, <1>2, <2>1, <3>1, <4>1, <4>2
      <4>4. PlaceType' /\ Queued'
        BY <1>1, <1>3, <4>1 DEF PlaceType
      <4> QED
        BY <1>4, <4>3, <4>4
    <3>2. ASSUME NEW b \in Junk, NEW heads, heads = Heads(Copied(ring), 0, total, b),
                 heads = {}, Restart, ring' = Discard(ring, total), UNCHANGED <<taskVars, spoilt, out>>
          PROVE  TypesInv'
      <4>1. UNCHANGED <<pc, data, offset, len, frameLen, spoilt, out>> /\ lastRepeat' = -1 /\ lastTotal' = 0
        BY <3>2 DEF taskVars, Restart
      <4>2. ring' \in Seq(Int) /\ Len(ring') < RingLen
        BY <1>0, <1>1, <1>2, <3>2, DiscardTypes
      <4>3. Kept'
        BY <1>0, <1>1, <1>2, <2>1, <4>1, <4>2
      <4>4. PlaceType' /\ Queued'
        BY <1>1, <1>3, <4>1 DEF PlaceType
      <4> QED
        BY <1>4, <4>3, <4>4
    <3>3. ASSUME NEW b \in Junk, NEW heads, heads = Heads(Copied(ring), 0, total, b),
                 heads # {}, lastTotal' = total,
                 Continue("parse", total - Min(heads) >= FrameMin, Copied(ring),
                          Min(heads), total - Min(heads), Min(heads)),
                 UNCHANGED <<lastRepeat, ring, spoilt, out>>
          PROVE  TypesInv'
      <4>1. Min(heads) \in Nat /\ Min(heads) < total
        <5>1. heads \subseteq 0 .. total - 1
          BY <3>3 DEF Heads
        <5>2. heads \subseteq Nat
          BY <5>1
        <5> QED
          BY <1>2, <3>3, <5>1, <5>2, MinIs
      <4>2. Kept'
        BY <1>0, <1>1, <1>2, <2>1, <3>3
      <4>3. PlaceType' /\ pc' \in {"wait", "parse"}
        <5>1. PICK h \in Nat, l \in Nat : h = Min(heads) /\ l = total - Min(heads)
          BY <1>2, <4>1
        <5>2. Continue("parse", l >= FrameMin, Copied(ring), h, l, h)
          BY <3>3, <5>1
        <5> QED
          BY <5>2 DEF Continue, PlaceType
      <4> QED
        BY <1>4, <4>2, <4>3
    <3>4. ASSUME lastTotal' = total, spoilt' = TRUE, UNCHANGED <<lastRepeat, ring, taskVars, out>>
          PROVE  TypesInv'
      <4>1. UNCHANGED <<lastRepeat, ring, pc, data, offset, len, frameLen, out>>
        BY <3>4 DEF taskVars
      <4>2. Kept'
        BY <1>0, <1>1, <1>2, <2>1, <3>4, <4>1
      <4>3. PlaceType' /\ Queued'
        BY <1>1, <1>3, <4>1 DEF PlaceType
      <4> QED
        BY <1>4, <4>2, <4>3
    <3> QED
      BY <2>3, <3>1, <3>2, <3>3, <3>4 DEF SyncBegins
  <2> QED
    BY <1>7, <2>2, <2>3 DEF Round
<1>8. CASE SyncParse
  <2>1. /\ UNCHANGED <<way, frames, air, spoilt, status>> /\ pc = "parse"
    BY <1>8 DEF SyncParse
  <2>2. PICK b, report, from, left, heads, skip, finish :
          b \in Junk /\ ParseWith(b, report, from, left, heads, skip, finish)
    BY <1>8, ParseRound
  <2>3. PICK n \in Nat : n = report.len
    BY <1>3, <2>2, ParserTypes DEF ParseWith, PlaceType
  <2>4. report.nec \in Nec /\ report.nec.repeat \in Nat
    <3>1. report.nec \in Nec
      BY <1>3, <2>2, ParserTypes DEF ParseWith, PlaceType
    <3> QED
      BY <3>1 DEF Nec
  <2>5. from \in Nat /\ left \in Int /\ from = offset + n /\ left = len - n
    <3>1. offset \in Nat /\ len \in Nat
      BY <1>3 DEF PlaceType
    <3>2. from = offset + n /\ left = len - n
      BY <2>2, <2>3 DEF ParseWith
    <3> QED
      BY <3>1, <3>2
  <2>6. skip \in Nat
    <3>1. heads \subseteq Nat
      BY <2>2, <2>5 DEF ParseWith, Heads
    <3> QED
      BY <2>2, <3>1, MinIs DEF ParseWith
  <2>7. finish \in BOOLEAN
    BY <2>2, <2>5 DEF ParseWith, FrameIsOver
  <2>8. ring' \in Seq(Int) /\ Len(ring') < RingLen
    <3>1. frameLen + n \in Nat
      BY <1>3 DEF PlaceType
    <3>2. ring' = ring \/ ring' = Discard(ring, frameLen + n)
      BY <2>2, <2>3 DEF ParseWith
    <3> QED
      BY <1>0, <1>1, <1>2, <3>1, <3>2, DiscardTypes
  <2>9. out' \in Seq(Report) /\ lastRepeat' \in Nat \cup {-1}
    <3>1. CASE Reports(report, finish)
      <4>1. PICK x \in Report : x = [finish |-> finish, nec |-> report.nec]
        BY <2>4, <2>7 DEF Report
      <4>2. out' = Append(out, x) /\ lastRepeat' = RepeatAfter(finish, report)
        BY <2>2, <3>1, <4>1 DEF ParseWith
      <4> QED
        BY <1>1, <2>4, <4>2 DEF RepeatAfter
    <3>2. CASE ~Reports(report, finish)
      BY <1>1, <1>2, <2>2, <3>2 DEF ParseWith
    <3> QED
      BY <3>1, <3>2
  <2>10. lastTotal' \in 0 .. RingLen
    BY <1>0, <1>2, <2>2 DEF ParseWith
  <2>11. status = "idle" => ring' = <<>>
    <3>1. ASSUME ring = <<>>, NEW k \in Nat PROVE Discard(ring, k) = <<>>
      BY <3>1 DEF Discard
    <3>2. frameLen + n \in Nat
      BY <1>3 DEF PlaceType
    <3>3. ring' = ring \/ ring' = Discard(ring, frameLen + n)
      BY <2>2, <2>3 DEF ParseWith
    <3> QED
      BY <1>1, <3>1, <3>2, <3>3
  <2>12. Kept'
    BY <1>1, <1>2, <2>1, <2>8, <2>9, <2>10, <2>11
  <2>13. PlaceType' /\ pc' \in {"wait", "parse"}
    <3>1. PICK p \in Nat : p = IF heads = {} THEN frameLen + report.len ELSE skip
      BY <1>3, <2>3, <2>6 DEF PlaceType
    <3>2. Continue("parse", left - skip >= FrameMin, data, from + skip, left - skip, p)
      BY <2>2, <3>1 DEF ParseWith
    <3>3. FrameMin \in Nat
      BY Sizes
    <3> QED
      BY <2>5, <2>6, <3>2, <3>3 DEF Continue, PlaceType
  <2> QED
    BY <1>4, <2>12, <2>13
<1>9. CASE Finish
  <2>1. /\ UNCHANGED <<way, frames, air, lastTotal, lastRepeat, out>> /\ pc = "wait"
    BY <1>9 DEF Finish
  <2>2. CASE Idle /\ spoilt' \in BOOLEAN /\ UNCHANGED taskVars
    <3>1. UNCHANGED <<pc, data, offset, len, frameLen>> /\ ring' = <<>> /\ status' = "idle"
      BY <2>2 DEF taskVars, Idle
    <3>2. Kept'
      BY <1>0, <1>1, <1>2, <2>1, <2>2, <3>1
    <3>3. PlaceType' /\ Queued'
      BY <1>1, <1>3, <3>1 DEF PlaceType
    <3> QED
      BY <1>4, <3>2, <3>3
  <2>3. CASE /\ ring' = WithTail(ring) /\ status' = "finish"
             /\ Continue("queue", TRUE, Copied(ring'), 0, Len(ring'), 0)
             /\ UNCHANGED spoilt
    <3>1. ring' \in Seq(Int) /\ Len(ring') < RingLen /\ Len(ring') \in Nat
      <4>1. TAIL_US \in Int
        BY DEF TAIL_US
      <4> QED
        BY <1>0, <1>1, <1>2, <2>3, <4>1 DEF WithTail, IsFull
    <3>2. Kept'
      BY <1>0, <1>1, <1>2, <2>1, <2>3, <3>1
    <3>3. /\ pc' = "queue" /\ data' = Copied(ring') /\ offset' = 0 /\ len' = Len(ring')
          /\ frameLen' = 0
      BY <2>3 DEF Continue
    <3>4. PlaceType'
      BY <3>1, <3>3 DEF PlaceType
    <3>5. DOMAIN data' = 0 .. offset' + len' - 1
      BY <3>1, <3>3 DEF Copied
    <3> QED
      BY <1>4, <3>2, <3>4, <3>5
  <2> QED
    BY <1>2, <1>9, <2>2, <2>3 DEF Finish
<1>10. CASE QueueParse
  <2>1. UNCHANGED <<way, frames, air, lastTotal, lastRepeat>> /\ pc = "queue"
    BY <1>10 DEF QueueParse
  <2>2. PICK b, heads, report, off, more :
          b \in Junk /\ more \in BOOLEAN /\ QueueWith(b, heads, report, off, more)
    BY <1>10, QueueRound
  <2>3. PICK n \in Nat : n = report.len
    BY <1>3, <2>2, ParserTypes DEF QueueWith, PlaceType
  <2>4. report.nec \in Nec
    BY <1>3, <2>2, ParserTypes DEF QueueWith, PlaceType
  <2>5. PICK l \in Int : l = len - n /\ off = offset + n
    BY <1>3, <2>2, <2>3 DEF QueueWith, PlaceType
  <2>6. ASSUME more PROVE off \in Nat /\ l \in Nat /\ off + l = offset + len
    <3>1. DOMAIN data = 0 .. offset + len - 1
      BY <1>1, <2>1
    <3>2. Cardinality(0 .. offset + len - 1) = offset + len
      <4>1. PICK a \in Int : a = offset + len - 1 /\ a >= -1
        BY <1>3 DEF PlaceType
      <4>2. Cardinality(0 .. a) = IF 0 > a THEN 0 ELSE a - 0 + 1
        BY FS_Interval
      <4> QED
        BY <1>3, <4>1, <4>2 DEF PlaceType
    <3>3. off + FrameLen <= offset + len
      BY <2>2, <2>6, <3>1, <3>2 DEF QueueWith
    <3> QED
      BY <1>3, <2>5, <3>3, Sizes DEF PlaceType
  <2>7. \/ /\ Continue("queue", more, data, off, l, 0)
           /\ IF more THEN UNCHANGED <<ring, status>> ELSE Idle
        \/ Continue("queue", FALSE, data, 0, 0, 0) /\ Idle
    BY <2>2, <2>3, <2>5 DEF QueueWith, Onward
  <2>8. PlaceType' /\ Queued'
    <3>1. CASE pc' = "wait" /\ offset' = 0 /\ len' = 0 /\ frameLen' = 0
      BY <3>1 DEF PlaceType
    <3>2. CASE more /\ pc' = "queue" /\ data' = data /\ offset' = off /\ len' = l /\ frameLen' = 0
      <4>1. offset' + len' - 1 = offset + len - 1 /\ offset' \in Nat /\ len' \in Nat
        BY <1>3, <2>6, <3>2 DEF PlaceType
      <4> QED
        BY <1>1, <2>1, <3>2, <4>1 DEF PlaceType
    <3> QED
      BY <2>7, <3>1, <3>2 DEF Continue
  <2>9. /\ ring' \in Seq(Int) /\ Len(ring') < RingLen
        /\ status' \in {"idle", "recving", "overflow", "finish"}
        /\ status' = "idle" => ring' = <<>>
    <3>1. CASE Idle
      BY <1>0, <3>1 DEF Idle
    <3>2. CASE UNCHANGED <<ring, status>>
      BY <1>1, <1>2, <3>2
    <3> QED
      BY <2>7, <3>1, <3>2
  <2>10. out' \in Seq(Report) /\ spoilt' \in BOOLEAN
    <3>1. PICK x \in Report : x = [finish |-> TRUE, nec |-> report.nec]
      BY <2>4 DEF Report
    <3>2. out' = out \/ out' = Append(out, x)
      BY <2>2, <3>1, Zenon DEF QueueWith
    <3>3. spoilt' = spoilt \/ spoilt' = TRUE
      BY <2>2, Zenon DEF QueueWith
    <3>4. spoilt' \in BOOLEAN
      BY <1>2, <3>3, Zenon
    <3>5. out \in Seq(Report) /\ Append(out, x) \in Seq(Report)
      BY <1>1, AppendProperties
    <3> QED
      BY <3>2, <3>4, <3>5, Zenon
  <2>11. Kept'
    BY <1>1, <1>2, <2>1, <2>9, <2>10
  <2> QED
    BY <1>4, <2>8, <2>11
<1>11. CASE UNCHANGED vars
  <2>1. /\ UNCHANGED <<way, frames, air, spoilt, ring, status, lastTotal, lastRepeat, out>>
        /\ UNCHANGED <<pc, data, offset, len, frameLen>>
    BY <1>11 DEF vars, taskVars
  <2>2. Kept' /\ PlaceType' /\ Queued'
    BY <1>1, <1>2, <1>3, <2>1 DEF PlaceType
  <2> QED
    BY <1>4, <2>2
<1> QED
  BY <1>5, <1>6, <1>7, <1>8, <1>9, <1>10, <1>11 DEF Next

\* Type correctness for any ring, any messages, drifts and noise, and whatever was lost.
THEOREM TypeCorrect == Spec => []TypeOK
<1>1. Init => TypesInv
  BY TypesInit
<1>2. TypesInv /\ [Next]_vars => TypesInv'
  BY TypesStep
<1>3. TypesInv => TypeOK
  BY DEF TypesInv
<1> QED
  BY <1>1, <1>2, <1>3, PTL DEF Spec
-----------------------------------------------------------------------------
(* The callback.                                                           *)

\* The ring holds the codes of C from place q on, and the air the rest.
Received(C, q) ==
  /\ q + Len(ring) + Len(air) = Len(C)
  /\ \A i \in 1 .. Len(ring) : ring[i] = C[q + i]
  /\ \A i \in 1 .. Len(air) : air[i] = C[q + Len(ring) + i]

\* The first edge has yet to come.
Waiting(C) == pc = "wait" /\ status = "idle" /\ out = <<>> /\ Follows(air, C)

\* What was reported of frame f has been received.
Progress(S, f) ==
  Pending(out) => /\ out[Len(out)].nec.repeat = lastRepeat
                  /\ S[f] + FrameMin + 4 * lastRepeat <= Begin(S, f) + Len(ring)

\* The task is about to parse frame f in its copy, and what was reported of it is there.
Parsing(C, S, f) ==
  pc = "parse" =>
    /\ len >= FrameMin /\ frameLen = S[f] - Begin(S, f)
    /\ S[f] + len <= Begin(S, f) + Len(ring) /\ InCopy(data, offset, len, C, S[f])
    /\ Pending(out) => FrameMin + 4 * lastRepeat <= len

\* When the reception is over, the last copy has all of it.
Ending(C, S, f) == status = "finish" => pc = "parse" /\ S[f] + len = Len(C) /\ air = <<>>

\* Frame f is being received.
Going(C, S, f) ==
  /\ status \in {"recving", "finish"} /\ pc \in {"wait", "parse"}
  /\ Received(C, Begin(S, f)) /\ Right(out, frames, f)
  /\ Progress(S, f) /\ Parsing(C, S, f) /\ Ending(C, S, f)

\* Everything has been reported.
Done ==
  /\ air = <<>> /\ pc = "wait" /\ status \in {"idle", "finish"}
  /\ Right(out, frames, Len(frames) + 1)

Underway ==
  \E C, S : Laid(frames, C, S) /\ (Waiting(C) \/ \E f \in 1 .. Len(frames) : Going(C, S, f))

\* The inductive invariant.  What has been reported, what the ring holds and where the
\* task is in its copy all tell of the same frame.
CallbackInv == way = "callback" /\ ~spoilt => Done \/ Underway

LEMMA RightAtFirst ==
  ASSUME NEW m
  PROVE  Right(<<>>, m, 1) /\ ~Pending(<<>>)
<1>1. Finished(<<>>, Len(<<>>)) = {}
  BY DEF Finished
<1>2. Cardinality(Finished(<<>>, Len(<<>>))) = 0
  BY <1>1, FS_EmptySet
<1> QED
  BY <1>2 DEF Right, Pending

LEMMA CallbackInit == Init => CallbackInv
<1> SUFFICES ASSUME Init PROVE Done
  BY DEF CallbackInv
<1>1. Len(frames) + 1 = 1 /\ out = <<>> /\ air = <<>> /\ pc = "wait" /\ status = "idle"
  BY DEF Init
<1> QED
  BY <1>1, RightAtFirst DEF Done

\* The first edge.
LEMMA FirstEdge ==
  ASSUME TypesInv, NEW C, NEW S, Laid(frames, C, S), Waiting(C), Edge, ~spoilt'
  PROVE  Going(C, S, 1)'
<1>1. ring = <<>> /\ air \in Seq(Int) /\ Len(ring) = 0
  BY DEF TypesInv, Waiting
<1>2. /\ air' = Tail(air) /\ ring' = ring /\ status' = "recving"
      /\ UNCHANGED <<frames, pc, out>>
  BY DEF Edge, Waiting, taskVars
<1>3. 1 \in 1 .. Len(frames) /\ Len(C) \in Nat
  BY DEF Laid, Placed
<1>4. Received(C, 0)'
  <2>1. Len(air) = Len(C) + 1 /\ \A i \in 1 .. Len(C) : air[i + 1] = C[i]
    BY DEF Waiting, Follows
  <2>2. Len(air') = Len(C) /\ \A i \in 1 .. Len(C) : air'[i] = air[i + 1]
    BY <1>1, <1>2, <1>3, <2>1
  <2> QED
    BY <1>1, <1>2, <1>3, <2>1, <2>2 DEF Received
<1>5. Begin(S, 1) = 0
  BY DEF Begin
<1>6. out' = <<>> /\ pc' = "wait"
  BY <1>2 DEF Waiting
<1>7. Right(out', frames', 1) /\ ~Pending(out')
  BY <1>6, RightAtFirst
<1> QED
  BY <1>2, <1>4, <1>5, <1>6, <1>7 DEF Going, Progress, Parsing, Ending

\* The ring takes one more code from the air.
LEMMA CodeArrives ==
  ASSUME TypesInv, NEW C \in Seq(Int), NEW q \in Nat, Received(C, q), status = "recving",
         Edge, ~spoilt'
  PROVE  /\ Received(C, q)' /\ air # <<>> /\ Len(ring') = Len(ring) + 1 /\ status' = "recving"
         /\ UNCHANGED <<frames, out, lastRepeat, taskVars>>
<1>1. ring \in Seq(Int) /\ air \in Seq(Int) /\ air # <<>>
  BY DEF TypesInv, Edge
<1>3. /\ air' = Tail(air) /\ ring' = Append(ring, Head(air)) /\ status' = "recving"
      /\ UNCHANGED <<frames, out, lastRepeat, taskVars>>
  BY DEF Edge
<1>4. PICK n \in Nat, k \in Nat, c \in Nat : n = Len(ring) /\ k = Len(air) /\ k > 0 /\ c = Len(C)
  BY <1>1
<1>5. /\ Len(ring') = n + 1 /\ ring'[n + 1] = air[1] /\ \A i \in 1 .. n : ring'[i] = ring[i]
      /\ Len(air') = k - 1 /\ \A i \in 1 .. k - 1 : air'[i] = air[i + 1]
  BY <1>1, <1>3, <1>4
<1>6. Received(C, q)'
  <2>1. q + n + k = c /\ (\A i \in 1 .. n : ring[i] = C[q + i]) /\ \A i \in 1 .. k : air[i] = C[q + n + i]
    BY <1>4 DEF Received
  <2>2. q + (n + 1) + (k - 1) = c
    BY <2>1
  <2>3. ASSUME NEW i \in 1 .. n + 1 PROVE ring'[i] = C[q + i]
    <3>1. CASE i = n + 1
      <4>1. 1 \in 1 .. k /\ q + n + 1 = q + i
        BY <1>4, <3>1
      <4> QED
        BY <1>5, <2>1, <3>1, <4>1
    <3>2. CASE i # n + 1
      <4>1. i \in 1 .. n
        BY <3>2
      <4> QED
        BY <1>5, <2>1, <4>1
    <3> QED
      BY <3>1, <3>2
  <2>4. ASSUME NEW i \in 1 .. k - 1 PROVE air'[i] = C[q + (n + 1) + i]
    <3>1. i + 1 \in 1 .. k /\ q + n + (i + 1) = q + (n + 1) + i
      OBVIOUS
    <3> QED
      BY <1>5, <2>1, <3>1
  <2> QED
    BY <1>4, <1>5, <2>2, <2>3, <2>4 DEF Received
<1> QED
  BY <1>1, <1>3, <1>4, <1>5, <1>6

\* One more code.
LEMMA NextEdge ==
  ASSUME TypesInv, NEW C, NEW S, Laid(frames, C, S), NEW f \in 1 .. Len(frames), Going(C, S, f),
         Edge, ~spoilt'
  PROVE  Going(C, S, f)'
<1>1. ring \in Seq(Int) /\ air \in Seq(Int) /\ air # <<>> /\ C \in Seq(Int)
  BY DEF TypesInv, Edge, Laid, Placed
<1>2. status = "recving"
  BY <1>1 DEF Going, Ending
<1>4. PICK n \in Nat, q \in Nat : n = Len(ring) /\ q = Begin(S, f)
  BY <1>1, BeginIs
<1>3. /\ Received(C, q)' /\ Len(ring') = n + 1 /\ status' = "recving"
      /\ UNCHANGED <<frames, pc, out, lastRepeat, data, offset, len, frameLen>>
  <2>1. Received(C, q)
    BY <1>4 DEF Going
  <2> QED
    BY <1>1, <1>2, <1>4, <2>1, CodeArrives DEF taskVars
<1>7. Right(out, frames, f)' /\ pc' \in {"wait", "parse"}
  BY <1>3 DEF Going
<1>8. PICK s \in Nat : s = S[f]
  BY PlacedTypes
<1>9. Progress(S, f)'
  <2> SUFFICES ASSUME Pending(out)'
               PROVE  /\ out'[Len(out')].nec.repeat = lastRepeat'
                      /\ s + FrameMin + 4 * lastRepeat' <= q + Len(ring')
    BY <1>4, <1>8 DEF Progress
  <2>1. Pending(out)
    BY <1>3
  <2>2. out[Len(out)].nec.repeat = lastRepeat /\ s + FrameMin + 4 * lastRepeat <= q + n
    BY <1>4, <1>8, <2>1 DEF Going, Progress
  <2>3. lastRepeat \in Int
    BY DEF TypesInv, TypeOK
  <2>4. s + FrameMin + 4 * lastRepeat <= q + (n + 1)
    BY <2>2, <2>3, Sizes
  <2> QED
    BY <1>3, <2>2, <2>4
<1>10. Parsing(C, S, f)'
  <2> SUFFICES ASSUME pc' = "parse"
               PROVE  /\ len' >= FrameMin /\ frameLen' = S[f] - Begin(S, f)
                      /\ S[f] + len' <= q + (n + 1)
                      /\ InCopy(data', offset', len', C, S[f])
                      /\ Pending(out') => FrameMin + 4 * lastRepeat' <= len'
    BY <1>3, <1>4 DEF Parsing
  <2>1. Parsing(C, S, f) /\ pc = "parse"
    BY <1>3 DEF Going
  <2>2. len \in Nat
    BY DEF TypesInv, TypeOK
  <2>3. s + len <= q + n
    BY <1>4, <1>8, <2>1 DEF Parsing
  <2>4. s + len <= q + (n + 1)
    BY <2>2, <2>3
  <2> QED
    BY <1>3, <1>8, <2>1, <2>4 DEF Parsing
<1>11. Ending(C, S, f)'
  BY <1>3 DEF Ending
<1> QED
  BY <1>3, <1>4, <1>7, <1>9, <1>10, <1>11 DEF Going

\* The task looks at the ring: it waits for more, or copies the ring and begins with the
\* leader of frame f.
LEMMA CallbackRound ==
  ASSUME TypesInv, way = "callback",
         NEW C, NEW S, Laid(frames, C, S), NEW f \in 1 .. Len(frames), Going(C, S, f),
         Round, ~spoilt'
  PROVE  Going(C, S, f)'
<1>1. /\ pc = "wait" /\ status = "recving" /\ ring \in Seq(Int) /\ air \in Seq(Int)
      /\ UNCHANGED <<frames, air>> /\ status' \in {"recving", "finish"}
      /\ status' = "finish" => air = <<>>
  BY DEF Round, TypesInv
<1>2. PICK n \in Nat, q \in Nat, c \in Nat, s \in Nat, rep \in Nat :
        n = Len(ring) /\ q = Begin(S, f) /\ c = Len(C) /\ s = S[f] /\ rep = frames[f].repeat
  <2>1. Len(ring) \in Nat
    BY <1>1
  <2>2. Begin(S, f) \in Nat
    BY BeginIs
  <2>3. Len(C) \in Nat /\ S[f] \in Nat /\ frames[f].repeat \in Nat
    BY PlacedTypes
  <2> QED
    BY <2>1, <2>2, <2>3
<1>3. q <= s /\ s + 2 <= q + FrameMin
  BY <1>2, BeginIs
<1>4. s + FrameMin + 4 * rep + 1 <= c
  BY <1>2 DEF Laid, Placed
<1>5. /\ Right(out, frames, f) /\ Received(C, q) /\ Progress(S, f)
  BY <1>2 DEF Going
<1>6. air = <<>> => q + n = c
  <2>1. q + n + Len(air) = c
    BY <1>2, <1>5 DEF Received
  <2> QED
    BY <2>1
<1>7. CASE UNCHANGED <<lastTotal, lastRepeat, ring, taskVars, spoilt, out>> /\ status' = "recving"
  <2>1. UNCHANGED <<lastRepeat, ring, air, pc, out>>
    BY <1>1, <1>7 DEF taskVars
  <2>2. Received(C, q)' /\ Right(out, frames, f)' /\ Progress(S, f)'
    BY <1>1, <1>5, <2>1 DEF Received, Progress
  <2>3. Parsing(C, S, f)' /\ Ending(C, S, f)'
    BY <1>1, <1>7, <2>1 DEF Parsing, Ending
  <2> QED
    BY <1>1, <1>2, <1>7, <2>1, <2>2, <2>3 DEF Going
<1>8. CASE SyncBegins /\ (n >= FrameMin \/ status' = "finish")
  <2>1. InCopy(Copied(ring), 0, n, C, q)
    <3> SUFFICES ASSUME NEW i \in 0 .. n - 1
                 PROVE  0 + i \in DOMAIN Copied(ring) /\ Copied(ring)[0 + i] = C[q + i + 1]
      BY DEF InCopy
    <3>1. i + 1 \in 1 .. n /\ q + (i + 1) = q + i + 1 /\ 0 + i = i
      OBVIOUS
    <3>2. ring[i + 1] = C[q + i + 1]
      BY <1>2, <1>5, <3>1 DEF Received
    <3> QED
      BY <1>2, <3>1, <3>2 DEF Copied
  <2>2. s + 2 <= q + n
    <3>1. CASE n >= FrameMin
      BY <1>3, <3>1, Sizes
    <3>2. CASE status' = "finish"
      <4>1. q + n = c
        BY <1>1, <1>6, <3>2
      <4> QED
        BY <1>4, <4>1, Sizes
    <3> QED
      BY <1>8, <3>1, <3>2
  <2>3. PICK h \in Nat : h = s - q
    BY <1>3
  <2>4. ASSUME NEW b \in Junk
        PROVE  Heads(Copied(ring), 0, n, b) # {} /\ Min(Heads(Copied(ring), 0, n, b)) = h
    <3>1. PICK d : d = Copied(ring)
      OBVIOUS
    <3>2. InCopy(d, 0, n, C, Begin(S, f)) /\ S[f] + 2 <= Begin(S, f) + n /\ S[f] - Begin(S, f) = h
      BY <1>2, <2>1, <2>2, <2>3, <3>1
    <3>3. Heads(d, 0, n, b) # {} /\ Min(Heads(d, 0, n, b)) = S[f] - Begin(S, f)
      BY <3>2, HeadFound
    <3> QED
      BY <3>1, <3>2, <3>3
  <2>5. /\ Continue("parse", n - h >= FrameMin, Copied(ring), h, n - h, h)
        /\ UNCHANGED <<lastRepeat, ring, spoilt, out>>
    <3>1. ~spoilt'
      OBVIOUS
    <3>2. PICK b, heads :
            /\ b \in Junk /\ heads = Heads(Copied(ring), 0, n, b)
            /\ \/ heads = {}
               \/ /\ Continue("parse", n - Min(heads) >= FrameMin, Copied(ring),
                              Min(heads), n - Min(heads), Min(heads))
                  /\ UNCHANGED <<lastRepeat, ring, spoilt, out>>
      BY <1>2, <1>8, <3>1 DEF SyncBegins
    <3> QED
      BY <2>4, <3>2
  <2>6. Received(C, q)' /\ Right(out, frames, f)' /\ Progress(S, f)'
    BY <1>1, <1>5, <2>5 DEF Received, Progress
  <2>7. CASE n - h >= FrameMin
    <3>1. /\ pc' = "parse" /\ data' = Copied(ring) /\ offset' = h /\ len' = n - h /\ frameLen' = h
      BY <2>5, <2>7 DEF Continue
    <3>2. PICK l \in Nat : l = n - h /\ s + l = q + n
      BY <2>2, <2>3
    <3>3. InCopy(Copied(ring), h, l, C, s)
      <4> SUFFICES ASSUME NEW i \in 0 .. l - 1
                   PROVE  h + i \in DOMAIN Copied(ring) /\ Copied(ring)[h + i] = C[s + i + 1]
        BY DEF InCopy
      <4>1. h + i \in 0 .. n - 1 /\ 0 + (h + i) = h + i /\ q + (h + i) + 1 = s + i + 1
        BY <2>3, <3>2
      <4>2. 0 + (h + i) \in DOMAIN Copied(ring) /\ Copied(ring)[0 + (h + i)] = C[q + (h + i) + 1]
        BY <2>1, <4>1 DEF InCopy
      <4> QED
        BY <4>1, <4>2
    <3>4. ASSUME Pending(out) PROVE FrameMin + 4 * lastRepeat <= l
      <4>1. s + FrameMin + 4 * lastRepeat <= q + n
        BY <1>2, <1>5, <3>4 DEF Progress
      <4>2. lastRepeat \in Int
        BY DEF TypesInv, TypeOK
      <4> QED
        BY <3>2, <4>1, <4>2, Sizes
    <3>5. Parsing(C, S, f)'
      <4>1. /\ len' >= FrameMin /\ frameLen' = S[f] - Begin(S, f)
            /\ S[f] + len' <= Begin(S, f) + Len(ring')
        BY <1>2, <2>3, <2>5, <2>7, <3>1, <3>2
      <4>2. InCopy(data', offset', len', C, S[f])
        BY <1>2, <3>1, <3>2, <3>3
      <4>3. Pending(out') => FrameMin + 4 * lastRepeat' <= len'
        BY <2>5, <3>1, <3>2, <3>4
      <4> QED
        BY <4>1, <4>2, <4>3 DEF Parsing
    <3>6. Ending(C, S, f)'
      <4> SUFFICES ASSUME status' = "finish" PROVE S[f] + len' = Len(C) /\ air' = <<>>
        BY <3>1 DEF Ending
      <4>1. s + l = c
        BY <1>1, <1>6, <3>2
      <4> QED
        BY <1>1, <1>2, <3>1, <3>2, <4>1
    <3> QED
      BY <1>1, <1>2, <2>6, <3>1, <3>5, <3>6 DEF Going
  <2>8. CASE ~(n - h >= FrameMin)
    <3>1. pc' = "wait"
      BY <2>5, <2>8 DEF Continue
    <3>2. status' # "finish"
      <4> SUFFICES ASSUME status' = "finish" PROVE FALSE
        OBVIOUS
      <4>1. q + n = c
        BY <1>1, <1>6
      <4> QED
        BY <1>4, <2>3, <2>8, <4>1, Sizes
    <3>3. Parsing(C, S, f)' /\ Ending(C, S, f)'
      BY <3>1, <3>2 DEF Parsing, Ending
    <3> QED
      BY <1>1, <1>2, <2>6, <3>1, <3>3 DEF Going
  <2> QED
    BY <2>7, <2>8
<1> QED
  <2>1. ~(way = "queue")
    OBVIOUS
  <2>2. CASE TooEarly(n) /\ status' = "recving"
    BY <1>2, <1>7, <2>1, <2>2 DEF Round
  <2>3. CASE ~(TooEarly(n) /\ status' = "recving")
    <3>1. SyncBegins
      BY <1>2, <2>1, <2>3 DEF Round
    <3>2. n >= FrameMin \/ status' = "finish"
      BY <1>1, <2>3, Sizes DEF TooEarly
    <3> QED
      BY <1>8, <3>1, <3>2
  <2> QED
    BY <2>2, <2>3

\* Discarding n codes.
LEMMA Discarded ==
  ASSUME NEW r \in Seq(Int), NEW n \in Nat, n < Len(r)
  PROVE  /\ Len(Discard(r, n)) = Len(r) - n
         /\ \A i \in 1 .. Len(r) - n : Discard(r, n)[i] = r[n + i]
<1>1. Discard(r, n) = SubSeq(r, n + 1, Len(r))
  BY DEF Discard
<1> QED
  BY <1>1

\* The task parses frame f of its copy.  If the next one has begun, f is finished, the
\* ring gives up its codes and the task goes on with the next; at the end of the reception
\* the last one is finished; otherwise the task waits for more of f.
LEMMA CallbackParse ==
  ASSUME TypesInv, NEW C, NEW S, Laid(frames, C, S), NEW f \in 1 .. Len(frames), Going(C, S, f),
         SyncParse
  PROVE  \/ Going(C, S, f)'
         \/ f + 1 \in 1 .. Len(frames) /\ Going(C, S, f + 1)'
         \/ Done'
<1>1. /\ pc = "parse" /\ ring \in Seq(Int) /\ air \in Seq(Int) /\ out \in Seq(Report)
      /\ offset \in Nat /\ len \in Nat /\ lastRepeat \in Nat \cup {-1} /\ frames \in Seq(Nec)
      /\ UNCHANGED <<way, frames, air, spoilt, status>>
  BY DEF SyncParse, TypesInv, TypeOK
<1>2. PICK n \in Nat, q \in Nat, c \in Nat, s \in Nat, rep \in Nat, N \in Nat :
        /\ n = Len(ring) /\ q = Begin(S, f) /\ c = Len(C) /\ s = S[f] /\ rep = frames[f].repeat
        /\ N = Len(frames)
  <2>1. Len(ring) \in Nat /\ Len(frames) \in Nat
    BY <1>1
  <2>2. Begin(S, f) \in Nat
    BY BeginIs
  <2>3. Len(C) \in Nat /\ S[f] \in Nat /\ frames[f].repeat \in Nat
    BY PlacedTypes
  <2> QED
    BY <2>1, <2>2, <2>3
<1>3. PICK F \in Nat : F = FrameMin /\ F >= 10
  BY Sizes
<1>4. q <= s /\ s + F + 4 * rep + 1 <= c
  BY <1>2, <1>3, BeginIs DEF Laid, Placed
<1>5. /\ status \in {"recving", "finish"} /\ Right(out, frames, f) /\ Received(C, q)
  BY <1>2 DEF Going
<1>6. /\ len >= F /\ frameLen = s - q /\ s + len <= q + n /\ InCopy(data, offset, len, C, s)
      /\ Pending(out) => F + 4 * lastRepeat <= len
      /\ Pending(out) => out[Len(out)].nec.repeat = lastRepeat
  BY <1>1, <1>2, <1>3 DEF Going, Parsing, Progress
<1>7. status = "finish" => s + len = c /\ air = <<>>
  BY <1>2 DEF Going, Ending
<1>8. q + n + Len(air) = c /\ (\A i \in 1 .. n : ring[i] = C[q + i])
      /\ \A i \in 1 .. Len(air) : air[i] = C[q + n + i]
  BY <1>2, <1>5 DEF Received
<1>b. len \in Nat /\ len >= F /\ s + len <= q + n /\ q + n <= c
  <2>1. Len(air) \in Nat /\ q + n + Len(air) = c
    BY <1>1, <1>8
  <2>2. q + n <= c
    BY <2>1
  <2> QED
    BY <1>1, <1>6, <2>2
<1>9. PICK b, report, from, left, heads, skip, finish :
        b \in Junk /\ ParseWith(b, report, from, left, heads, skip, finish)
  BY ParseRound
<1>10. PICK r \in 0 .. rep : /\ F + 4 * r <= len
                             /\ r < rep => len < F + 4 * r + 4
                             /\ report = [len |-> F + 4 * r, nec |-> Arrived(frames[f], r)]
  <2>1. S[f] + len <= Len(C) /\ len >= FrameMin /\ InCopy(data, offset, len, C, S[f])
    <3>1. s + len <= c
      BY <1>b
    <3> QED
      BY <1>2, <1>3, <1>6, <3>1
  <2>2. PICK x \in 0 .. frames[f].repeat :
           /\ FrameMin + 4 * x <= len
           /\ x < frames[f].repeat => len < FrameMin + 4 * x + 4
           /\ ParserSingle(data, offset, len, b) = [len |-> FrameMin + 4 * x, nec |-> Arrived(frames[f], x)]
    <3>1. Holds(frames, C, S, f, data, offset, len)
      BY <1>1, <2>1 DEF Holds
    <3> QED
      BY <3>1, ParsesFrame
  <2> QED
    BY <1>2, <1>3, <1>9, <2>2 DEF ParseWith
<1>a. /\ len \in Nat /\ r \in Nat /\ r <= rep /\ F + 4 * r <= len
      /\ r < rep => len < F + 4 * r + 4
  BY <1>1, <1>10
<1>11. r \in Nat /\ report.len = F + 4 * r /\ report.nec = Arrived(frames[f], r) /\ report.nec.repeat = r
  BY <1>10 DEF Arrived
<1>12. from \in Nat /\ left \in Nat /\ from = offset + (F + 4 * r) /\ left = len - (F + 4 * r)
  BY <1>1, <1>9, <1>10, <1>11 DEF ParseWith
<1>13. CASE left > 4
  <2>1. r = rep
    BY <1>a, <1>12, <1>13
  <2>2. f # N
    <3>1. f = N => c = s + F + 4 * rep + 1
      BY <1>2, <1>3 DEF Laid, Placed
    <3> QED
      BY <1>b, <1>12, <1>13, <2>1, <3>1
  <2>3. f + 1 \in 1 .. N /\ f \in 1 .. N - 1 /\ f + 1 # 1
    BY <1>2, <2>2
  <2>4. PICK t \in Nat : t = S[f + 1] /\ t = s + F + 4 * rep + 2 /\ Begin(S, f + 1) = t - 2
    <3>1. S[f + 1] = s + F + 4 * rep + 2
      BY <1>2, <1>3, <2>3 DEF Laid, Placed
    <3> QED
      BY <2>3, <3>1 DEF Begin
  <2>5. InCopy(data, from, left, C, t - 2)
    <3> SUFFICES ASSUME NEW i \in 0 .. left - 1
                 PROVE  from + i \in DOMAIN data /\ data[from + i] = C[t - 2 + i + 1]
      BY DEF InCopy
    <3>1. PICK j \in 0 .. len - 1 : j = F + 4 * r + i
      BY <1>1, <1>12
    <3>2. offset + j = from + i /\ s + j + 1 = t - 2 + i + 1
      BY <1>1, <1>12, <2>1, <2>4, <3>1
    <3>3. offset + j \in DOMAIN data /\ data[offset + j] = C[s + j + 1]
      BY <1>6 DEF InCopy
    <3> QED
      BY <3>2, <3>3
  <2>6. heads # {} /\ skip = 2 /\ finish = TRUE
    <3>1. heads = Heads(data, from, left, b)
      BY <1>9, <1>13 DEF ParseWith
    <3>2. S[f + 1] + 2 <= Begin(S, f + 1) + left /\ S[f + 1] - Begin(S, f + 1) = 2
      BY <1>12, <1>13, <2>4
    <3>3. InCopy(data, from, left, C, Begin(S, f + 1))
      BY <2>4, <2>5
    <3>4. PICK g \in 1 .. Len(frames) : g = f + 1
      BY <1>2, <2>3
    <3>5. heads # {} /\ Min(heads) = 2
      BY <1>12, <3>1, <3>2, <3>3, <3>4, HeadFound
    <3> QED
      BY <1>9, <3>5 DEF ParseWith, FrameIsOver
  <2>7. PICK d \in Nat : d = s - q + (F + 4 * r) /\ d < n /\ q + d = t - 2
    BY <1>4, <1>a, <1>b, <1>12, <1>13, <2>1, <2>4
  <2>8. ring' = Discard(ring, d)
    <3>1. frameLen + report.len = d
      BY <1>4, <1>6, <1>11, <2>7
    <3> QED
      BY <1>9, <2>6, <3>1 DEF ParseWith
  <2>9. Len(ring') = n - d /\ \A i \in 1 .. n - d : ring'[i] = ring[d + i]
    <3>1. ring \in Seq(Int) /\ n = Len(ring) /\ d < Len(ring)
      BY <1>1, <1>2, <2>7
    <3> QED
      BY <2>8, <3>1, Discarded
  <2>10. Received(C, t - 2)'
    <3>1. t - 2 + (n - d) + Len(air') = c
      <4>1. PICK k \in Nat : k = Len(air) /\ k = Len(air')
        BY <1>1
      <4>2. q + n + k = c
        BY <1>8, <4>1
      <4>3. t - 2 + (n - d) + k = c
        BY <2>7, <4>2
      <4> QED
        BY <4>1, <4>3
    <3>2. ASSUME NEW i \in 1 .. n - d PROVE ring'[i] = C[t - 2 + i]
      <4>1. d + i \in 1 .. n /\ q + (d + i) = t - 2 + i
        BY <2>7
      <4> QED
        BY <1>8, <2>9, <4>1
    <3>3. ASSUME NEW i \in 1 .. Len(air) PROVE air'[i] = C[t - 2 + (n - d) + i]
      <4>1. q + n + i = t - 2 + (n - d) + i
        BY <1>1, <2>7
      <4> QED
        BY <1>1, <1>8, <4>1
    <3> QED
      BY <1>1, <1>2, <2>9, <3>1, <3>2, <3>3 DEF Received
  <2>11. Right(out', frames, f + 1) /\ ~Pending(out')
    <3>1. out' = Append(out, [finish |-> TRUE, nec |-> Arrived(frames[f], r)])
      BY <1>9, <1>11, <2>6 DEF ParseWith, Reports
    <3>2. r = frames[f].repeat
      BY <1>2, <2>1
    <3> QED
      BY <1>1, <1>5, <3>1, <3>2, LastReport
  <2>12. PICK l \in Nat : l = left - 2
    BY <1>12, <1>13
  <2>13. Continue("parse", l >= FrameMin, data, from + 2, l, 2)
    BY <1>9, <2>6, <2>12 DEF ParseWith
  <2>14. Progress(S, f + 1)'
    BY <2>11 DEF Progress
  <2>15. Parsing(C, S, f + 1)' /\ Ending(C, S, f + 1)' /\ pc' \in {"wait", "parse"}
    <3>1. CASE l >= FrameMin
      <4>1. pc' = "parse" /\ data' = data /\ offset' = from + 2 /\ len' = l /\ frameLen' = 2
        BY <2>13, <3>1 DEF Continue
      <4>2. t + l <= t - 2 + (n - d)
        BY <1>b, <1>12, <2>4, <2>7, <2>12
      <4>3. InCopy(data, from + 2, l, C, t)
        <5> SUFFICES ASSUME NEW i \in 0 .. l - 1
                     PROVE  from + 2 + i \in DOMAIN data /\ data[from + 2 + i] = C[t + i + 1]
          BY DEF InCopy
        <5>1. PICK j \in 0 .. left - 1 : j = i + 2
          <6>1. left \in Nat /\ l = left - 2
            BY <1>12, <2>12
          <6>2. i + 2 \in 0 .. left - 1
            BY <6>1
          <6> QED
            BY <6>2
        <5>2. from + j = from + 2 + i /\ t - 2 + j + 1 = t + i + 1
          BY <1>12, <5>1
        <5>3. from + j \in DOMAIN data /\ data[from + j] = C[t - 2 + j + 1]
          BY <2>5 DEF InCopy
        <5> QED
          BY <5>2, <5>3
      <4>4. t - (t - 2) = 2
        OBVIOUS
      <4>5. Parsing(C, S, f + 1)'
        BY <2>4, <2>9, <2>11, <3>1, <4>1, <4>2, <4>3, <4>4 DEF Parsing
      <4>6. Ending(C, S, f + 1)'
        <5>1. status = "finish" => t + l = c /\ air = <<>>
          BY <1>1, <1>7, <1>12, <2>1, <2>4, <2>12
        <5> QED
          BY <1>1, <1>2, <2>4, <4>1, <5>1 DEF Ending
      <4> QED
        BY <4>1, <4>5, <4>6
    <3>2. CASE ~(l >= FrameMin)
      <4>1. pc' = "wait"
        BY <2>13, <3>2 DEF Continue
      <4>2. status # "finish"
        <5> SUFFICES ASSUME status = "finish" PROVE FALSE
          OBVIOUS
        <5>1. PICK x \in Nat : t + F + 4 * x + 1 <= c
          <6>1. PICK g \in 1 .. Len(frames) : g = f + 1
            BY <1>2, <2>3
          <6>2. S[g] + FrameMin + 4 * frames[g].repeat + 1 <= Len(C)
            BY DEF Laid, Placed
          <6>3. frames[g].repeat \in Nat
            BY PlacedTypes
          <6> QED
            BY <1>2, <1>3, <2>4, <6>1, <6>2, <6>3
        <5>2. s + len = c
          BY <1>7
        <5> QED
          BY <1>b, <1>3, <1>12, <2>1, <2>4, <2>12, <3>2, <5>1, <5>2
      <4> QED
        BY <1>1, <4>1, <4>2 DEF Parsing, Ending
    <3> QED
      BY <3>1, <3>2
  <2>16. Going(C, S, f + 1)'
    <3>1. Received(C, Begin(S, f + 1))'
      BY <2>4, <2>10
    <3> QED
      BY <1>1, <1>5, <2>11, <2>14, <2>15, <3>1 DEF Going
  <2> QED
    BY <1>2, <2>3, <2>16
<1>14. CASE left <= 4
  <2>1. heads = {} /\ skip = 0 /\ finish = (status = "finish")
    <3>1. heads = {} /\ skip = 0
      BY <1>9, <1>12, <1>14 DEF ParseWith
    <3> QED
      BY <1>9, <1>14, <3>1 DEF ParseWith, FrameIsOver
  <2>2. pc' = "wait" /\ ring' = ring
    <3>1. ~(left - skip >= FrameMin)
      BY <1>3, <1>12, <1>14, <2>1
    <3> QED
      BY <1>9, <2>1, <3>1 DEF ParseWith, Continue
  <2>3. CASE status = "finish"
    <3>1. s + len = c
      BY <1>7, <2>3
    <3>2. r = rep
      BY <1>4, <1>a, <3>1
    <3>3. f = N
      <4> SUFFICES ASSUME f # N PROVE FALSE
        OBVIOUS
      <4>1. PICK g \in 1 .. Len(frames) : g = f + 1 /\ f \in 1 .. Len(frames) - 1
        BY <1>2
      <4>2. S[f + 1] = s + F + 4 * rep + 2
        BY <1>2, <1>3, <4>1 DEF Laid, Placed
      <4>3. S[g] + F + 4 * frames[g].repeat + 1 <= c
        BY <1>2, <1>3 DEF Laid, Placed
      <4>4. PICK x \in Nat : x = frames[g].repeat
        BY PlacedTypes
      <4>5. s + F + 4 * rep + 2 + F + 4 * x + 1 <= c
        BY <4>1, <4>2, <4>3, <4>4
      <4> QED
        BY <1>b, <1>3, <1>12, <1>14, <3>1, <3>2, <4>5
    <3>4. out' = Append(out, [finish |-> TRUE, nec |-> Arrived(frames[f], r)])
      BY <1>9, <1>11, <2>1, <2>3 DEF ParseWith, Reports
    <3>5. r = frames[f].repeat
      BY <1>2, <3>2
    <3>6. Right(out', frames, f + 1)
      BY <1>1, <1>5, <3>4, <3>5, LastReport
    <3> QED
      BY <1>1, <1>2, <1>7, <2>2, <2>3, <3>3, <3>6 DEF Done
  <2>4. CASE status # "finish"
    <3>1. Received(C, Begin(S, f))'
      BY <1>1, <1>2, <1>5, <2>2 DEF Received
    <3>2. Parsing(C, S, f)' /\ Ending(C, S, f)'
      BY <1>1, <2>2, <2>4 DEF Parsing, Ending
    <3>3. Right(out', frames, f) /\ Progress(S, f)'
      <4>1. CASE Reports(report, finish)
        <5>1. /\ out' = Append(out, [finish |-> FALSE, nec |-> Arrived(frames[f], r)])
              /\ lastRepeat' = r /\ lastRepeat # r
          BY <1>9, <1>11, <2>1, <2>4, <4>1 DEF ParseWith, Reports, RepeatAfter
        <5>2. ASSUME Pending(out) PROVE out[Len(out)].nec.repeat < r
          <6>1. PICK k \in Nat : k = lastRepeat /\ k = out[Len(out)].nec.repeat /\ k <= rep
            <7>1. f \in Int
              BY <1>2
            <7> QED
              BY <1>1, <1>2, <1>5, <1>6, <5>2, <7>1, PendingIsCurrent
          <6>2. F + 4 * k <= len /\ k # r
            BY <1>6, <5>1, <5>2, <6>1
          <6>3. k < r
            <7>1. k <= rep
              BY <6>1
            <7>2. CASE r = rep
              BY <1>a, <6>2, <7>1, <7>2
            <7>3. CASE r < rep
              <8>1. len < F + 4 * r + 4
                BY <1>a, <7>3
              <8>2. F + 4 * k < F + 4 * r + 4
                BY <1>a, <6>2, <8>1
              <8> QED
                BY <1>a, <6>2, <8>2
            <7> QED
              BY <1>a, <7>2, <7>3
          <6> QED
            BY <6>1, <6>3
        <5>3. r \in 0 .. frames[f].repeat
          BY <1>2
        <5>4. Right(out', frames, f) /\ out'[Len(out')].nec.repeat = r
          <6>1. out \in Seq(Report) /\ frames \in Seq(Nec) /\ Right(out, frames, f)
            BY <1>1, <1>5
          <6>2. Pending(out) => out[Len(out)].nec.repeat < r
            BY <5>2
          <6> QED
            BY <5>1, <5>3, <6>1, <6>2, ReportOnTheWay, Zenon
        <5>5. s + F + 4 * r <= q + n
          BY <1>a, <1>b
        <5>6. Progress(S, f)'
          BY <1>2, <1>3, <2>2, <5>1, <5>4, <5>5 DEF Progress
        <5> QED
          BY <5>4, <5>6
      <4>2. CASE ~Reports(report, finish)
        <5>1. out' = out /\ lastRepeat' = lastRepeat
          BY <1>9, <4>2 DEF ParseWith
        <5> QED
          BY <1>5, <2>2, <5>1 DEF Going, Progress
      <4> QED
        BY <4>1, <4>2
    <3> QED
      BY <1>1, <1>5, <2>2, <2>4, <3>1, <3>2, <3>3 DEF Going
  <2> QED
    BY <2>3, <2>4
<1> QED
  BY <1>12, <1>13, <1>14

\* Only a new reception is clean again.
LEMMA StaysClean ==
  ASSUME Edge \/ Round \/ SyncParse \/ Finish \/ QueueParse, ~spoilt'
  PROVE  ~spoilt /\ UNCHANGED <<way, frames>>
<1>1. CASE Edge
  BY <1>1, Zenon DEF Edge
<1>2. CASE Round
  BY <1>2, Zenon DEF Round, SyncBegins
<1>3. CASE SyncParse
  BY <1>3, Zenon DEF SyncParse
<1>4. CASE Finish
  BY <1>4, Zenon DEF Finish
<1>5. CASE QueueParse
  <2>1. PICK b, heads, report, off, more : b \in Junk /\ QueueWith(b, heads, report, off, more)
    BY <1>5, QueueRound
  <2>2. UNCHANGED <<way, frames>>
    BY <1>5, Zenon DEF QueueParse
  <2>3. spoilt' = spoilt \/ spoilt' = TRUE
    BY <2>1 DEF QueueWith
  <2> QED
    BY <2>2, <2>3
<1> QED
  BY <1>1, <1>2, <1>3, <1>4, <1>5

\* A new message in the clear.
LEMMA SentInTheClear ==
  ASSUME CodesClear, Sends, ~spoilt'
  PROVE  \E C, S : Laid(frames', C, S) /\ Waiting(C)'
<1>1. PICK m \in Messages, d \in Drifts, noise \in Noises, s \in Spoils :
        frames' = m /\ air' = OnAir(m, d, noise, s) /\ spoilt' = (s # 0)
  BY DEF Sends
<1>2. s = 0
  BY <1>1
<1>3. PICK C, S : Laid(m, C, S) /\ Follows(OnAir(m, d, noise, 0), C)
  BY <1>2, LaidOnAir
<1>4. pc' = "wait" /\ status' = "idle" /\ out' = <<>>
  BY DEF Sends, taskVars
<1>5. Laid(frames', C, S) /\ Waiting(C)'
  BY <1>1, <1>2, <1>3, <1>4 DEF Waiting
<1> QED
  BY <1>5

LEMMA CallbackStep ==
  ASSUME CodesClear
  PROVE  TypesInv /\ CallbackInv /\ [Next]_vars => CallbackInv'
<1> SUFFICES ASSUME TypesInv, CallbackInv, [Next]_vars, way' = "callback", ~spoilt'
             PROVE  Done' \/ Underway'
  BY DEF CallbackInv
<1>1. CASE Sends
  <2>1. PICK C, S : Laid(frames', C, S) /\ Waiting(C)'
    BY <1>1, SentInTheClear
  <2> QED
    BY <2>1 DEF Underway
<1>2. CASE UNCHANGED vars
  <2>1. /\ UNCHANGED <<frames, air, ring, status, lastRepeat, pc, data, offset, len, frameLen, out>>
        /\ UNCHANGED <<way, spoilt>>
    BY <1>2 DEF vars, taskVars
  <2>2. Done \/ Underway
    BY <2>1 DEF CallbackInv
  <2>3. CASE Done
    BY <2>1, <2>3 DEF Done
  <2>4. CASE Underway
    BY <2>1, <2>4 DEF Underway, Waiting, Going, Received, Progress, Parsing, Ending
  <2> QED
    BY <2>2, <2>3, <2>4
<1>3. CASE Edge \/ Round \/ SyncParse \/ Finish \/ QueueParse
  <2>1. ~spoilt /\ way = "callback" /\ frames' = frames
    BY <1>3, StaysClean
  <2>2. CASE Done
    <3>1. ~Edge /\ ~Round /\ ~SyncParse /\ ~QueueParse
      BY <2>2 DEF Done, Edge, Round, SyncParse, QueueParse
    <3>2. Finish
      BY <1>3, <3>1
    <3>3. pc' = "wait" /\ status' = "idle" /\ UNCHANGED <<air, out>>
      BY <2>1, <2>2, <3>2 DEF Finish, Idle, taskVars, Done
    <3> QED
      BY <2>1, <2>2, <3>3 DEF Done
  <2>3. ASSUME NEW C, NEW S, Laid(frames, C, S), Waiting(C) PROVE Underway'
    <3>1. ~Round /\ ~SyncParse /\ ~Finish /\ ~QueueParse
      BY <2>3 DEF Waiting, Round, SyncParse, Finish, QueueParse
    <3>2. Edge
      BY <1>3, <3>1
    <3>3. Going(C, S, 1)'
      BY <2>3, <3>2, FirstEdge
    <3>4. 1 \in 1 .. Len(frames)
      BY <2>3 DEF Laid, Placed
    <3> QED
      BY <2>1, <2>3, <3>3, <3>4 DEF Underway
  <2>4. ASSUME NEW C, NEW S, Laid(frames, C, S), NEW f \in 1 .. Len(frames), Going(C, S, f)
        PROVE  Done' \/ Underway'
    <3>1. CASE Edge
      <4>1. Going(C, S, f)'
        BY <2>4, <3>1, NextEdge
      <4> QED
        BY <2>1, <2>4, <4>1 DEF Underway
    <3>2. CASE Round
      <4>1. Going(C, S, f)'
        BY <2>1, <2>4, <3>2, CallbackRound
      <4> QED
        BY <2>1, <2>4, <4>1 DEF Underway
    <3>3. CASE SyncParse
      <4>1. Going(C, S, f)' \/ (f + 1 \in 1 .. Len(frames) /\ Going(C, S, f + 1)') \/ Done'
        BY <2>4, <3>3, CallbackParse
      <4>2. CASE Going(C, S, f)'
        BY <2>1, <2>4, <4>2 DEF Underway
      <4>3. CASE f + 1 \in 1 .. Len(frames) /\ Going(C, S, f + 1)'
        BY <2>1, <2>4, <4>3 DEF Underway
      <4> QED
        BY <4>1, <4>2, <4>3
    <3>4. ~Finish /\ ~QueueParse
      BY <2>4 DEF Going, Ending, Finish, QueueParse
    <3> QED
      BY <1>3, <3>1, <3>2, <3>3, <3>4
  <2>5. Done \/ Underway
    BY <2>1 DEF CallbackInv
  <2> QED
    BY <2>2, <2>3, <2>4, <2>5 DEF Underway
<1> QED
  BY <1>1, <1>2, <1>3 DEF Next

LEMMA CallbackAlways ==
  ASSUME CodesClear
  PROVE  Spec => [](TypesInv /\ CallbackInv)
<1>1. Init => TypesInv /\ CallbackInv
  BY TypesInit, CallbackInit
<1>2. TypesInv /\ CallbackInv /\ [Next]_vars => TypesInv' /\ CallbackInv'
  BY TypesStep, CallbackStep
<1> QED
  BY <1>1, <1>2, PTL DEF Spec

\* While a reception is clean, the reports are right.
LEMMA ReportsRight ==
  ASSUME TypesInv, CallbackInv, way = "callback", ~spoilt
  PROVE  \E f \in Int : Right(out, frames, f) /\ (Over => f = Len(frames) + 1)
<1>1. CASE Done
  <2>1. Len(frames) + 1 \in Int
    BY DEF TypesInv
  <2> QED
    BY <1>1, <2>1 DEF Done
<1>2. ASSUME NEW C, NEW S, Laid(frames, C, S), Waiting(C) PROVE Right(out, frames, 1) /\ ~Over
  <2>1. Right(out, frames, 1)
    BY <1>2, RightAtFirst DEF Waiting
  <2>2. Len(C) \in Nat /\ Len(air) = Len(C) + 1
    BY <1>2 DEF Laid, Placed, Waiting, Follows
  <2> QED
    BY <2>1, <2>2 DEF Over
<1>3. ASSUME NEW C, NEW S, Laid(frames, C, S), NEW f \in 1 .. Len(frames), Going(C, S, f)
      PROVE  Right(out, frames, f) /\ ~Over
  BY <1>3 DEF Going, Over
<1> QED
  BY <1>1, <1>2, <1>3 DEF CallbackInv, Underway

\* Behind a callback, a clean reception is reported frame by frame: every frame is finished
\* once, in order and with all of its repeats, whenever the task looked at the ring, for any
\* messages, noise and drift that the tolerances cover.
THEOREM FramesFinished ==
  ASSUME CodesClear
  PROVE  Spec => []EveryFrameFinished
<1>1. TypesInv /\ CallbackInv => EveryFrameFinished
  <2> SUFFICES ASSUME TypesInv, CallbackInv, way = "callback", Over, ~spoilt
               PROVE  /\ Cardinality(FinishedIn(Len(out))) = Len(frames)
                      /\ \A i \in DOMAIN out : out[i].finish => out[i].nec = frames[FrameOf(i)]
    BY DEF EveryFrameFinished
  <2>1. Right(out, frames, Len(frames) + 1)
    BY ReportsRight
  <2>2. FinishedIn(Len(out)) = Finished(out, Len(out))
    BY DEF FinishedIn, Finished
  <2>3. Cardinality(Finished(out, Len(out))) = Len(frames)
    <3>1. Len(frames) \in Nat
      BY DEF TypesInv
    <3> QED
      BY <2>1, <3>1 DEF Right
  <2>4. ASSUME NEW i \in DOMAIN out, out[i].finish PROVE out[i].nec = frames[FrameOf(i)]
    <3>1. i \in 1 .. Len(out)
      BY DEF TypesInv
    <3>2. FrameOf(i) = About(out, i)
      BY DEF FrameOf, FinishedIn, About, Finished
    <3> QED
      BY <2>1, <2>4, <3>1, <3>2 DEF Right, RightAt
  <2> QED
    BY <2>2, <2>3, <2>4
<1> QED
  BY <1>1, CallbackAlways, PTL

\* What is reported on the way is true: the address and the command of the frame that is
\* sent, no more repeats than it has and more than were reported before.
THEOREM ProgressIsTrue ==
  ASSUME CodesClear
  PROVE  Spec => []ProgressTrue
<1>1. TypesInv /\ CallbackInv => ProgressTrue
  <2> SUFFICES ASSUME TypesInv, CallbackInv, way = "callback", ~spoilt, NEW i \in DOMAIN out,
                      NEW f, f = FrameOf(i), NEW r, r = out[i].nec
               PROVE  /\ f \in DOMAIN frames
                      /\ r.addr = frames[f].addr /\ r.cmd = frames[f].cmd
                      /\ r.repeat <= frames[f].repeat
                      /\ i > 1 /\ ~out[i - 1].finish /\ ~out[i].finish => out[i - 1].nec.repeat < r.repeat
    BY Zenon DEF ProgressTrue
  <2>1. i \in 1 .. Len(out)
    BY DEF TypesInv
  <2>2. f = About(out, i)
    BY DEF FrameOf, FinishedIn, About, Finished
  <2>3. RightAt(out, frames, i)
    BY <2>1, ReportsRight DEF Right
  <2>4. /\ f \in 1 .. Len(frames) /\ r.repeat <= frames[f].repeat
        /\ r = Arrived(frames[f], r.repeat)
        /\ i > 1 /\ ~out[i - 1].finish /\ ~out[i].finish => out[i - 1].nec.repeat < r.repeat
    BY <2>2, <2>3 DEF RightAt
  <2>5. r.addr = frames[f].addr /\ r.cmd = frames[f].cmd
    BY <2>4 DEF Arrived
  <2>6. f \in DOMAIN frames
    BY <2>4 DEF TypesInv
  <2> QED
    BY <2>4, <2>5, <2>6
<1> QED
  BY <1>1, CallbackAlways, PTL
-----------------------------------------------------------------------------
(* The queue.                                                              *)

\* The frame that was sent alone was given to the application, if it was repeated.
QueueDone ==
  /\ air = <<>> /\ pc = "wait" /\ status = "idle"
  /\ IF frames[1].repeat > 0 THEN Len(out) = 1 /\ out[1].nec = frames[1] ELSE out = <<>>

Collecting(C) ==
  /\ pc = "wait" /\ status \in {"recving", "finish"} /\ (status = "finish" => air = <<>>)
  /\ Received(C, 0) /\ out = <<>>

\* The task has copied the ring, and a last low time if there was room.
Copying(C) ==
  /\ pc = "queue" /\ status = "finish" /\ air = <<>> /\ out = <<>>
  /\ offset = 0 /\ len \in Len(C) .. Len(C) + 1 /\ InCopy(data, 0, Len(C), C, 0)

Alone == \E C, S : Laid(frames, C, S) /\ (Waiting(C) \/ Collecting(C) \/ Copying(C))

\* The inductive invariant of the queue.
QueueInv == way = "queue" /\ ~spoilt /\ Len(frames) = 1 => QueueDone \/ Alone

\* More codes do not change the first head.
LEMMA FirstHead ==
  ASSUME NEW d, NEW off \in Nat, NEW k \in Nat, NEW n \in Nat, k <= n, NEW b, NEW h \in Nat,
         Heads(d, off, k, b) # {}, Min(Heads(d, off, k, b)) = h
  PROVE  Heads(d, off, n, b) # {} /\ Min(Heads(d, off, n, b)) = h
<1> DEFINE At(i) == IsLeader(Read(d, off + i, b), Read(d, off + i + 1, b))
<1>1. \A j \in Nat : Heads(d, off, j, b) = {i \in 0 .. j - 1 : j >= 2 /\ At(i)}
  BY Zenon DEF Heads
<1> HIDE DEF At
<1>2. Heads(d, off, k, b) \subseteq Nat /\ Heads(d, off, n, b) \subseteq Nat
  BY <1>1
<1>3. h \in Heads(d, off, k, b) /\ \A i \in Heads(d, off, k, b) : h <= i
  BY <1>2, MinIs
<1>4. h \in 0 .. k - 1 /\ k >= 2 /\ At(h)
  BY <1>1, <1>3
<1>5. h \in Heads(d, off, n, b)
  BY <1>1, <1>4
<1>6. ASSUME NEW i \in Heads(d, off, n, b) PROVE h <= i
  <2>1. i \in 0 .. n - 1 /\ At(i)
    BY <1>1
  <2>2. CASE i < k
    <3>1. i \in Heads(d, off, k, b)
      BY <1>1, <1>4, <2>1, <2>2
    <3> QED
      BY <1>3, <3>1
  <2>3. CASE ~(i < k)
    BY <1>4, <2>1, <2>3
  <2> QED
    BY <2>2, <2>3
<1> QED
  BY <1>2, <1>5, <1>6, MinUnique

\* The head of the first frame.
LEMMA HeadOfTheFirst ==
  ASSUME NEW m, NEW C, NEW S, Laid(m, C, S), NEW d, NEW n \in Nat, NEW b,
         InCopy(d, 0, n, C, 0), S[1] + 2 <= n
  PROVE  Heads(d, 0, n, b) # {} /\ Min(Heads(d, 0, n, b)) = S[1]
<1>1. PICK f \in 1 .. Len(m) : f = 1
  BY DEF Laid, Placed
<1>2. PICK q \in Nat : q = Begin(S, f) /\ q = 0
  BY <1>1 DEF Begin
<1>3. PICK s \in Nat : s = S[f]
  BY PlacedTypes
<1>4. InCopy(d, q, n, C, Begin(S, f)) /\ S[f] + 2 <= Begin(S, f) + n
  <2>1. s + 2 <= q + n
    <3>1. s + 2 <= n /\ q = 0
      BY <1>1, <1>2, <1>3
    <3> QED
      BY <3>1
  <2> QED
    BY <1>2, <1>3, <2>1
<1>5. Heads(d, q, n, b) # {} /\ Min(Heads(d, q, n, b)) = S[f] - Begin(S, f)
  BY <1>4, HeadFound
<1>6. s - q = s
  <2>1. q = 0
    BY <1>2
  <2> QED
    BY <2>1
<1> QED
  BY <1>1, <1>2, <1>3, <1>5, <1>6

\* A copy of the n codes that were received, C and maybe one more.
CopyOf(m, C, S, d, n) ==
  /\ Laid(m, C, S) /\ Len(m) = 1 /\ n \in Nat /\ n \in Len(C) .. Len(C) + 1
  /\ DOMAIN d = 0 .. n - 1 /\ InCopy(d, 0, Len(C), C, 0)

\* The frame that is alone is parsed with all of its repeats.
LEMMA AloneParsed ==
  ASSUME QueueFits, NEW m, NEW C, NEW S, NEW d, NEW n, CopyOf(m, C, S, d, n), NEW b \in Junk
  PROVE  /\ Heads(d, 0, n, b) # {} /\ Min(Heads(d, 0, n, b)) = S[1]
         /\ ParserSingle(d, S[1], n, b) = [len |-> FrameMin + 4 * m[1].repeat, nec |-> m[1]]
<1> /\ Laid(m, C, S) /\ Len(m) = 1 /\ n \in Nat /\ n \in Len(C) .. Len(C) + 1
    /\ DOMAIN d = 0 .. n - 1 /\ InCopy(d, 0, Len(C), C, 0)
  BY DEF CopyOf
<1>1. 1 \in 1 .. Len(m)
  OBVIOUS
<1>2. PICK s \in Nat, rep \in Nat, c \in Nat, F \in Nat :
        s = S[1] /\ rep = m[1].repeat /\ c = Len(C) /\ F = FrameMin /\ F >= 10
  <2>1. S[1] \in Nat /\ m[1].repeat \in Nat /\ Len(C) \in Nat
    BY <1>1, PlacedTypes
  <2> QED
    BY <2>1, Sizes
<1>3. m[1] \in Nec
  BY <1>1, PlacedTypes
<1>4. s + 2 <= F /\ c = s + F + 4 * rep + 1 /\ c <= n /\ n <= c + 1
  <2>1. s + 2 <= F /\ c = s + F + 4 * rep + 1
    BY <1>1, <1>2 DEF Laid, Placed
  <2>2. n \in c .. c + 1
    BY <1>2
  <2> QED
    BY <2>1, <2>2
<1>5. Heads(d, 0, n, b) # {} /\ Min(Heads(d, 0, n, b)) = s
  <2>1. S[1] + 2 <= c /\ InCopy(d, 0, c, C, 0)
    <3>1. s + 2 <= c
      BY <1>4
    <3> QED
      BY <1>2, <3>1
  <2>2. Heads(d, 0, c, b) # {} /\ Min(Heads(d, 0, c, b)) = S[1]
    BY <2>1, HeadOfTheFirst
  <2>3. c <= n /\ Min(Heads(d, 0, c, b)) = s
    BY <1>2, <1>4, <2>2
  <2> QED
    BY <2>2, <2>3, FirstHead
<1>6. PICK W : W = View(d, s, b)
  OBVIOUS
<1>7. ASSUME NEW i \in Nat, s + i < c PROVE W[i] = C[s + i + 1]
  <2>1. PICK j \in 0 .. c - 1 : j = s + i
    BY <1>7
  <2>2. 0 + j \in DOMAIN d /\ d[0 + j] = C[0 + j + 1]
    BY <1>2 DEF InCopy
  <2>3. 0 + j = s + i /\ 0 + j + 1 = s + i + 1
    BY <2>1
  <2>4. W[i] = Read(d, s + i, b)
    BY <1>6 DEF View
  <2> QED
    BY <2>2, <2>3, <2>4 DEF Read
<1>8. ASSUME NEW i \in Nat, s + i > c PROVE W[i] = b
  <2>1. s + i \notin DOMAIN d
    BY <1>4, <1>8
  <2>2. W[i] = Read(d, s + i, b)
    BY <1>6 DEF View
  <2> QED
    BY <2>1, <2>2 DEF Read
<1>9. IsLeader(W[0], W[1])
  <2>1. IsLeader(C[s + 1], C[s + 2])
    BY <1>1, <1>2 DEF Laid, Readable
  <2>2. W[0] = C[s + 1] /\ W[1] = C[s + 2]
    <3>1. s + 0 < c /\ s + 1 < c /\ s + 0 + 1 = s + 1 /\ s + 1 + 1 = s + 2
      BY <1>4
    <3>2. W[0] = C[s + 0 + 1] /\ W[1] = C[s + 1 + 1]
      BY <1>7, <3>1
    <3> QED
      BY <3>1, <3>2
  <2> QED
    BY <2>1, <2>2
<1>10. ASSUME NEW k \in 0 .. Bits - 1
       PROVE  Sent(W[2 + 2 * k], W[3 + 2 * k], SentBit(k) \in Word32(m[1]))
  <2>1. Sent(C[s + 2 * k + 3], C[s + 2 * k + 4], SentBit(k) \in Word32(m[1]))
    BY <1>1, <1>2 DEF Laid, Readable
  <2>2. k \in Nat /\ 2 * k + 4 <= F
    BY <1>2, Sizes
  <2>3. /\ 2 + 2 * k \in Nat /\ 3 + 2 * k \in Nat /\ s + (2 + 2 * k) < c /\ s + (3 + 2 * k) < c
        /\ s + (2 + 2 * k) + 1 = s + 2 * k + 3 /\ s + (3 + 2 * k) + 1 = s + 2 * k + 4
    BY <1>4, <2>2
  <2>4. W[2 + 2 * k] = C[s + 2 * k + 3] /\ W[3 + 2 * k] = C[s + 2 * k + 4]
    BY <1>7, <2>3
  <2> QED
    BY <2>1, <2>4
<1>11. ASSUME NEW q \in 0 .. rep - 1
       PROVE  F + 4 * q + 3 < n /\ IsRepeat(W[F + 4 * q + 2], W[F + 4 * q + 3])
  <2>1. IsRepeat(C[s + F + 4 * q + 3], C[s + F + 4 * q + 4])
    BY <1>1, <1>2 DEF Laid, Readable
  <2>2. /\ F + 4 * q + 2 \in Nat /\ F + 4 * q + 3 \in Nat
        /\ s + (F + 4 * q + 2) < c /\ s + (F + 4 * q + 3) < c /\ F + 4 * q + 3 < n
        /\ s + (F + 4 * q + 2) + 1 = s + F + 4 * q + 3 /\ s + (F + 4 * q + 3) + 1 = s + F + 4 * q + 4
    BY <1>4
  <2>3. W[F + 4 * q + 2] = C[s + F + 4 * q + 3] /\ W[F + 4 * q + 3] = C[s + F + 4 * q + 4]
    BY <1>7, <2>2
  <2> QED
    BY <2>1, <2>2, <2>3
<1>12. ~IsRepeat(W[F + 4 * rep + 2], W[F + 4 * rep + 3])
  <2>1. /\ F + 4 * rep + 2 \in Nat /\ F + 4 * rep + 3 \in Nat
        /\ s + (F + 4 * rep + 2) > c /\ s + (F + 4 * rep + 3) > c
    BY <1>4
  <2>2. W[F + 4 * rep + 2] = b /\ W[F + 4 * rep + 3] = b
    BY <1>8, <2>1
  <2> QED
    BY <2>2 DEF QueueFits
<1>13. ReadsAs(W, n, m[1], rep)
  <2>1. n >= F /\ rep <= n
    BY <1>4
  <2> QED
    BY <1>2, <1>9, <1>10, <1>11, <1>12, <2>1 DEF ReadsAs
<1>14. ParserSingle(d, s, n, b) = [len |-> F + 4 * rep, nec |-> Arrived(m[1], rep)]
  <2>1. ReadsAs(View(d, s, b), n, m[1], rep)
    BY <1>6, <1>13
  <2>2. ParserSingle(d, s, n, b) = [len |-> FrameMin + 4 * rep, nec |-> Arrived(m[1], rep)]
    BY <1>3, <2>1, ParserReads
  <2> QED
    BY <1>2, <2>2
<1>15. Arrived(m[1], rep) = m[1]
  BY <1>2, <1>3 DEF Arrived, Nec
<1> QED
  BY <1>2, <1>5, <1>14, <1>15

\* The reception is over: the task copies the ring.
LEMMA QueueFinish ==
  ASSUME TypesInv, QueueFits, way = "queue", NEW C, NEW S, Laid(frames, C, S), Len(frames) = 1,
         Collecting(C), Finish, ~spoilt'
  PROVE  Copying(C)'
<1>1. /\ pc = "wait" /\ status = "finish" /\ air = <<>> /\ out = <<>> /\ ring \in Seq(Int)
      /\ UNCHANGED <<air, out>>
  BY DEF Finish, Collecting, TypesInv
<1>2. PICK c \in Nat, F \in Nat : c = Len(C) /\ F = FrameMin
  BY Sizes DEF Laid, Placed
<1>3. Len(ring) = c /\ \A i \in 1 .. c : ring[i] = C[i]
  <2>1. 0 + Len(ring) + Len(air) = c /\ \A i \in 1 .. Len(ring) : ring[i] = C[0 + i]
    BY <1>2 DEF Collecting, Received
  <2>2. Len(ring) = c
    BY <1>1, <2>1
  <2>3. ASSUME NEW i \in 1 .. c PROVE ring[i] = C[i]
    BY <2>1, <2>2
  <2> QED
    BY <2>2, <2>3
<1>4. ~(c < ValidMin)
  <2>1. 1 \in 1 .. Len(frames)
    OBVIOUS
  <2>2. PICK s \in Nat, rep \in Nat : s = S[1] /\ rep = frames[1].repeat
    BY <2>1, PlacedTypes
  <2>3. s + F + 4 * rep + 1 <= c
    BY <1>2, <2>1, <2>2 DEF Laid, Placed
  <2>4. ValidMin <= F /\ ValidMin \in Nat
    BY <1>2, ReceiverAssumption DEF QueueFits
  <2> QED
    BY <2>3, <2>4
<1>5. /\ ring' = WithTail(ring) /\ status' = "finish"
      /\ Continue("queue", TRUE, Copied(ring'), 0, Len(ring'), 0)
  <2>1. ~(way = "callback" \/ Len(ring) < ValidMin)
    BY <1>3, <1>4
  <2> QED
    BY <2>1 DEF Finish
<1>6. pc' = "queue" /\ data' = Copied(ring') /\ offset' = 0 /\ len' = Len(ring')
  BY <1>5 DEF Continue
<1>7. Len(ring') \in c .. c + 1 /\ \A i \in 1 .. c : ring'[i] = C[i]
  <2>1. CASE ring' = ring
    BY <1>3, <2>1
  <2>2. CASE ring' = Append(ring, TAIL_US)
    <3>1. TAIL_US \in Int
      BY DEF TAIL_US
    <3>2. Len(ring') = c + 1 /\ \A i \in 1 .. c : ring'[i] = ring[i]
      BY <1>1, <1>3, <2>2, <3>1
    <3> QED
      BY <1>3, <3>2
  <2> QED
    BY <1>5, <2>1, <2>2 DEF WithTail
<1>8. PICK k \in c .. c + 1 : k = Len(ring')
  BY <1>7
<1>9. InCopy(data', 0, c, C, 0)
  <2> SUFFICES ASSUME NEW i \in 0 .. c - 1
               PROVE  0 + i \in DOMAIN Copied(ring') /\ Copied(ring')[0 + i] = C[0 + i + 1]
    BY <1>6 DEF InCopy
  <2>1. 0 + i = i /\ i \in 0 .. k - 1 /\ i + 1 \in 1 .. c
    OBVIOUS
  <2>2. i \in DOMAIN Copied(ring') /\ Copied(ring')[i] = ring'[i + 1]
    BY <1>8, <2>1 DEF Copied
  <2> QED
    BY <1>7, <2>1, <2>2
<1> QED
  BY <1>1, <1>2, <1>5, <1>6, <1>7, <1>9 DEF Copying

\* The one frame is parsed: without a repeat it is shorter than what is asked for, and what
\* follows it is too short for another.
LEMMA QueueParses ==
  ASSUME TypesInv, QueueFits, NEW C, NEW S, Laid(frames, C, S), Len(frames) = 1, Copying(C),
         QueueParse, ~spoilt'
  PROVE  QueueDone'
<1>1. /\ out = <<>> /\ air' = <<>> /\ frames' = frames /\ offset = 0 /\ len \in Nat
      /\ DOMAIN data = 0 .. len - 1 /\ len \in Len(C) .. Len(C) + 1 /\ InCopy(data, 0, Len(C), C, 0)
  <2>1. /\ air' = air /\ frames' = frames
    BY Zenon DEF QueueParse
  <2>2. DOMAIN data = 0 .. 0 + len - 1 /\ len \in Nat
    BY DEF TypesInv, TypeOK, Copying
  <2>3. 0 + len - 1 = len - 1
    BY <2>2
  <2> QED
    BY <2>1, <2>2, <2>3 DEF Copying
<1>2. PICK b \in Junk : \E heads, report, off, more :
        more \in BOOLEAN /\ QueueWith(b, heads, report, off, more)
  BY QueueRound
<1>3. PICK heads, report, off, more : more \in BOOLEAN /\ QueueWith(b, heads, report, off, more)
  BY <1>2
<1>4. 1 \in 1 .. Len(frames)
  OBVIOUS
<1>5. PICK s \in Nat, rep \in Nat, c \in Nat, F \in Nat :
        s = S[1] /\ rep = frames[1].repeat /\ c = Len(C) /\ F = FrameMin /\ F + 2 = FrameLen
  <2>1. S[1] \in Nat /\ frames[1].repeat \in Nat /\ Len(C) \in Nat
    BY <1>4, PlacedTypes
  <2> QED
    BY <2>1, Sizes
<1>6. heads # {} /\ report = [len |-> F + 4 * rep, nec |-> frames[1]]
  <2>1. /\ Heads(data, 0, len, b) # {} /\ Min(Heads(data, 0, len, b)) = s
        /\ ParserSingle(data, s, len, b) = [len |-> F + 4 * rep, nec |-> frames[1]]
    <3>1. /\ Heads(data, 0, len, b) # {} /\ Min(Heads(data, 0, len, b)) = S[1]
          /\ ParserSingle(data, S[1], len, b) = [len |-> FrameMin + 4 * frames[1].repeat, nec |-> frames[1]]
      <4>1. CopyOf(frames, C, S, data, len)
        BY <1>1 DEF CopyOf
      <4> QED
        BY <4>1, AloneParsed
    <3> QED
      BY <1>5, <3>1
  <2>2. heads = Heads(data, 0, len, b) /\ report = ParserSingle(data, Min(heads), len, b)
    BY <1>1, <1>3 DEF QueueWith
  <2> QED
    BY <2>1, <2>2
<1>7. report.len = F + 4 * rep /\ report.nec = frames[1]
  BY <1>6
<1>8. ~more
  <2>1. s + 2 <= F /\ c = s + F + 4 * rep + 1
    BY <1>4, <1>5 DEF Laid, Placed
  <2>2. len <= c + 1 /\ len >= c
    BY <1>1, <1>5
  <2>3. Cardinality(DOMAIN data) = len
    <3>1. Cardinality(0 .. len - 1) = IF 0 > len - 1 THEN 0 ELSE len - 1 - 0 + 1
      BY <1>1, FS_Interval
    <3> QED
      BY <1>1, <2>1, <2>2, <3>1
  <2>4. off = F + 4 * rep
    BY <1>1, <1>3, <1>7 DEF QueueWith
  <2>5. ~(off + (F + 2) <= len)
    BY <1>1, <2>1, <2>2, <2>4
  <2> QED
    BY <1>3, <1>5, <2>3, <2>5 DEF QueueWith
<1>9. pc' = "wait" /\ status' = "idle"
  <2>1. (Continue("queue", FALSE, data, 0, 0, 0) /\ Idle) \/ Onward(report, off, more)
    BY <1>3 DEF QueueWith
  <2> QED
    BY <1>8, <2>1 DEF Continue, Idle, Onward
<1>10. CASE rep > 0
  <2>1. Posted(report)
    BY <1>5, <1>7, <1>10 DEF Posted
  <2>2. out' = Append(out, [finish |-> TRUE, nec |-> report.nec])
    BY <1>3, <1>6, <2>1 DEF QueueWith
  <2>3. PICK x : x = [finish |-> TRUE, nec |-> frames[1]]
    OBVIOUS
  <2>4. x.nec = frames[1]
    BY <2>3
  <2>5. out' = Append(<<>>, x)
    BY <1>1, <1>7, <2>2, <2>3
  <2>6. Len(out') = 1 /\ out'[1] = x
    BY <2>5
  <2> QED
    BY <1>1, <1>5, <1>9, <1>10, <2>4, <2>6 DEF QueueDone
<1>11. CASE ~(rep > 0)
  <2>1. ~Posted(report)
    BY <1>5, <1>7, <1>11 DEF Posted
  <2>2. out' = <<>>
    BY <1>1, <1>3, <1>6, <2>1 DEF QueueWith
  <2> QED
    BY <1>1, <1>5, <1>9, <1>11, <2>2 DEF QueueDone
<1> QED
  BY <1>10, <1>11

LEMMA QueueStep ==
  ASSUME CodesClear, QueueFits
  PROVE  TypesInv /\ QueueInv /\ [Next]_vars => QueueInv'
<1> SUFFICES ASSUME TypesInv, QueueInv, [Next]_vars, way' = "queue", ~spoilt', Len(frames') = 1
             PROVE  QueueDone' \/ Alone'
  BY DEF QueueInv
<1>1. CASE Sends
  <2>1. PICK C, S : Laid(frames', C, S) /\ Waiting(C)'
    BY <1>1, SentInTheClear
  <2> QED
    BY <2>1 DEF Alone
<1>2. CASE UNCHANGED vars
  <2>1. /\ UNCHANGED <<frames, air, ring, status, pc, data, offset, len, out>>
        /\ UNCHANGED <<way, spoilt>>
    BY <1>2 DEF vars, taskVars
  <2>2. QueueDone \/ Alone
    BY <2>1 DEF QueueInv
  <2>3. CASE QueueDone
    BY <2>1, <2>3 DEF QueueDone
  <2>4. CASE Alone
    BY <2>1, <2>4 DEF Alone, Waiting, Collecting, Copying, Received
  <2> QED
    BY <2>2, <2>3, <2>4
<1>3. CASE Edge \/ Round \/ SyncParse \/ Finish \/ QueueParse
  <2>1. ~spoilt /\ way = "queue" /\ frames' = frames /\ Len(frames) = 1
    BY <1>3, StaysClean
  <2>2. ~QueueDone
    BY <1>3 DEF QueueDone, Edge, Round, SyncParse, Finish, QueueParse
  <2>3. ASSUME NEW C, NEW S, Laid(frames, C, S), Waiting(C) PROVE Alone'
    <3>1. ~Round /\ ~SyncParse /\ ~Finish /\ ~QueueParse
      BY <2>3 DEF Waiting, Round, SyncParse, Finish, QueueParse
    <3>2. Edge
      BY <1>3, <3>1
    <3>3. Received(C, 0)' /\ status' = "recving"
      <4>1. Going(C, S, 1)'
        BY <2>3, <3>2, FirstEdge
      <4>2. status' = "recving"
        BY <2>3, <3>2 DEF Edge, Waiting
      <4>3. Begin(S, 1) = 0
        BY DEF Begin
      <4> QED
        BY <4>1, <4>2, <4>3 DEF Going
    <3>4. pc' = "wait" /\ out' = <<>>
      BY <2>3, <3>2 DEF Edge, Waiting, taskVars
    <3>5. Collecting(C)'
      BY <3>3, <3>4 DEF Collecting
    <3> QED
      BY <2>1, <2>3, <3>5 DEF Alone
  <2>4. ASSUME NEW C, NEW S, Laid(frames, C, S), Collecting(C) PROVE Alone'
    <3>1. ~SyncParse /\ ~QueueParse
      BY <2>4 DEF Collecting, SyncParse, QueueParse
    <3>2. CASE Edge
      <4>1. C \in Seq(Int) /\ 0 \in Nat /\ status = "recving" /\ Received(C, 0)
        BY <2>4, <3>2 DEF Edge, Collecting, Laid, Placed
      <4>2. Received(C, 0)' /\ status' = "recving" /\ UNCHANGED <<out, taskVars>>
        BY <3>2, <4>1, CodeArrives
      <4>3. Collecting(C)'
        BY <2>4, <4>2 DEF Collecting, taskVars
      <4> QED
        BY <2>1, <2>4, <4>3 DEF Alone
    <3>3. CASE Round
      <4>1. /\ UNCHANGED <<air, ring, out, pc>> /\ status' \in {"recving", "finish"}
            /\ status' = "finish" => air = <<>>
        BY <2>1, <3>3 DEF Round, taskVars
      <4>2. Collecting(C)'
        BY <2>4, <4>1 DEF Collecting, Received
      <4> QED
        BY <2>1, <2>4, <4>2 DEF Alone
    <3>4. CASE Finish
      <4>1. Copying(C)'
        BY <2>1, <2>4, <3>4, QueueFinish
      <4> QED
        BY <2>1, <2>4, <4>1 DEF Alone
    <3> QED
      BY <1>3, <3>1, <3>2, <3>3, <3>4
  <2>5. ASSUME NEW C, NEW S, Laid(frames, C, S), Copying(C) PROVE QueueDone'
    <3>1. ~Edge /\ ~Round /\ ~SyncParse /\ ~Finish
      BY <2>5 DEF Copying, Edge, Round, SyncParse, Finish
    <3>2. QueueParse
      BY <1>3, <3>1
    <3> QED
      BY <2>1, <2>5, <3>2, QueueParses
  <2>6. Alone
    BY <2>1, <2>2 DEF QueueInv
  <2> QED
    BY <2>3, <2>4, <2>5, <2>6 DEF Alone
<1> QED
  BY <1>1, <1>2, <1>3 DEF Next

\* From the queue, a frame that is sent alone is received exactly if it was repeated.
THEOREM QueueWantsRepeat ==
  ASSUME CodesClear, QueueFits
  PROVE  Spec => []QueueNeedsRepeat
<1>1. Init => TypesInv /\ QueueInv
  BY TypesInit DEF Init, QueueInv
<1>2. TypesInv /\ QueueInv /\ [Next]_vars => TypesInv' /\ QueueInv'
  BY TypesStep, QueueStep
<1>3. TypesInv /\ QueueInv => QueueNeedsRepeat
  <2> SUFFICES ASSUME TypesInv, QueueInv, way = "queue", Over, ~spoilt, Len(frames) = 1
               PROVE  [i \in DOMAIN out |-> out[i].nec]
                        = IF frames[1].repeat > 0 THEN frames ELSE <<>>
    BY DEF QueueNeedsRepeat
  <2>1. QueueDone
    <3>1. ASSUME NEW C, NEW S, Laid(frames, C, S), Waiting(C) PROVE FALSE
      <4>1. Len(C) \in Nat /\ Len(air) = Len(C) + 1
        BY <3>1 DEF Laid, Placed, Waiting, Follows
      <4> QED
        BY <4>1 DEF Over
    <3>2. ASSUME NEW C, Collecting(C) \/ Copying(C) PROVE FALSE
      BY <3>2 DEF Collecting, Copying, Over
    <3> QED
      BY <3>1, <3>2 DEF QueueInv, Alone
  <2>2. frames \in Seq(Nec) /\ out \in Seq(Report)
    BY DEF TypesInv
  <2>3. CASE frames[1].repeat > 0
    <3>1. Len(out) = 1 /\ out[1].nec = frames[1]
      BY <2>1, <2>3 DEF QueueDone
    <3>2. DOMAIN out = 1 .. 1 /\ DOMAIN frames = 1 .. 1
      BY <2>2, <3>1
    <3>3. PICK g : g = [i \in DOMAIN out |-> out[i].nec]
      OBVIOUS
    <3>4. g = [i \in DOMAIN g |-> g[i]] /\ DOMAIN g = 1 .. 1 /\ g[1] = frames[1]
      BY <3>1, <3>2, <3>3
    <3>5. frames = [i \in 1 .. 1 |-> frames[i]]
      BY <2>2, <3>2
    <3>6. \A i \in 1 .. 1 : g[i] = frames[i]
      BY <3>4
    <3>7. g = frames
      BY <3>4, <3>5, <3>6
    <3> QED
      BY <2>3, <3>3, <3>7
  <2>4. CASE ~(frames[1].repeat > 0)
    <3>1. out = <<>>
      BY <2>1, <2>4 DEF QueueDone
    <3>2. [i \in DOMAIN out |-> out[i].nec] = <<>>
      BY <3>1
    <3> QED
      BY <2>4, <3>2
  <2> QED
    BY <2>3, <2>4
<1> QED
  BY <1>1, <1>2, <1>3, PTL DEF Spec
=============================================================================
