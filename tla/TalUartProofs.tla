--------------------------- MODULE TalUartProofs ----------------------------
(***************************************************************************)
(* The UART receive path for any number of readers, any buffer sizes and   *)
(* any number of bytes: the wake-up protocol between handler and reader,   *)
(* and the order of the bytes.                                             *)
(***************************************************************************)
EXTENDS TalUart, TLAPS

\* What the wake-up protocol needs together: a token or a set flag means a
\* sleeping reader, and a sleeping reader means that nobody else reads.
Handshake == OneReader /\ SleeperIsFlagged /\ NoStaleToken /\ WokenFindsData

IInv == TypeOK /\ Handshake
-----------------------------------------------------------------------------
(* Prefixes, suffixes and concatenation.                                   *)

\* What First returns.
LEMMA FirstFacts ==
  ASSUME NEW s \in Seq(Nat), NEW n \in 0 .. Len(s)
  PROVE  /\ First(s, n) \in Seq(Nat) /\ Len(First(s, n)) = n
         /\ \A i \in 1 .. n : First(s, n)[i] = s[i]
BY DEF First

\* What Rest returns.
LEMMA RestFacts ==
  ASSUME NEW s \in Seq(Nat), NEW n \in 0 .. Len(s)
  PROVE  /\ Rest(s, n) \in Seq(Nat) /\ Len(Rest(s, n)) = Len(s) - n
         /\ \A i \in 1 .. Len(s) - n : Rest(s, n)[i] = s[n + i]
BY DEF Rest

\* What concatenation returns.
LEMMA JoinFacts ==
  ASSUME NEW s \in Seq(Nat), NEW t \in Seq(Nat)
  PROVE  /\ s \o t \in Seq(Nat) /\ Len(s \o t) = Len(s) + Len(t)
         /\ \A i \in 1 .. Len(s) : (s \o t)[i] = s[i]
         /\ \A i \in Len(s) + 1 .. Len(s) + Len(t) : (s \o t)[i] = t[i - Len(s)]
OBVIOUS

\* The empty sequence is the one of length 0.
LEMMA EmptyFacts ==
  ASSUME NEW s \in Seq(Nat)
  PROVE  s = <<>> <=> Len(s) = 0
OBVIOUS

\* The empty sequence has a type and a length.
LEMMA EmptyIsSeq == <<>> \in Seq(Nat) /\ Len(<<>>) = 0
OBVIOUS

\* How many bytes a run of the handler can store, and what it leaves.
LEMMA RxBytesFacts ==
  ASSUME TypeOK, hw # <<>>
  PROVE  /\ RxBytes \in 0 .. Len(hw) /\ RxBytes <= RingSize - Len(ring)
         /\ Least(Len(hw), RxBytes + 1) \in RxBytes .. Len(hw)
         /\ Least(Len(hw), RxBytes + 1) \in 1 .. Len(hw)
<1>1. Len(hw) \in Nat \ {0} /\ Len(ring) \in 0 .. RingSize
  BY UartAssumption, EmptyFacts DEF TypeOK
<1> QED
  BY <1>1, UartAssumption DEF RxBytes, Least
-----------------------------------------------------------------------------
(* Types.                                                                  *)

\* The handler's run keeps the ring within its size.
LEMMA RxIsrTypes ==
  ASSUME TypeOK, RxIsr
  PROVE  TypeOK'
<1> DEFINE n == RxBytes
           m == Least(Len(hw), n + 1)
<1>1. n \in 0 .. Len(hw) /\ n <= RingSize - Len(ring) /\ m \in 1 .. Len(hw)
  BY RxBytesFacts DEF RxIsr
<1>2. hw \in Seq(Nat) /\ ring \in Seq(Nat) /\ Len(hw) \in Nat /\ Len(ring) \in Nat
  BY DEF TypeOK
<1>3. First(hw, n) \in Seq(Nat) /\ Len(First(hw, n)) = n
  BY <1>1, <1>2, FirstFacts
<1>4. ring' \in Seq(Nat) /\ Len(ring') = Len(ring) + n
  BY <1>2, <1>3, JoinFacts DEF RxIsr
<1>5. m \in 0 .. Len(hw)
  BY <1>1, <1>2
<1>6. hw' \in Seq(Nat) /\ Len(hw') = Len(hw) - m
  BY <1>5, <1>2, RestFacts DEF RxIsr
<1>7. Len(hw') <= HwSize /\ Len(ring') <= RingSize
  <2>1. Len(hw) <= HwSize
    BY DEF TypeOK
  <2> HIDE DEF n, m
  <2> QED
    BY <1>1, <1>2, <1>4, <1>6, <2>1, UartAssumption
<1>8. flag' \in BOOLEAN
  BY DEF RxIsr, FlagAfter, TypeOK
<1>9. blockSem' \in 0 .. 1
  BY DEF RxIsr, TypeOK
<1> QED
  BY <1>4, <1>6, <1>7, <1>8, <1>9 DEF RxIsr, TypeOK

\* A fetch takes what it asks for, or what there is.
LEMMA FetchAmount ==
  ASSUME TypeOK, NEW len \in Lens
  PROVE  /\ Least(len, Len(ring)) \in 0 .. Len(ring)
         /\ Least(len, Len(ring)) = 0 <=> ring = <<>>
<1>1. len \in Nat \ {0} /\ ring \in Seq(Nat) /\ Len(ring) \in Nat
  BY UartAssumption DEF TypeOK
<1> QED
  BY <1>1, EmptyFacts DEF Least

\* The types at the start.
LEMMA TypeInit ==
  ASSUME Init
  PROVE  TypeOK
<1>1. Len(hw) <= HwSize /\ Len(ring) <= RingSize
  BY UartAssumption, EmptyIsSeq DEF Init
<1>2. pc \in [Readers -> Labels] /\ arrived \in 0 .. MaxBytes
  BY UartAssumption DEF Init, Labels
<1>3. hw \in Seq(Nat) /\ ring \in Seq(Nat) /\ delivered \in Seq(Nat)
  BY EmptyIsSeq DEF Init
<1>4. open \in BOOLEAN /\ block \in BOOLEAN /\ flag \in BOOLEAN
  BY Zenon DEF Init
<1>5. ringSem \in 0 .. 1 /\ blockSem \in 0 .. 1
  BY DEF Init
<1> QED
  BY <1>1, <1>2, <1>3, <1>4, <1>5 DEF TypeOK

\* Every step keeps the types.
LEMMA TypeStep ==
  ASSUME TypeOK, [Next]_vars
  PROVE  TypeOK'
<1>1. CASE UartInit
  <2>1. ring' \in Seq(Nat) /\ Len(ring') = 0
    BY <1>1, EmptyIsSeq DEF UartInit
  <2>2. Len(ring') <= RingSize
    BY <2>1, UartAssumption
  <2>3. open' \in BOOLEAN /\ block' \in BOOLEAN /\ flag' \in BOOLEAN
    BY <1>1, Zenon DEF UartInit
  <2>4. ringSem' \in 0 .. 1 /\ blockSem' \in 0 .. 1
    BY <1>1 DEF UartInit
  <2> QED
    BY <1>1, <2>1, <2>2, <2>3, <2>4 DEF UartInit, TypeOK
<1>2. CASE UartDeinit
  <2>1. ring' \in Seq(Nat) /\ hw' \in Seq(Nat) /\ Len(ring') = 0 /\ Len(hw') = 0
    BY <1>2, EmptyIsSeq DEF UartDeinit
  <2>2. Len(ring') <= RingSize /\ Len(hw') <= HwSize
    BY <2>1, UartAssumption
  <2> QED
    BY <1>2, <2>1, <2>2 DEF UartDeinit, TypeOK
<1>3. CASE ByteArrives
  BY <1>3, UartAssumption DEF ByteArrives, TypeOK
<1>4. CASE RxIsr
  BY <1>4, RxIsrTypes
<1>5. ASSUME NEW r \in Readers, ReadLock(r) PROVE TypeOK'
  BY <1>5 DEF ReadLock, SemTaken, Goto, Labels, TypeOK
<1>6. ASSUME NEW r \in Readers, Look(r) PROVE TypeOK'
  BY <1>6 DEF Look, Goto, Labels, TypeOK
<1>7. ASSUME NEW r \in Readers, NEW len \in Lens, Fetch(r, len) PROVE TypeOK'
  <2> DEFINE n == Least(len, Len(ring))
  <2>1. n \in 0 .. Len(ring) /\ ring \in Seq(Nat) /\ delivered \in Seq(Nat)
    BY FetchAmount DEF TypeOK
  <2>2. ring' \in Seq(Nat) /\ Len(ring') = Len(ring) - n
    BY <1>7, <2>1, RestFacts DEF Fetch, LeftInRing
  <2>3. delivered' \in Seq(Nat)
    BY <1>7, <2>1, FirstFacts, JoinFacts DEF Fetch
  <2>4. pc' \in [Readers -> Labels]
    BY <1>7 DEF Fetch, Goto, Labels, TypeOK
  <2>5. Len(ring') <= RingSize
    <3> HIDE DEF n
    <3> QED BY <2>1, <2>2, UartAssumption DEF TypeOK
  <2> QED
    BY <1>7, <2>2, <2>3, <2>4, <2>5 DEF Fetch, TypeOK
<1>8. ASSUME NEW r \in Readers, SetFlag(r) PROVE TypeOK'
  BY <1>8 DEF SetFlag, Goto, Labels, TypeOK
<1>9. ASSUME NEW r \in Readers, Wake(r) PROVE TypeOK'
  BY <1>9 DEF Wake, Goto, Labels, TypeOK
<1>10. ASSUME NEW r \in Readers, ReadUnlock(r) PROVE TypeOK'
  BY <1>10 DEF ReadUnlock, Goto, Labels, TypeOK
<1>11. CASE UNCHANGED vars
  BY <1>11 DEF vars, TypeOK
<1> QED
  BY <1>1, <1>2, <1>3, <1>4, <1>5, <1>6, <1>7, <1>8, <1>9, <1>10, <1>11
  DEF Next, ReadStep
-----------------------------------------------------------------------------
(* The wake-up protocol.                                                   *)

\* Opening and closing happen while no reader is inside tal_uart_read.
LEMMA HandshakeOpen ==
  ASSUME IInv, UartInit \/ UartDeinit
  PROVE  Handshake'
<1>1. \A r \in Readers : pc[r] = "idle"
  BY DEF IInv, Handshake, OneReader, UartInit, UartDeinit
<1>2. pc' = pc
  BY DEF UartInit, UartDeinit
<1>3. ~flag' /\ blockSem' # 1
  <2>1. CASE UartInit
    BY <2>1 DEF UartInit
  <2>2. CASE UartDeinit
    BY <1>1, <2>2 DEF UartDeinit, IInv, Handshake, NoStaleToken
  <2> QED BY <2>1, <2>2
<1> QED
  BY <1>1, <1>2, <1>3
  DEF Handshake, OneReader, SleeperIsFlagged, NoStaleToken, WokenFindsData

\* The handler hands its promise over as a token exactly when it stored a byte.
LEMMA HandshakeIsr ==
  ASSUME IInv, RxIsr
  PROVE  Handshake'
<1> DEFINE n == RxBytes
<1>0. TypeOK /\ Handshake
  BY DEF IInv
<1>1. n \in 0 .. Len(hw) /\ hw \in Seq(Nat) /\ ring \in Seq(Nat) /\ Len(ring) \in Nat
  BY <1>0, RxBytesFacts DEF RxIsr, TypeOK
<1>2. ring' \in Seq(Nat) /\ Len(ring') = Len(ring) + n
  <2>1. First(hw, n) \in Seq(Nat) /\ Len(First(hw, n)) = n
    BY <1>1, FirstFacts
  <2> QED
    BY <1>1, <2>1, JoinFacts DEF RxIsr
<1>3. (n >= 1 \/ ring # <<>>) => ring' # <<>>
  <2> HIDE DEF n
  <2> QED BY <1>1, <1>2, EmptyFacts
<1>4. n >= 1 \/ n = 0
  BY <1>1
<1>5. pc' = pc /\ open' = open /\ ringSem' = ringSem
  BY DEF RxIsr
<1>6. flag \in BOOLEAN
  BY <1>0 DEF TypeOK
<1>7. CASE n >= 1 /\ flag
  <2>1. flag' = FALSE /\ blockSem' = 1 /\ ring' # <<>>
    <3>1. n # 0
      BY <1>1, <1>7
    <3> QED
      BY <1>3, <1>7, <3>1, Zenon DEF RxIsr, FlagAfter
  <2> QED
    BY <1>0, <1>5, <1>7, <2>1
    DEF Handshake, OneReader, SleeperIsFlagged, NoStaleToken, WokenFindsData
<1>8. CASE ~(n >= 1 /\ flag)
  <2>1. flag' = flag /\ blockSem' = blockSem
    BY <1>4, <1>6, <1>8 DEF RxIsr, FlagAfter
  <2> QED
    BY <1>0, <1>3, <1>5, <2>1
    DEF Handshake, OneReader, SleeperIsFlagged, NoStaleToken, WokenFindsData
<1> QED
  BY <1>7, <1>8

\* The steps of a reader.
LEMMA HandshakeRead ==
  ASSUME IInv, NEW r \in Readers, ReadLock(r) \/ ReadStep(r)
  PROVE  Handshake'
<1>0. TypeOK /\ OneReader /\ SleeperIsFlagged /\ NoStaleToken /\ WokenFindsData
  BY DEF IInv, Handshake
<1>1. CASE ReadLock(r)
  <2>1. \A q \in Readers : pc[q] = "idle"
    BY <1>0, <1>1 DEF OneReader, ReadLock
  <2>2. ringSem' = 0
    BY <1>0, <1>1 DEF ReadLock, SemTaken, TypeOK
  <2>3. ~flag /\ blockSem # 1
    BY <1>0, <2>1 DEF NoStaleToken
  <2> QED
    BY <1>0, <1>1, <2>1, <2>2, <2>3 DEF ReadLock, Goto, TypeOK,
       Handshake, OneReader, SleeperIsFlagged, NoStaleToken, WokenFindsData
<1>a. ASSUME pc[r] \notin {"idle", "sleep"}
      PROVE  ~flag /\ blockSem # 1
  BY <1>0, <1>a DEF OneReader, NoStaleToken
<1>b. ASSUME pc[r] # "idle"
      PROVE  ringSem = 0 /\ open /\ \A q \in Readers : q # r => pc[q] = "idle"
  BY <1>0, <1>b DEF OneReader
<1>2. CASE Look(r)
  BY <1>0, <1>2, <1>a, <1>b DEF Look, Goto, TypeOK,
     Handshake, OneReader, SleeperIsFlagged, NoStaleToken, WokenFindsData
<1>3. ASSUME NEW len \in Lens, Fetch(r, len) PROVE Handshake'
  <2>1. ~flag' /\ blockSem' # 1
    BY <1>3, <1>a DEF Fetch
  <2>2. pc'[r] \in {"flag", "unlock"}
    BY <1>0, <1>3 DEF Fetch, Goto, TypeOK
  <2>3. \A q \in Readers : q # r => pc'[q] = "idle"
    BY <1>0, <1>3, <1>b DEF Fetch, Goto, TypeOK
  <2>4. ringSem' = 0 /\ open'
    BY <1>3, <1>b DEF Fetch
  <2> QED
    BY <2>1, <2>2, <2>3, <2>4
    DEF Handshake, OneReader, SleeperIsFlagged, NoStaleToken, WokenFindsData
<1>4. CASE SetFlag(r)
  BY <1>0, <1>4, <1>a, <1>b DEF SetFlag, Goto, TypeOK,
     Handshake, OneReader, SleeperIsFlagged, NoStaleToken, WokenFindsData
<1>5. CASE Wake(r)
  <2>1. ~flag /\ ring # <<>>
    BY <1>0, <1>5 DEF Wake, SleeperIsFlagged, WokenFindsData, TypeOK
  <2> QED
    BY <1>0, <1>5, <1>b, <2>1 DEF Wake, Goto, TypeOK,
       Handshake, OneReader, SleeperIsFlagged, NoStaleToken, WokenFindsData
<1>6. CASE ReadUnlock(r)
  BY <1>0, <1>6, <1>a, <1>b DEF ReadUnlock, Goto, TypeOK,
     Handshake, OneReader, SleeperIsFlagged, NoStaleToken, WokenFindsData
<1> QED
  BY <1>1, <1>2, <1>3, <1>4, <1>5, <1>6 DEF ReadStep

\* The handshake is inductive.
LEMMA HandshakeStep ==
  ASSUME IInv, [Next]_vars
  PROVE  IInv'
<1>1. TypeOK'
  BY TypeStep DEF IInv
<1>2. CASE UartInit \/ UartDeinit
  BY <1>1, <1>2, HandshakeOpen DEF IInv
<1>3. CASE RxIsr
  BY <1>1, <1>3, HandshakeIsr DEF IInv
<1>4. ASSUME NEW r \in Readers, ReadLock(r) \/ ReadStep(r) PROVE IInv'
  BY <1>1, <1>4, HandshakeRead DEF IInv
<1>5. CASE ByteArrives
  BY <1>1, <1>5 DEF IInv, ByteArrives,
     Handshake, OneReader, SleeperIsFlagged, NoStaleToken, WokenFindsData
<1>6. CASE UNCHANGED vars
  BY <1>1, <1>6 DEF IInv, vars,
     Handshake, OneReader, SleeperIsFlagged, NoStaleToken, WokenFindsData
<1> QED
  BY <1>2, <1>3, <1>4, <1>5, <1>6 DEF Next

\* The protocol's invariant holds in every reachable state.
THEOREM HandshakeHolds == Spec => []IInv
<1>1. Init => IInv
  <2> SUFFICES ASSUME Init PROVE IInv
    OBVIOUS
  <2>1. TypeOK
    BY TypeInit
  <2>2. Handshake
    BY DEF Init, Handshake, OneReader, SleeperIsFlagged, NoStaleToken, WokenFindsData
  <2> QED BY <2>1, <2>2 DEF IInv
<1>2. IInv /\ [Next]_vars => IInv'
  BY HandshakeStep
<1> QED
  BY <1>1, <1>2, PTL DEF Spec

\* Types: in particular neither buffer ever outgrows its size.
THEOREM TypeCorrect == Spec => []TypeOK
<1>1. IInv => TypeOK
  BY DEF IInv
<1> QED BY <1>1, HandshakeHolds, PTL

\* A sleeping reader always has either the handler's promise (wait_rx_flag) or its
\* token, and no token or promise of one read is left to another.
THEOREM SleeperNeverForgotten == Spec => []WakeUpPromised
<1>1. IInv => WakeUpPromised
  BY DEF IInv, Handshake, WakeUpPromised
<1> QED BY <1>1, HandshakeHolds, PTL

\* A woken reader finds data in the ring.
THEOREM WokenReaderFindsData == Spec => []WokenFindsData
<1>1. IInv => WokenFindsData
  BY DEF IInv, Handshake
<1> QED BY <1>1, HandshakeHolds, PTL
-----------------------------------------------------------------------------
(* The order of the bytes.                                                 *)

UpTo(s, k) == \A i \in 1 .. Len(s) : s[i] <= k

\* No buffer holds a byte that has not arrived; without it a byte that arrives
\* could be smaller than one that is already there.
Arrived == UpTo(delivered, arrived) /\ UpTo(ring, arrived) /\ UpTo(hw, arrived)

OrderInv == TypeOK /\ InOrder /\ Arrived

\* Joining two ordered sequences, all of one before all of the other.
LEMMA JoinOrdered ==
  ASSUME NEW s \in Seq(Nat), NEW t \in Seq(Nat),
         Increasing(s), Increasing(t), Before(s, t)
  PROVE  Increasing(s \o t)
<1> DEFINE u == s \o t
<1> SUFFICES ASSUME NEW i \in 1 .. Len(u), NEW j \in 1 .. Len(u), i < j
             PROVE  u[i] < u[j]
  BY DEF Increasing
<1>1. /\ Len(u) = Len(s) + Len(t) /\ Len(s) \in Nat /\ Len(t) \in Nat
      /\ \A k \in 1 .. Len(s) : u[k] = s[k]
      /\ \A k \in Len(s) + 1 .. Len(s) + Len(t) : u[k] = t[k - Len(s)]
  BY JoinFacts
<1> HIDE DEF u
<1>2. CASE j <= Len(s)
  BY <1>1, <1>2 DEF Increasing
<1>3. CASE i <= Len(s) /\ j > Len(s)
  <2>1. j - Len(s) \in 1 .. Len(t) /\ i \in 1 .. Len(s)
    BY <1>1, <1>3
  <2> QED BY <1>1, <1>3, <2>1 DEF Before
<1>4. CASE i > Len(s) /\ j > Len(s)
  <2>1. j - Len(s) \in 1 .. Len(t) /\ i - Len(s) \in 1 .. Len(t) /\ i - Len(s) < j - Len(s)
    BY <1>1, <1>4
  <2>2. u[i] = t[i - Len(s)] /\ u[j] = t[j - Len(s)]
    <3>1. i \in Len(s) + 1 .. Len(s) + Len(t) /\ j \in Len(s) + 1 .. Len(s) + Len(t)
      BY <1>1, <1>4
    <3> QED BY <1>1, <3>1, Zenon
  <2>3. t[i - Len(s)] < t[j - Len(s)]
    BY <2>1 DEF Increasing
  <2> QED BY <2>2, <2>3
<1> QED
  BY <1>1, <1>2, <1>3, <1>4

\* What precedes or follows both parts precedes or follows the whole.
LEMMA JoinBefore ==
  ASSUME NEW s \in Seq(Nat), NEW t \in Seq(Nat), NEW v \in Seq(Nat)
  PROVE  /\ Before(s, v) /\ Before(t, v) => Before(s \o t, v)
         /\ Before(v, s) /\ Before(v, t) => Before(v, s \o t)
<1> DEFINE u == s \o t
<1>1. /\ Len(u) = Len(s) + Len(t) /\ Len(s) \in Nat /\ Len(t) \in Nat
      /\ \A k \in 1 .. Len(s) : u[k] = s[k]
      /\ \A k \in Len(s) + 1 .. Len(s) + Len(t) : u[k] = t[k - Len(s)]
  BY JoinFacts
<1> HIDE DEF u
<1>2. \A k \in 1 .. Len(u) : \/ k \in 1 .. Len(s) /\ u[k] = s[k]
                             \/ k - Len(s) \in 1 .. Len(t) /\ u[k] = t[k - Len(s)]
  BY <1>1
<1>3. Before(s, v) /\ Before(t, v) => Before(u, v)
  BY <1>2 DEF Before
<1>4. Before(v, s) /\ Before(v, t) => Before(v, u)
  BY <1>2 DEF Before
<1> QED
  BY <1>3, <1>4 DEF u

\* The bound on the bytes of a joined sequence.
LEMMA JoinUpTo ==
  ASSUME NEW s \in Seq(Nat), NEW t \in Seq(Nat), NEW k \in Nat, UpTo(s, k), UpTo(t, k)
  PROVE  UpTo(s \o t, k)
<1> DEFINE u == s \o t
<1>1. /\ Len(u) = Len(s) + Len(t) /\ Len(s) \in Nat /\ Len(t) \in Nat
      /\ \A i \in 1 .. Len(s) : u[i] = s[i]
      /\ \A i \in Len(s) + 1 .. Len(s) + Len(t) : u[i] = t[i - Len(s)]
  BY JoinFacts
<1> HIDE DEF u
<1>2. \A i \in 1 .. Len(u) : \/ i \in 1 .. Len(s) /\ u[i] = s[i]
                             \/ i - Len(s) \in 1 .. Len(t) /\ u[i] = t[i - Len(s)]
  BY <1>1
<1>3. UpTo(u, k)
  BY <1>2 DEF UpTo
<1> QED BY <1>3 DEF u

\* A prefix and a later suffix of an ordered sequence: both ordered and bounded,
\* one before the other, and placed as the whole is to any other sequence.
LEMMA Split ==
  ASSUME NEW s \in Seq(Nat), NEW n \in 0 .. Len(s), NEW m \in 0 .. Len(s), n <= m,
         Increasing(s)
  PROVE  /\ First(s, n) \in Seq(Nat) /\ Rest(s, m) \in Seq(Nat)
         /\ Increasing(First(s, n)) /\ Increasing(Rest(s, m))
         /\ Before(First(s, n), Rest(s, m))
         /\ \A v \in Seq(Nat) :
              /\ Before(s, v) => Before(First(s, n), v) /\ Before(Rest(s, m), v)
              /\ Before(v, s) => Before(v, First(s, n)) /\ Before(v, Rest(s, m))
         /\ \A k \in Nat : UpTo(s, k) => UpTo(First(s, n), k) /\ UpTo(Rest(s, m), k)
<1> DEFINE f == First(s, n)
           t == Rest(s, m)
<1>1. f \in Seq(Nat) /\ Len(f) = n /\ \A i \in 1 .. n : f[i] = s[i]
  BY FirstFacts
<1>2. t \in Seq(Nat) /\ Len(t) = Len(s) - m /\ \A i \in 1 .. Len(s) - m : t[i] = s[m + i]
  BY RestFacts
<1>3. Len(s) \in Nat
  OBVIOUS
<1> HIDE DEF f, t
<1>4. \A i \in 1 .. Len(f) : i \in 1 .. Len(s) /\ f[i] = s[i] /\ i <= m
  BY <1>1, <1>3
<1>5. \A i \in 1 .. Len(t) : m + i \in 1 .. Len(s) /\ t[i] = s[m + i]
  BY <1>2, <1>3
<1>6. Increasing(f)
  BY <1>4 DEF Increasing
<1>7. Increasing(t)
  <2> SUFFICES ASSUME NEW i \in 1 .. Len(t), NEW j \in 1 .. Len(t), i < j
               PROVE  t[i] < t[j]
    BY DEF Increasing
  <2>1. m + i < m + j
    BY <1>2, <1>3
  <2> QED BY <1>5, <2>1 DEF Increasing
<1>8. Before(f, t)
  <2> SUFFICES ASSUME NEW i \in 1 .. Len(f), NEW j \in 1 .. Len(t)
               PROVE  f[i] < t[j]
    BY DEF Before
  <2>1. i < m + j
    BY <1>1, <1>2, <1>3, <1>4
  <2> QED BY <1>4, <1>5, <2>1 DEF Increasing
<1>9. \A v \in Seq(Nat) : /\ Before(s, v) => Before(f, v) /\ Before(t, v)
                          /\ Before(v, s) => Before(v, f) /\ Before(v, t)
  BY <1>4, <1>5 DEF Before
<1>10. \A k \in Nat : UpTo(s, k) => UpTo(f, k) /\ UpTo(t, k)
  BY <1>4, <1>5 DEF UpTo
<1> QED
  BY <1>1, <1>2, <1>6, <1>7, <1>8, <1>9, <1>10 DEF f, t

\* The handler moves a prefix of the hardware FIFO behind the ring.
LEMMA OrderIsr ==
  ASSUME OrderInv, RxIsr
  PROVE  InOrder' /\ Arrived'
<1> DEFINE n == RxBytes
           m == Least(Len(hw), n + 1)
           f == First(hw, n)
           t == Rest(hw, m)
<1>1. TypeOK /\ InOrder /\ Arrived
  BY DEF OrderInv
<1>2. n \in 0 .. Len(hw) /\ m \in n .. Len(hw) /\ m \in 1 .. Len(hw)
  BY <1>1, RxBytesFacts DEF RxIsr
<1>3. hw \in Seq(Nat) /\ ring \in Seq(Nat) /\ delivered \in Seq(Nat) /\ arrived \in Nat
  BY <1>1, UartAssumption DEF TypeOK
<1>4. m \in 0 .. Len(hw) /\ n <= m
  <2> HIDE DEF m, n
  <2> QED BY <1>2, <1>3
<1>5. ring' = ring \o f /\ hw' = t /\ delivered' = delivered /\ arrived' = arrived
  BY DEF RxIsr
<1> HIDE DEF n, m
<1>6. /\ f \in Seq(Nat) /\ t \in Seq(Nat) /\ Increasing(f) /\ Increasing(t) /\ Before(f, t)
      /\ \A v \in Seq(Nat) : Before(v, hw) => Before(v, f) /\ Before(v, t)
      /\ UpTo(f, arrived) /\ UpTo(t, arrived)
  BY <1>1, <1>2, <1>3, <1>4, Split DEF InOrder, Arrived
<1> HIDE DEF f, t
<1>7. Increasing(ring \o f)
  BY <1>1, <1>3, <1>6, JoinOrdered DEF InOrder
<1>8. Before(delivered, ring \o f) /\ Before(ring \o f, t) /\ Before(delivered, t)
  BY <1>1, <1>3, <1>6, JoinBefore DEF InOrder
<1>9. UpTo(ring \o f, arrived)
  BY <1>1, <1>3, <1>6, JoinUpTo DEF Arrived
<1> QED
  BY <1>1, <1>5, <1>6, <1>7, <1>8, <1>9 DEF InOrder, Arrived, Increasing, Before, UpTo

\* A reader moves a prefix of the ring behind what was delivered.
LEMMA OrderFetch ==
  ASSUME OrderInv, NEW r \in Readers, NEW len \in Lens, Fetch(r, len)
  PROVE  InOrder' /\ Arrived'
<1> DEFINE n == Least(len, Len(ring))
           f == First(ring, n)
           t == Rest(ring, n)
<1>1. TypeOK /\ InOrder /\ Arrived
  BY DEF OrderInv
<1>2. n \in 0 .. Len(ring) /\ n <= n
  BY <1>1, FetchAmount
<1>3. hw \in Seq(Nat) /\ ring \in Seq(Nat) /\ delivered \in Seq(Nat) /\ arrived \in Nat
  BY <1>1, UartAssumption DEF TypeOK
<1>4. ring' = t /\ hw' = hw /\ delivered' = delivered \o f /\ arrived' = arrived
  BY DEF Fetch, LeftInRing
<1> HIDE DEF n
<1>5. /\ f \in Seq(Nat) /\ t \in Seq(Nat) /\ Increasing(f) /\ Increasing(t) /\ Before(f, t)
      /\ Before(f, hw) /\ Before(t, hw) /\ Before(delivered, f) /\ Before(delivered, t)
      /\ UpTo(f, arrived) /\ UpTo(t, arrived)
  BY <1>1, <1>2, <1>3, Split DEF InOrder, Arrived
<1> HIDE DEF f, t
<1>6. Increasing(delivered \o f)
  BY <1>1, <1>3, <1>5, JoinOrdered DEF InOrder
<1>7. Before(delivered \o f, t) /\ Before(delivered \o f, hw)
  BY <1>1, <1>3, <1>5, JoinBefore DEF InOrder
<1>8. UpTo(delivered \o f, arrived)
  BY <1>1, <1>3, <1>5, JoinUpTo DEF Arrived
<1> QED
  BY <1>1, <1>4, <1>5, <1>6, <1>7, <1>8 DEF InOrder, Arrived, Increasing, Before, UpTo

\* A byte that arrives is larger than every byte before it.
LEMMA OrderArrives ==
  ASSUME OrderInv, ByteArrives
  PROVE  InOrder' /\ Arrived'
<1>1. TypeOK /\ InOrder /\ Arrived
  BY DEF OrderInv
<1>2. hw \in Seq(Nat) /\ ring \in Seq(Nat) /\ delivered \in Seq(Nat) /\ arrived \in Nat
  BY <1>1, UartAssumption DEF TypeOK
<1>3. /\ hw' = Append(hw, arrived + 1) /\ arrived' = arrived + 1
      /\ ring' = ring /\ delivered' = delivered
  BY DEF ByteArrives
<1>4. /\ Len(hw') = Len(hw) + 1 /\ Len(hw) \in Nat
      /\ hw'[Len(hw) + 1] = arrived + 1 /\ \A i \in 1 .. Len(hw) : hw'[i] = hw[i]
  BY <1>2, <1>3
<1>5. \A i \in 1 .. Len(hw') : \/ i \in 1 .. Len(hw) /\ hw'[i] = hw[i]
                               \/ i = Len(hw) + 1 /\ hw'[i] = arrived + 1
  BY <1>4
<1>6. /\ \A i \in 1 .. Len(hw) : hw[i] \in Nat
      /\ \A i \in 1 .. Len(ring) : ring[i] \in Nat
      /\ \A i \in 1 .. Len(delivered) : delivered[i] \in Nat
  BY <1>2
<1>7. Arrived'
  BY <1>1, <1>2, <1>3, <1>5, <1>6 DEF Arrived, UpTo
<1>8. Increasing(hw)'
  <2> SUFFICES ASSUME NEW i \in 1 .. Len(hw'), NEW j \in 1 .. Len(hw'), i < j
               PROVE  hw'[i] < hw'[j]
    BY DEF Increasing
  <2>1. i \in 1 .. Len(hw) /\ hw'[i] = hw[i]
    BY <1>4
  <2>2. CASE j \in 1 .. Len(hw) /\ hw'[j] = hw[j]
    BY <1>1, <2>1, <2>2 DEF InOrder, Increasing
  <2>3. CASE j = Len(hw) + 1 /\ hw'[j] = arrived + 1
    <3>1. hw[i] <= arrived /\ hw[i] \in Nat
      BY <1>1, <1>6, <2>1 DEF Arrived, UpTo
    <3> QED BY <1>2, <2>1, <2>3, <3>1
  <2> QED
    BY <1>5, <2>2, <2>3
<1>9. Before(delivered, hw)' /\ Before(ring, hw)'
  <2>1. ASSUME NEW s \in Seq(Nat), Before(s, hw), UpTo(s, arrived), NEW i \in 1 .. Len(s),
               NEW j \in 1 .. Len(hw')
        PROVE  s[i] < hw'[j]
    <3>1. s[i] \in Nat /\ s[i] <= arrived
      BY <2>1 DEF UpTo
    <3>2. CASE j \in 1 .. Len(hw) /\ hw'[j] = hw[j]
      BY <2>1, <3>2 DEF Before
    <3>3. CASE j = Len(hw) + 1 /\ hw'[j] = arrived + 1
      BY <1>2, <3>1, <3>3
    <3> QED BY <1>5, <3>2, <3>3
  <2> QED
    BY <1>1, <1>2, <1>3, <2>1 DEF InOrder, Arrived, Before
<1> QED
  BY <1>1, <1>3, <1>7, <1>8, <1>9 DEF InOrder, Increasing, Before

\* The order is inductive.
LEMMA OrderStep ==
  ASSUME OrderInv, [Next]_vars
  PROVE  OrderInv'
<1>1. TypeOK /\ InOrder /\ Arrived
  BY DEF OrderInv
<1>2. TypeOK'
  BY <1>1, TypeStep
<1>3. CASE RxIsr
  BY <1>2, <1>3, OrderIsr DEF OrderInv
<1>4. ASSUME NEW r \in Readers, NEW len \in Lens, Fetch(r, len) PROVE OrderInv'
  BY <1>2, <1>4, OrderFetch DEF OrderInv
<1>5. CASE ByteArrives
  BY <1>2, <1>5, OrderArrives DEF OrderInv
<1>6. CASE UartInit \/ UartDeinit
  <2>1. /\ ring' = <<>> /\ (hw' = hw \/ hw' = <<>>)
        /\ delivered' = delivered /\ arrived' = arrived
    BY <1>6 DEF UartInit, UartDeinit
  <2>2. Len(<<>>) = 0
    BY EmptyIsSeq
  <2>3. InOrder' /\ Arrived'
    <3>1. Len(ring') = 0 /\ (hw' = hw \/ Len(hw') = 0)
      BY <2>1, <2>2
    <3> QED
      BY <1>1, <2>1, <3>1 DEF InOrder, Arrived, Increasing, Before, UpTo
  <2> QED BY <1>2, <2>3 DEF OrderInv
<1>7. ASSUME UNCHANGED <<hw, ring, delivered, arrived>> PROVE OrderInv'
  BY <1>1, <1>2, <1>7 DEF OrderInv, InOrder, Arrived, Increasing, Before, UpTo
<1>8. ASSUME NEW r \in Readers,
             ReadLock(r) \/ Look(r) \/ SetFlag(r) \/ Wake(r) \/ ReadUnlock(r)
      PROVE  OrderInv'
  BY <1>7, <1>8 DEF ReadLock, Look, SetFlag, Wake, ReadUnlock
<1>9. CASE UNCHANGED vars
  BY <1>7, <1>9 DEF vars
<1> QED
  BY <1>3, <1>4, <1>5, <1>6, <1>8, <1>9 DEF Next, ReadStep

\* Every byte is delivered at most once and in the order of arrival.
THEOREM BytesInOrder == Spec => []InOrder
<1>1. Init => OrderInv
  <2> SUFFICES ASSUME Init PROVE OrderInv
    OBVIOUS
  <2>1. TypeOK
    BY TypeInit
  <2>2. Len(hw) = 0 /\ Len(ring) = 0 /\ Len(delivered) = 0
    BY EmptyIsSeq DEF Init
  <2> QED
    BY <2>1, <2>2 DEF OrderInv, InOrder, Arrived, Increasing, Before, UpTo
<1>2. OrderInv /\ [Next]_vars => OrderInv'
  BY OrderStep
<1>3. OrderInv => InOrder
  BY DEF OrderInv
<1> QED
  BY <1>1, <1>2, <1>3, PTL DEF Spec
=============================================================================
