-------------------------- MODULE SensorFifoProofs --------------------------
(***************************************************************************)
(* Theorems about the data path for any number of elements, any buffer     *)
(* sizes, any filter rules and any samples, and that it implements         *)
(* SensorReport.                                                           *)
(***************************************************************************)
EXTENDS SensorFifo, SequenceTheorems, WellFoundedInduction, TLAPS

\* A group (and the default mode) reports as many values as the FIFO holds.
GroupFills == cfg.tp # "SINGLE" => \A i \in Ele : cfg.val_num[i] = cfg.fsize

\* The inductive invariant.  Bounding the fill level needs the lockstep of a
\* group, because only its first element is tested for fullness.
IInv == TypeOK /\ GroupFills /\ FifoBounded /\ GroupLockstep /\ TailIsZero
-----------------------------------------------------------------------------
\* What check_config lets through is loaded as a well-formed configuration.
LEMMA CorrectedIsNormal ==
  ASSUME NEW c \in AppConfig, CheckConfig(c)
  PROVE  LET d == Corrected(c)
         IN  /\ d \in [tp      : {"DEFAULT", "GROUP", "SINGLE"},
                       fsize   : 1 .. MaxFifo,
                       val_num : [Ele -> 1 .. MaxFifo],
                       rule    : [Ele -> Rules],
                       val_tp  : [Ele -> VAL_TP]]
             /\ \A i \in Ele : d.val_num[i] <= d.fsize
             /\ d.tp # "SINGLE" => \A i \in Ele : d.val_num[i] = d.fsize
  <1> DEFINE d == Corrected(c)
  <1>1. MaxFifo \in Nat \ {0}
    BY FifoAssumption
  <1>2. Fsize(c) \in 1 .. MaxFifo
    BY <1>1 DEF AppConfig, Fsize
  <1>3. /\ d.tp = c.tp /\ d.fsize = Fsize(c) /\ d.rule = c.rule /\ d.val_tp = c.val_tp
        /\ d.val_num = [i \in Ele |-> IF c.tp # "SINGLE" THEN Fsize(c)
                                      ELSE IF c.val_num[i] = 0 THEN 1 ELSE c.val_num[i]]
    BY DEF Corrected, AppConfig
  <1>4. d.val_num \in [Ele -> 1 .. MaxFifo]
    BY <1>1, <1>2, <1>3 DEF AppConfig
  <1>5. \A i \in Ele : d.val_num[i] <= d.fsize
    BY <1>1, <1>2, <1>3 DEF AppConfig, CheckConfig
  <1>6. d \in [tp      : {"DEFAULT", "GROUP", "SINGLE"},
               fsize   : 1 .. MaxFifo,
               val_num : [Ele -> 1 .. MaxFifo],
               rule    : [Ele -> Rules],
               val_tp  : [Ele -> VAL_TP]]
    BY <1>2, <1>4 DEF Corrected, AppConfig
  <1> QED
    BY <1>3, <1>5, <1>6

\* A device that was just opened satisfies the invariant.
LEMMA InitIInv == Init => IInv
  <1> SUFFICES ASSUME Init PROVE IInv
    OBVIOUS
  <1>1. PICK c \in AppConfig : CheckConfig(c) /\ cfg = Corrected(c)
    BY DEF Init
  <1>2. /\ cfg \in [tp      : {"DEFAULT", "GROUP", "SINGLE"},
                    fsize   : 1 .. MaxFifo,
                    val_num : [Ele -> 1 .. MaxFifo],
                    rule    : [Ele -> Rules],
                    val_tp  : [Ele -> VAL_TP]]
        /\ \A i \in Ele : cfg.val_num[i] <= cfg.fsize
        /\ cfg.tp # "SINGLE" => \A i \in Ele : cfg.val_num[i] = cfg.fsize
    BY <1>1, CorrectedIsNormal
  <1>3. /\ num = [i \in Ele |-> 0] /\ val = [i \in Ele |-> ZeroCells(cfg)] /\ overflow = FALSE
    BY DEF Init, PrepareAppFifo
  <1>4. 0 \in IntT
    BY HalfWordAssumption DEF IntT
  <1>5. TypeOK
    <2>1. num \in [Ele -> 0 .. MaxFifo]
      BY <1>3, FifoAssumption
    <2>2. ZeroCells(cfg) \in [0 .. cfg.fsize - 1 -> IntT]
      BY <1>4 DEF ZeroCells
    <2>3. val \in [Ele -> [0 .. cfg.fsize - 1 -> IntT]]
      BY <1>3, <2>2
    <2>4. overflow \in BOOLEAN
      BY <1>3
    <2> QED
      BY <1>2, <2>1, <2>3, <2>4 DEF TypeOK
  <1>6. FifoBounded
    BY <1>2, <1>3, FifoAssumption DEF FifoBounded
  <1>7. GroupFills /\ GroupLockstep
    BY <1>2, <1>3 DEF GroupFills, GroupLockstep
  <1>8. TailIsZero
    BY <1>2, <1>3 DEF TailIsZero, ZeroCells
  <1> QED
    BY <1>5, <1>6, <1>7, <1>8 DEF IInv

\* A group is stored as a whole or not at all.
LEMMA GroupStoredTogether ==
  ASSUME cfg.tp # "SINGLE", NEW sample, TypeOK
  PROVE  Stored(cfg, Rejected(sample)) \in {{}, Ele}
  BY DEF Stored, Rejected, TypeOK

\* The state of an acquisition between storing the sample and reporting.
Fill(st)          == [i \in Ele |-> IF i \in st THEN num[i] + 1 ELSE num[i]]
Cells(st, sample) == [i \in Ele |-> IF i \in st THEN [val[i] EXCEPT ![num[i]] = sample[i]]
                                              ELSE val[i]]

\* A stored sample: no element gets more values than its subscription asks
\* for, the cells stay values and those beyond the fill level stay zero.
LEMMA StoreFacts ==
  ASSUME IInv, NEW sample \in [Ele -> Vals], NEW st \in SUBSET Ele,
         cfg.tp # "SINGLE" => st \in {{}, Ele}
  PROVE  /\ \A i \in Ele : /\ Fill(st)[i] \in 0 .. cfg.val_num[i]
                           /\ cfg.val_num[i] <= cfg.fsize
                           /\ num[i] < cfg.fsize
         /\ Cells(st, sample) \in [Ele -> [0 .. cfg.fsize - 1 -> IntT]]
         /\ \A i \in Ele : \A k \in Fill(st)[i] .. cfg.fsize - 1 : Cells(st, sample)[i][k] = 0
         /\ cfg.tp # "SINGLE" => \A i, j \in Ele : Fill(st)[i] = Fill(st)[j]
  <1>1. /\ cfg.fsize \in 1 .. MaxFifo /\ MaxFifo \in Nat
        /\ \A i \in Ele : /\ num[i] \in 0 .. MaxFifo /\ cfg.val_num[i] \in 1 .. MaxFifo
                          /\ num[i] < cfg.val_num[i] /\ cfg.val_num[i] <= cfg.fsize
    BY FifoAssumption DEF IInv, TypeOK, FifoBounded
  <1>2. \A i \in Ele : sample[i] \in IntT
    BY FifoAssumption
  <1>3. \A i \in Ele : /\ Fill(st)[i] \in 0 .. cfg.val_num[i]
                       /\ cfg.val_num[i] <= cfg.fsize /\ num[i] < cfg.fsize
    BY <1>1 DEF Fill
  <1>4. Cells(st, sample) \in [Ele -> [0 .. cfg.fsize - 1 -> IntT]]
    <2>1. \A i \in Ele : val[i] \in [0 .. cfg.fsize - 1 -> IntT]
      BY DEF IInv, TypeOK
    <2>2. \A i \in Ele : [val[i] EXCEPT ![num[i]] = sample[i]] \in [0 .. cfg.fsize - 1 -> IntT]
      BY <1>2, <2>1
    <2> QED
      BY <2>1, <2>2 DEF Cells
  <1>5. ASSUME NEW i \in Ele, NEW k \in Fill(st)[i] .. cfg.fsize - 1
        PROVE  Cells(st, sample)[i][k] = 0
    <2>1. val[i] \in [0 .. cfg.fsize - 1 -> IntT]
      BY DEF IInv, TypeOK
    <2>2. k \in num[i] .. cfg.fsize - 1 /\ (i \in st => k # num[i])
      BY <1>1 DEF Fill
    <2>3. val[i][k] = 0
      BY <2>2 DEF IInv, TailIsZero
    <2>4. k \in 0 .. cfg.fsize - 1
      BY <1>1, <2>2
    <2> QED
      BY <2>1, <2>2, <2>3, <2>4 DEF Cells
  <1>6. cfg.tp # "SINGLE" => \A i, j \in Ele : Fill(st)[i] = Fill(st)[j]
    BY DEF IInv, GroupLockstep, Fill
  <1> QED
    BY <1>3, <1>4, <1>5, <1>6

\* An acquisition keeps the invariant: what is full after the store is emptied.
LEMMA AcquireIInv ==
  ASSUME IInv, NEW sample \in [Ele -> Vals], Acquire(sample)
  PROVE  IInv'
  <1> DEFINE st == Stored(cfg, Rejected(sample))
             n1 == Fill(st)
             v1 == Cells(st, sample)
  <1>1. st \in SUBSET Ele /\ (cfg.tp # "SINGLE" => st \in {{}, Ele})
    BY GroupStoredTogether DEF Stored, IInv
  <1>2. /\ overflow' = (overflow \/ \E i \in st : num[i] >= cfg.fsize)
        /\ num' = [i \in Ele |-> IF Ready(cfg, n1, i) THEN 0 ELSE n1[i]]
        /\ val' = [i \in Ele |-> IF Ready(cfg, n1, i) THEN Cleared(v1[i]) ELSE v1[i]]
        /\ cfg' = cfg
    BY DEF Acquire, Fill, Cells
  <1> HIDE DEF st
  <1>3. /\ \A i \in Ele : /\ n1[i] \in 0 .. cfg.val_num[i] /\ cfg.val_num[i] <= cfg.fsize
                          /\ num[i] < cfg.fsize
        /\ v1 \in [Ele -> [0 .. cfg.fsize - 1 -> IntT]]
        /\ \A i \in Ele : \A k \in n1[i] .. cfg.fsize - 1 : v1[i][k] = 0
        /\ cfg.tp # "SINGLE" => \A i, j \in Ele : n1[i] = n1[j]
    BY <1>1, StoreFacts
  <1> HIDE DEF n1, v1
  <1>4. /\ cfg.fsize \in 1 .. MaxFifo /\ MaxFifo \in Nat /\ 1 \in Ele
        /\ \A i \in Ele : num[i] \in 0 .. MaxFifo /\ cfg.val_num[i] \in 1 .. MaxFifo
        /\ (cfg.tp # "SINGLE" => \A i \in Ele : cfg.val_num[i] = cfg.fsize)
    BY FifoAssumption DEF IInv, TypeOK, GroupFills, Ele
  <1>5. overflow' = FALSE
    <2>1. ~overflow
      BY DEF IInv, FifoBounded
    <2>2. ~\E i \in st : num[i] >= cfg.fsize
      BY <1>1, <1>3, <1>4
    <2> QED
      BY <1>2, <2>1, <2>2
  <1>6. \A i \in Ele : num'[i] \in 0 .. MaxFifo /\ num'[i] < cfg.val_num[i]
    BY <1>2, <1>3, <1>4 DEF Ready
  <1>7. ASSUME NEW i \in Ele
        PROVE  Cleared(v1[i]) \in [0 .. cfg.fsize - 1 -> IntT]
               /\ \A k \in 0 .. cfg.fsize - 1 : Cleared(v1[i])[k] = 0
    <2>1. 0 \in IntT
      BY HalfWordAssumption DEF IntT
    <2> QED
      BY <1>3, <2>1 DEF Cleared
  <1>8. TypeOK'
    <2>1. val' \in [Ele -> [0 .. cfg.fsize - 1 -> IntT]]
      BY <1>2, <1>3, <1>7
    <2>2. num' \in [Ele -> 0 .. MaxFifo]
      BY <1>2, <1>6
    <2>3. overflow' \in BOOLEAN
      BY <1>5
    <2> QED
      BY <1>2, <2>1, <2>2, <2>3 DEF IInv, TypeOK
  <1>9. FifoBounded'
    BY <1>2, <1>3, <1>5, <1>6 DEF FifoBounded
  <1>10. GroupFills' /\ GroupLockstep'
    BY <1>2, <1>3, <1>4 DEF GroupFills, GroupLockstep, Ready
  <1>11. TailIsZero'
    <2> SUFFICES ASSUME NEW i \in Ele, NEW k \in num'[i] .. cfg.fsize - 1
                 PROVE  val'[i][k] = 0
      BY <1>2 DEF TailIsZero
    <2>1. k \in 0 .. cfg.fsize - 1
      BY <1>4, <1>6
    <2>2. CASE Ready(cfg, n1, i)
      BY <1>2, <1>7, <2>1, <2>2
    <2>3. CASE ~Ready(cfg, n1, i)
      BY <1>2, <1>3, <2>3
    <2> QED
      BY <2>2, <2>3
  <1> QED
    BY <1>8, <1>9, <1>10, <1>11 DEF IInv

\* Every step keeps the invariant.
LEMMA NextIInv == IInv /\ [Next]_vars => IInv'
  <1> SUFFICES ASSUME IInv, [Next]_vars PROVE IInv'
    OBVIOUS
  <1>1. CASE UNCHANGED <<cfg, num, val, overflow>>
    BY <1>1 DEF IInv, TypeOK, GroupFills, FifoBounded, GroupLockstep, TailIsZero
  <1>2. CASE \E sample \in [Ele -> Vals] : Acquire(sample)
    BY <1>2, AcquireIInv
  <1> QED
    BY <1>1, <1>2 DEF Next, AcquireFails, vars
-----------------------------------------------------------------------------
\* A set of numbers up to i that is not empty has a largest element.
LEMMA LargestExists ==
  ASSUME NEW i \in Nat, NEW S \in SUBSET (1 .. i), S # {}
  PROVE  \E j \in S : \A k \in S : k <= j
  <1> DEFINE T == {i - j : j \in S}
  <1>1. T \subseteq Nat /\ T # {}
    <2>1. \A j \in S : i - j \in Nat
      OBVIOUS
    <2>2. PICK j \in S : TRUE
      OBVIOUS
    <2>3. i - j \in T
      OBVIOUS
    <2> QED
      BY <2>1, <2>3
  <1>2. PICK x \in T : \A y \in T : ~(<<y, x>> \in OpToRel(<, Nat))
    BY <1>1, NatLessThanWellFounded, WFMin
  <1>3. \A y \in T : ~(y < x)
    BY <1>1, <1>2 DEF OpToRel
  <1>4. PICK j \in S : x = i - j
    OBVIOUS
  <1>5. \A k \in S : ~(i - k < i - j)
    BY <1>3, <1>4
  <1> QED
    BY <1>5

\* The index carried across the loop over the elements is the element's own
\* last cell, or, for an empty element, some cell of the buffer.
LEMMA PrevIndexFacts ==
  ASSUME IInv, NEW i \in Ele
  PROVE  /\ PrevIndex(num, i) \in 0 .. cfg.fsize - 1
         /\ num[i] > 0 => PrevIndex(num, i) = num[i] - 1
  <1> DEFINE filled == {j \in 1 .. i : num[j] > 0}
             last   == CHOOSE j \in filled : \A k \in filled : k <= j
  <1>1. /\ i \in 1 .. NEle /\ NEle \in Nat /\ cfg.fsize \in Nat \ {0}
        /\ \A j \in 1 .. i : num[j] \in Nat /\ num[j] < cfg.fsize
    <2>1. NEle \in Nat /\ MaxFifo \in Nat
      BY FifoAssumption
    <2>2. \A j \in Ele : num[j] \in Nat /\ num[j] < cfg.fsize
      BY <2>1 DEF IInv, TypeOK, FifoBounded
    <2> QED
      BY <2>1, <2>2 DEF IInv, TypeOK, Ele
  <1>2. ASSUME filled # {} PROVE last \in filled /\ \A k \in filled : k <= last
    <2>1. \E j \in filled : \A k \in filled : k <= j
      <3>1. filled \in SUBSET (1 .. i) /\ i \in Nat
        BY <1>1
      <3> HIDE DEF filled
      <3> QED
        BY <1>2, <3>1, LargestExists
    <2> QED
      BY <2>1, Zenon
  <1>3. PrevIndex(num, i) = IF filled = {} THEN 0 ELSE num[last] - 1
    BY Zenon DEF PrevIndex
  <1>4. CASE filled = {}
    BY <1>1, <1>3, <1>4
  <1>5. CASE filled # {}
    <2>1. last \in 1 .. i /\ num[last] > 0 /\ \A k \in filled : k <= last
      BY <1>2, <1>5
    <2>2. num[i] > 0 => last = i
      <3>1. num[i] > 0 => i \in filled
        BY <1>1
      <3> HIDE DEF last
      <3> QED
        BY <1>1, <2>1, <3>1
    <2> HIDE DEF last
    <2> QED
      BY <1>1, <1>3, <1>5, <2>1, <2>2
  <1> QED
    BY <1>4, <1>5

\* The invariant gives the filter the right previous value.
LEMMA PreviousFromIInv == IInv => PreviousIsOwn
  <1> SUFFICES ASSUME IInv, NEW i \in Ele
               PROVE  /\ PrevIndex(num, i) < cfg.fsize
                      /\ val[i][PrevIndex(num, i)]
                           = IF num[i] = 0 THEN 0 ELSE val[i][num[i] - 1]
    BY DEF PreviousIsOwn
  <1>1. num[i] \in Nat /\ cfg.fsize \in Nat
    BY FifoAssumption DEF IInv, TypeOK
  <1>2. \A k \in num[i] .. cfg.fsize - 1 : val[i][k] = 0
    BY DEF IInv, TailIsZero
  <1> QED
    BY <1>1, <1>2, PrevIndexFacts
-----------------------------------------------------------------------------
\* The state of the data path is well typed: every element keeps a buffer of
\* exactly fifo_size values.
THEOREM TypeCorrect == Spec => []TypeOK
  <1>1. IInv => TypeOK
    BY DEF IInv
  <1> QED
    BY InitIInv, NextIInv, <1>1, PTL DEF Spec

\* Whatever configuration check_config accepts and whatever the filter lets
\* through, no sample is ever written past the end of its buffer.
THEOREM NeverOverflows == Spec => []FifoBounded
  <1>1. IInv => FifoBounded
    BY DEF IInv
  <1> QED
    BY InitIInv, NextIInv, <1>1, PTL DEF Spec

\* Testing the first element of a group for fullness is enough.
THEOREM GroupsStayInStep == Spec => []GroupLockstep
  <1>1. IInv => GroupLockstep
    BY DEF IInv
  <1> QED
    BY InitIInv, NextIInv, <1>1, PTL DEF Spec

\* The filter always compares a sample with the element's own last value, or
\* with 0 at the beginning of a chunk, although one index variable serves all
\* elements and is not reset between them.
THEOREM FilterSeesOwnValue == Spec => []PreviousIsOwn
  BY InitIInv, NextIInv, PreviousFromIInv, PTL DEF Spec
-----------------------------------------------------------------------------
(* SensorFifo implements SensorReport.                                     *)

\* The values the application has yet to see, per element.
Pending == [i \in Ele |-> Prefix(val[i], num[i])]

\* A prefix of the cells is a sequence of its length.
LEMMA PrefixSeq ==
  \A m \in Nat : \A f \in [0 .. m - 1 -> IntT], n \in 0 .. m :
    /\ Prefix(f, n) \in Seq(IntT) /\ Len(Prefix(f, n)) = n
    /\ \A k \in 1 .. n : Prefix(f, n)[k] = f[k - 1]
  <1> TAKE m \in Nat
  <1> TAKE f \in [0 .. m - 1 -> IntT], n \in 0 .. m
  <1>1. Prefix(f, n) = [k \in 1 .. n |-> f[k - 1]]
    BY DEF Prefix
  <1>2. \A k \in 1 .. n : f[k - 1] \in IntT
    OBVIOUS
  <1> QED
    BY <1>1, <1>2

\* An empty prefix is the empty sequence.
LEMMA PrefixEmpty ==
  ASSUME NEW f
  PROVE  Prefix(f, 0) = <<>>
  BY DEF Prefix

\* Storing at the fill level appends.
LEMMA PrefixAppend ==
  \A m \in Nat : \A f \in [0 .. m - 1 -> IntT], n \in 0 .. m - 1, x \in IntT :
    Prefix([f EXCEPT ![n] = x], n + 1) = Append(Prefix(f, n), x)
  <1> TAKE m \in Nat
  <1> TAKE f \in [0 .. m - 1 -> IntT], n \in 0 .. m - 1, x \in IntT
  <1> DEFINE g == [f EXCEPT ![n] = x]
  <1>1. g \in [0 .. m - 1 -> IntT] /\ g[n] = x /\ \A k \in 0 .. m - 1 : k # n => g[k] = f[k]
    OBVIOUS
  <1>2. /\ Prefix(f, n) \in Seq(IntT) /\ Len(Prefix(f, n)) = n
        /\ \A k \in 1 .. n : Prefix(f, n)[k] = f[k - 1]
    <2>1. n \in 0 .. m
      OBVIOUS
    <2> QED
      BY <2>1, PrefixSeq
  <1>3. /\ Prefix(g, n + 1) \in Seq(IntT) /\ Len(Prefix(g, n + 1)) = n + 1
        /\ \A k \in 1 .. n + 1 : Prefix(g, n + 1)[k] = g[k - 1]
    <2> HIDE DEF g
    <2>1. n + 1 \in 0 .. m
      OBVIOUS
    <2> QED
      BY <1>1, <2>1, PrefixSeq
  <1>4. /\ Append(Prefix(f, n), x) \in Seq(IntT) /\ Len(Append(Prefix(f, n), x)) = n + 1
        /\ \A k \in 1 .. n + 1 :
             Append(Prefix(f, n), x)[k] = IF k <= n THEN Prefix(f, n)[k] ELSE x
    BY <1>2
  <1>5. \A k \in 1 .. n + 1 : Prefix(g, n + 1)[k] = Append(Prefix(f, n), x)[k]
    <2> SUFFICES ASSUME NEW k \in 1 .. n + 1
                 PROVE  Prefix(g, n + 1)[k] = Append(Prefix(f, n), x)[k]
      OBVIOUS
    <2> HIDE DEF g
    <2>1. Prefix(g, n + 1)[k] = g[k - 1]
      BY <1>3
    <2>2. CASE k <= n
      BY <1>1, <1>2, <1>4, <2>1, <2>2
    <2>3. CASE k = n + 1
      BY <1>1, <1>4, <2>1, <2>3
    <2>4. k <= n \/ k = n + 1
      OBVIOUS
    <2> QED
      BY <2>2, <2>3, <2>4
  <1> HIDE DEF g
  <1>6. Prefix(g, n + 1) = Append(Prefix(f, n), x)
    BY <1>3, <1>4, <1>5, SeqEqual
  <1> QED
    BY <1>6 DEF g

\* The two modules judge a sample by the same filter.
LEMMA SameFilter ==
  ASSUME NEW a, NEW b, NEW r, NEW t
  PROVE  Report!NeedFilter(a, b, r, t) = NeedFilter(a, b, r, t)
  BY DEF Report!NeedFilter, NeedFilter, Report!SR_IS_VAL_OVER_RANG, SR_IS_VAL_OVER_RANG,
         Report!SR_IS_VAL_DIFF_IN_STEP, SR_IS_VAL_DIFF_IN_STEP, Report!ToUint, ToUint,
         Report!UintAdd, UintAdd, Report!UintSub, UintSub, Report!WordSize, WordSize

\* A device that was just opened is an idle Report device.
LEMMA InitReport == Init => Report!Init
  <1> SUFFICES ASSUME Init PROVE Report!Init
    OBVIOUS
  <1>1. IInv
    BY InitIInv
  <1>2. num = [i \in Ele |-> 0] /\ out = Nothing
    BY DEF Init, PrepareAppFifo
  <1>3. Pending = [i \in Ele |-> <<>>]
    BY <1>2, PrefixEmpty DEF Pending
  <1>4. cfg \in Report!Config
    BY <1>1 DEF IInv, TypeOK, Report!Config, Report!Ele, Ele, Report!VAL_TP, VAL_TP
  <1> QED
    BY <1>2, <1>3, <1>4 DEF Report!Init, Report!Nothing, Nothing, Report!Ele, Ele, Pending

\* The value an element's samples are compared with is the abstract one.
LEMMA SamePrevious ==
  ASSUME IInv, NEW i \in Ele
  PROVE  Report!Previous(i) = val[i][PrevIndex(num, i)]
  <1>1. /\ cfg.fsize \in Nat /\ val[i] \in [0 .. cfg.fsize - 1 -> IntT]
        /\ num[i] \in 0 .. cfg.fsize
    BY FifoAssumption DEF IInv, TypeOK, FifoBounded
  <1>2. /\ Len(Prefix(val[i], num[i])) = num[i]
        /\ \A k \in 1 .. num[i] : Prefix(val[i], num[i])[k] = val[i][k - 1]
    BY <1>1, PrefixSeq
  <1>3. val[i][PrevIndex(num, i)] = IF num[i] = 0 THEN 0 ELSE val[i][num[i] - 1]
    BY PreviousFromIInv DEF PreviousIsOwn
  <1>4. Prefix(val[i], num[i]) = <<>> <=> num[i] = 0
    BY <1>1, <1>2, PrefixEmpty
  <1>5. Report!Previous(i) = IF Prefix(val[i], num[i]) = <<>> THEN 0
                             ELSE Prefix(val[i], num[i])[Len(Prefix(val[i], num[i]))]
    BY DEF Report!Previous
  <1> QED
    BY <1>1, <1>2, <1>3, <1>4, <1>5

\* The code stores exactly the elements the specification accepts.
LEMMA SameAccepted ==
  ASSUME IInv, NEW sample
  PROVE  Report!Accepted(sample) = Stored(cfg, Rejected(sample))
  <1>1. Report!Ele = Ele
    BY DEF Report!Ele, Ele
  <1>2. Report!Rejected(sample) = Rejected(sample)
    BY <1>1, SamePrevious, SameFilter DEF Report!Rejected, Rejected
  <1> QED
    BY <1>1, <1>2 DEF Report!Accepted, Stored

\* An acquisition takes the sample.
LEMMA AcquireTakes ==
  ASSUME IInv, NEW sample \in [Ele -> Vals], Acquire(sample)
  PROVE  Report!Take(sample)
  <1> DEFINE st == Stored(cfg, Rejected(sample))
             n1 == Fill(st)
             v1 == Cells(st, sample)
             grown(i) == IF i \in st THEN Append(Pending[i], sample[i]) ELSE Pending[i]
  <1>1. st \in SUBSET Ele /\ (cfg.tp # "SINGLE" => st \in {{}, Ele})
    BY GroupStoredTogether DEF Stored, IInv
  <1>2. /\ out' = [i \in Ele |-> IF Ready(cfg, n1, i) THEN Prefix(v1[i], n1[i]) ELSE <<>>]
        /\ num' = [i \in Ele |-> IF Ready(cfg, n1, i) THEN 0 ELSE n1[i]]
        /\ val' = [i \in Ele |-> IF Ready(cfg, n1, i) THEN Cleared(v1[i]) ELSE v1[i]]
        /\ cfg' = cfg
    BY DEF Acquire, Fill, Cells
  <1>3. Report!Accepted(sample) = st
    BY SameAccepted
  <1> HIDE DEF st
  <1>4. /\ cfg.fsize \in Nat /\ MaxFifo \in Nat /\ 1 \in Ele
        /\ \A i \in Ele : /\ num[i] \in 0 .. cfg.fsize - 1 /\ cfg.val_num[i] \in Nat
                          /\ val[i] \in [0 .. cfg.fsize - 1 -> IntT] /\ sample[i] \in IntT
        /\ (cfg.tp # "SINGLE" => \A i \in Ele : cfg.val_num[i] = cfg.fsize)
    BY FifoAssumption DEF IInv, TypeOK, FifoBounded, GroupFills, Ele
  <1>5. /\ \A i \in Ele : n1[i] \in 0 .. cfg.val_num[i] /\ cfg.val_num[i] <= cfg.fsize
        /\ v1 \in [Ele -> [0 .. cfg.fsize - 1 -> IntT]]
        /\ cfg.tp # "SINGLE" => \A i, j \in Ele : n1[i] = n1[j]
    BY <1>1, StoreFacts
  <1>6. \A i \in Ele : Ready(cfg, n1, i) <=> n1[i] = cfg.val_num[i]
    <2> HIDE DEF n1
    <2> QED
      BY <1>4, <1>5 DEF Ready
  <1>7. ASSUME NEW i \in Ele PROVE grown(i) = Prefix(v1[i], n1[i])
    <2>1. CASE i \in st
      <3>1. n1[i] = num[i] + 1 /\ v1[i] = [val[i] EXCEPT ![num[i]] = sample[i]]
        BY <2>1 DEF Fill, Cells
      <3>2. Prefix([val[i] EXCEPT ![num[i]] = sample[i]], num[i] + 1)
              = Append(Prefix(val[i], num[i]), sample[i])
        <4>1. /\ cfg.fsize \in Nat /\ num[i] \in 0 .. cfg.fsize - 1
              /\ val[i] \in [0 .. cfg.fsize - 1 -> IntT] /\ sample[i] \in IntT
          BY <1>4
        <4> QED
          BY <4>1, PrefixAppend
      <3> QED
        BY <2>1, <3>1, <3>2 DEF Pending
    <2>2. CASE i \notin st
      BY <2>2 DEF Pending, Fill, Cells
    <2> QED
      BY <2>1, <2>2
  <1>8. ASSUME NEW i \in Ele PROVE Len(grown(i)) = n1[i]
    <2> HIDE DEF grown, n1, v1
    <2>1. /\ v1[i] \in [0 .. cfg.fsize - 1 -> IntT] /\ n1[i] \in 0 .. cfg.fsize
      <3>1. n1[i] \in 0 .. cfg.val_num[i] /\ cfg.val_num[i] \in Nat /\ cfg.val_num[i] <= cfg.fsize
        BY <1>4, <1>5
      <3>2. v1[i] \in [0 .. cfg.fsize - 1 -> IntT]
        BY <1>5
      <3>3. cfg.fsize \in Nat
        BY <1>4
      <3> QED
        BY <3>1, <3>2, <3>3
    <2>2. Len(Prefix(v1[i], n1[i])) = n1[i]
      <3>1. cfg.fsize \in Nat
        BY <1>4
      <3> QED
        BY <2>1, <3>1, PrefixSeq
    <2> QED
      BY <1>7, <2>2
  <1>9. Pending' = [i \in Ele |-> IF Len(grown(i)) = cfg.val_num[i] THEN <<>> ELSE grown(i)]
    <2> HIDE DEF grown, n1, v1
    <2>1. ASSUME NEW i \in Ele
          PROVE  Prefix(val'[i], num'[i]) = IF Len(grown(i)) = cfg.val_num[i] THEN <<>>
                                            ELSE grown(i)
      <3>1. CASE Ready(cfg, n1, i)
        BY <1>2, <1>6, <1>8, <3>1, PrefixEmpty
      <3>2. CASE ~Ready(cfg, n1, i)
        BY <1>2, <1>6, <1>7, <1>8, <3>2
      <3> QED
        BY <3>1, <3>2
    <2> QED
      BY <2>1 DEF Pending
  <1>10. out' = [i \in Ele |-> IF Len(grown(i)) = cfg.val_num[i] THEN grown(i) ELSE <<>>]
    <2> HIDE DEF grown, n1, v1
    <2> QED
      BY <1>2, <1>6, <1>7, <1>8
  <1> QED
    BY <1>2, <1>3, <1>9, <1>10 DEF Report!Take, Report!Ele, Ele, Pending

\* Every step of the code is a step of the specification or a stutter.
LEMMA NextReport == IInv /\ [Next]_vars => [Report!Next]_(Report!vars)
  <1> SUFFICES ASSUME IInv, [Next]_vars PROVE [Report!Next]_(Report!vars)
    OBVIOUS
  <1>1. CASE \E sample \in [Ele -> Vals] : Acquire(sample)
    BY <1>1, AcquireTakes DEF Report!Next, Report!Ele, Ele
  <1>2. CASE AcquireFails
    BY <1>2 DEF AcquireFails, Report!Next, Report!Miss, Report!Nothing, Nothing, Report!Ele, Ele
  <1>3. CASE UNCHANGED vars
    BY <1>3 DEF vars, Report!vars
  <1> QED
    BY <1>1, <1>2, <1>3 DEF Next

\* Buffers, indices and clearing deliver what SensorReport promises: each kept
\* sample once, in order, in chunks of exactly the subscribed size, for every
\* accepted configuration and every stream of samples.
THEOREM ImplementsReport == Spec => RefinesReport
  BY InitIInv, NextIInv, InitReport, NextReport, PTL DEF Spec, RefinesReport, Report!Spec
=============================================================================
