--------------------------- MODULE IrDeviceProofs ---------------------------
(***************************************************************************)
(* The infrared device for any ring, any queue and any set of              *)
(* transmissions.                                                          *)
(***************************************************************************)
EXTENDS IrDevice, TLAPS

Idx == 0 .. BufLen - 1

\* The remainder of a number below twice the divisor.
LEMMA ModFacts ==
  ASSUME NEW n \in Nat \ {0}, NEW x \in Nat, x < 2 * n
  PROVE  x % n = IF x < n THEN x ELSE x - n
BY SMTT(30)

\* The length of the ring without a remainder.
LEMMA LengthFacts ==
  ASSUME NEW r \in Idx, NEW w \in Idx
  PROVE  RingLength(r, w) = IF r <= w THEN w - r ELSE BufLen + w - r
<1>1. PICK x \in Nat : x = BufLen + w - r
  BY IrAssumption DEF Idx
<1>2. x < 2 * BufLen /\ BufLen \in Nat \ {0}
  BY <1>1, IrAssumption DEF Idx
<1>3. x % BufLen = IF x < BufLen THEN x ELSE x - BufLen
  BY <1>2, ModFacts
<1>4. QED BY <1>1, <1>2, <1>3, IrAssumption DEF RingLength, Idx

\* The test for a full ring without a remainder.
LEMMA FullFacts ==
  ASSUME NEW r \in Idx, NEW w \in Idx
  PROVE  IsFull(r, w) <=> Next1(w) = r
<1>1. PICK x \in Nat : x = w + 1
  BY DEF Idx
<1>2. x < 2 * BufLen /\ BufLen \in Nat \ {0}
  BY <1>1, IrAssumption DEF Idx
<1>3. x % BufLen = IF x < BufLen THEN x ELSE x - BufLen
  BY <1>2, ModFacts
<1>4. QED BY <1>1, <1>2, <1>3, IrAssumption DEF IsFull, Next1, Idx
-----------------------------------------------------------------------------
(* Sending.                                                                *)

\* Where a send stands: not begun, not on the air, on the air, ended with the
\* token still there, ended and woken up.
Free      == ~timer /\ sem = 0
NotBegun  == Free /\ sendSt = "IDLE"
Unstarted == Free /\ sendSt = "SENDING" /\ aired = 0
Total     == IF bad < len THEN bad ELSE len * cnt
OnAir ==
  /\ timer /\ sem = 0 /\ sendSt = "SENDING"
  /\ sendLen = len /\ sendIdx <= len /\ sendCnt < cnt
  /\ aired = (cnt - 1 - sendCnt) * len + sendIdx
  /\ bad < len => sendIdx <= bad /\ sendCnt = cnt - 1
Ended     == ~timer /\ sem = 1 /\ sendSt = "FINISH" /\ aired = Total
Woken     == Free /\ sendSt = "FINISH" /\ aired = Total

SendType ==
  /\ timer \in BOOLEAN /\ sem \in {0, 1}
  /\ sendIdx \in Nat /\ sendLen \in Nat /\ sendCnt \in Nat
  /\ len \in Nat /\ bad \in Nat /\ cnt \in Nat /\ aired \in Nat

SendInv ==
  /\ SendType
  /\ pc \notin Sending => NotBegun
  /\ pc \in {"fill", "start", "wait"} => len > 0 /\ cnt > 0 /\ bad <= len
  /\ pc = "fill"  => Free
  /\ pc = "start" => Unstarted /\ sendIdx = 0 /\ sendLen = len /\ sendCnt = cnt - 1
  /\ pc = "wait"  => Unstarted \/ OnAir \/ Ended
  /\ pc = "abort" => Unstarted
  /\ pc = "done"  => Unstarted \/ Woken

\* Edges, the receive task and fetching leave the sending side alone.
LEMMA SendFrame ==
  ASSUME Edge \/ Task \/ Fetch(<<>>) \/ Fetch(Tail(recvq))
  PROVE  UNCHANGED <<pc, timer, sendVars, reqVars, aired>>
<1>1. CASE Edge
  BY <1>1 DEF Edge, EdgeOverflow, EdgeStarts, EdgeStored, drvVars
<1>2. CASE Task
  BY <1>2 DEF Task, TaskTop, TaskFetch, TaskTimeout, TaskEnds,
      TaskFinish, TaskRead, TaskPost, TaskReset, TaskLeave, TaskDelete, drvVars
<1>3. CASE Fetch(<<>>) \/ Fetch(Tail(recvq))
  BY <1>3 DEF Fetch, drvVars
<1>4. QED BY <1>1, <1>2, <1>3

\* One repetition more.
LEMMA Repetition ==
  ASSUME NEW k \in Int, NEW n \in Int
  PROVE  (k + 1) * n = k * n + n
OBVIOUS

\* SendInv does not look at more than the sending side.
LEMMA SendUnchanged ==
  ASSUME SendInv, UNCHANGED <<pc, timer, sendVars, reqVars, aired>>
  PROVE  SendInv'
BY DEF SendInv, SendType, NotBegun, Free, Unstarted, OnAir, Ended, Woken, Total,
       Sending, sendVars, reqVars

\* Every step keeps the state of the send.
LEMMA SendStep ==
  ASSUME SendInv, [Next]_vars, Kept({"short"})
  PROVE  SendInv'
<1> USE DEF SendInv, SendType, NotBegun, Free, Unstarted, OnAir, Ended, Woken,
      Total, Sending, sendVars, reqVars, drvVars
<1>1. ASSUME UNCHANGED vars PROVE SendInv'
  BY <1>1, SendUnchanged DEF vars
<1>2. ASSUME Edge \/ Task \/ Fetch(<<>>) \/ Fetch(Tail(recvq))
      PROVE  SendInv'
  BY <1>2, SendFrame, SendUnchanged
<1>3. ASSUME IsrDone PROVE SendInv'
  <2>1. pc = "wait" /\ OnAir
    BY <1>3 DEF IsrDone
  <2>2. sendCnt = 0 /\ sendIdx = len /\ ~(bad < len)
    BY <1>3, <2>1 DEF IsrDone, FrameOver
  <2>3. aired = len * cnt
    <3>1. aired = (cnt - 1) * len + len
      BY <2>1, <2>2
    <3>2. (cnt - 1 + 1) * len = (cnt - 1) * len + len
      BY Repetition
    <3>3. QED BY <3>1, <3>2
  <2>4. Ended' /\ UNCHANGED <<pc, reqVars, aired>>
    BY <1>3, <2>2, <2>3 DEF IsrDone, SendFinish, SendFinishProcess
  <2>5. QED BY <1>3, <2>1, <2>4 DEF IsrDone, SendFinish, SendFinishProcess
<1>4. ASSUME IsrOutputFails PROVE SendInv'
  <2>1. pc = "wait" /\ OnAir
    BY <1>4 DEF IsrOutputFails
  <2>2. sendIdx = bad /\ bad < len
    BY <1>4, <2>1 DEF IsrOutputFails, OutputIdx, FrameOver
  <2>3. aired = bad
    BY <2>1, <2>2
  <2>4. Ended' /\ UNCHANGED <<pc, reqVars, aired>>
    BY <1>4, <2>2, <2>3 DEF IsrOutputFails, SendFinish, SendFinishProcess
  <2>5. QED BY <1>4, <2>1, <2>4 DEF IsrOutputFails, SendFinish,
      SendFinishProcess
<1>5. ASSUME IsrOutput PROVE SendInv'
  <2>1. pc = "wait" /\ OnAir
    BY <1>5 DEF IsrOutput
  <2>2. CASE FrameOver
    <3>1. sendIdx = len /\ sendCnt > 0 /\ ~(bad < len) /\ sendIdx' = 1 /\ sendCnt' = sendCnt - 1
      BY <1>5, <2>1, <2>2 DEF IsrOutput, OutputIdx, FrameOver
    <3>2. (cnt - 1 - sendCnt + 1) * len = (cnt - 1 - sendCnt) * len + len
      BY Repetition
    <3>3. aired' = (cnt - 1 - sendCnt') * len + sendIdx'
      BY <1>5, <2>1, <3>1, <3>2 DEF IsrOutput
    <3>4. QED BY <1>5, <2>1, <3>1, <3>3 DEF IsrOutput
  <2>3. CASE ~FrameOver
    BY <1>5, <2>1, <2>3 DEF IsrOutput, OutputIdx, FrameOver
  <2>4. QED BY <2>2, <2>3
<1>6. ASSUME SendFill PROVE SendInv'
  BY <1>6 DEF SendFill
<1>7. ASSUME SendStart PROVE SendInv'
  <2>1. (cnt - 1 - sendCnt) * len + sendIdx = 0
    BY <1>7 DEF SendStart
  <2>2. CASE timer'
    <3>1. OnAir'
      BY <1>7, <2>1, <2>2 DEF SendStart, SendFinishProcess
    <3>2. QED BY <1>7, <3>1 DEF SendStart
  <2>3. CASE ~timer'
    BY <1>7, <2>3 DEF SendStart, SendFinishProcess
  <2>4. QED BY <2>2, <2>3
<1>8. ASSUME SendWake PROVE SendInv'
  BY <1>8 DEF SendWake
<1>9. ASSUME SendTimeout PROVE SendInv'
  BY <1>9 DEF SendTimeout, AfterTimeout, Kept
<1>10. ASSUME SendAbort PROVE SendInv'
  BY <1>10 DEF SendAbort, SendFinishProcess
<1>11. ASSUME SendReturn PROVE SendInv'
  BY <1>11 DEF SendReturn
<1>12. ASSUME OpenResources PROVE SendInv'
  BY <1>12 DEF OpenResources, RecvServerStart, TaskStarted
<1>13. ASSUME OpenDone PROVE SendInv'
  BY <1>13 DEF OpenDone
<1>14. ASSUME CloseDrain PROVE SendInv'
  BY <1>14 DEF CloseDrain
<1>15. ASSUME CloseFree PROVE SendInv'
  BY <1>15 DEF CloseFree
<1>16. ASSUME CloseDone PROVE SendInv'
  BY <1>16 DEF CloseDone, RxAfterClose
<1>17. ASSUME RecvTaskStop PROVE SendInv'
  BY <1>17 DEF RecvTaskStop
<1>18. ASSUME NEW n \in SendLens, NEW c \in SendCnts, NEW b \in 0 .. n,
           SendCall(n, b, c)
      PROVE  SendInv'
  BY <1>18, IrAssumption DEF SendCall
<1>19. ASSUME NEW m \in Modes, NEW p \in Prots, OpenDriver(m, p)
      PROVE  SendInv'
  BY <1>19 DEF OpenDriver
<1>20. ASSUME CloseCall PROVE SendInv'
  BY <1>20 DEF CloseCall
<1>21. ASSUME SendHwReset PROVE SendInv'
  BY <1>21 DEF SendHwReset
<1>22. ASSUME RecvHwInit PROVE SendInv'
  BY <1>22 DEF RecvHwInit
<1>23. ASSUME NEW next \in {"idle", "stop"}, RecvHwDeinit(next)
      PROVE  SendInv'
  BY <1>23 DEF RecvHwDeinit
<1>24. ASSUME RecvTaskStart PROVE SendInv'
  BY <1>24 DEF RecvTaskStart, RecvServerStart, TaskStarted
<1>25. QED BY <1>1, <1>2, <1>3, <1>4, <1>5, <1>6, <1>7, <1>8, <1>9, <1>10,
      <1>11, <1>12, <1>13, <1>14, <1>15, <1>16, <1>17, <1>18, <1>19, <1>20,
      <1>21, <1>22, <1>23, <1>24
  DEF Next, Isr, AppContinues, AppCalls, Edge, Task

\* A registered device does not send.
LEMMA SendInit ==
  ASSUME Init
  PROVE  SendInv
<1>1. /\ pc = "idle" /\ timer = FALSE /\ sendSt = "IDLE" /\ sem = 0
      /\ sendIdx = 0 /\ sendLen = 0 /\ sendCnt = 0
      /\ len = 0 /\ bad = 0 /\ cnt = 0 /\ aired = 0
  BY DEF Init
<1>2. QED BY <1>1 DEF SendInv, SendType, NotBegun, Free, Sending

\* When tdl_ir_dev_send has returned, the timer is off, no token is left and the
\* device is free, provided no transmission outlasts the wait: for any set of
\* transmissions and any interleaving.
THEOREM SendBlocksAlwaysShort == Spec => []SendBlocks
<1>1. CASE ~Kept({"short"})
  BY <1>1, PTL DEF SendBlocks
<1>2. CASE Kept({"short"})
  <2>1. Init => SendInv
    BY SendInit
  <2>2. SendInv /\ [Next]_vars => SendInv'
    BY <1>2, SendStep
  <2>3. SendInv => SendBlocks
    BY DEF SendInv, SendBlocks, NotBegun, Free
  <2>4. QED BY <2>1, <2>2, <2>3, PTL DEF Spec
<1>3. QED BY <1>1, <1>2

\* When tdl_ir_dev_send returns, exactly the codes of every repetition have gone
\* out, or those before the first one that cannot be output, or none when the
\* transmission never started.
THEOREM AirExactShort == Spec => []AirExact
<1>1. CASE ~Kept({"short"})
  BY <1>1, PTL DEF AirExact
<1>2. CASE Kept({"short"})
  <2>1. SendInv /\ [Next]_vars => SendInv'
    BY <1>2, SendStep
  <2>2. SendInv => AirExact
    BY DEF SendInv, AirExact, Unstarted, Woken, Total, Free
  <2>3. QED BY SendInit, <2>1, <2>2, PTL DEF Spec
<1>3. QED BY <1>1, <1>2
-----------------------------------------------------------------------------
(* Receiving, when the application keeps the rules.                        *)

Opening == {"open", "opened"}
Closing == {"close", "drained", "freed"}

\* What each stage of a call means.
PcInv ==
  /\ pc \in Opening => ~open /\ recvSt = "IDLE"
  /\ pc = "open" => Settled
  /\ pc \in Sending \cup Closing \cup {"stop", "restart"} => open
  /\ pc = "fill" => cnt > 0
  /\ pc \in {"stop", "restart"} => ReceiverUp
  /\ pc \in Closing \cup {"stop"} => recvSt = "IDLE"
  /\ pc = "freed" => ~ringUp

\* When the interrupt may be on, and that the ring is there by then.
RxInv ==
  /\ rx => Receives /\ (open \/ pc \in Opening) /\ ~rxClosed
  /\ open /\ Receives /\ ~rxClosed /\ pc # "freed" => ringUp
  /\ pc = "opened" /\ Receives => ringUp
  /\ pc = "stop" => rxClosed
  /\ timer => open
  /\ ringUp => Receives /\ (open \/ pc = "opened")

\* Task, notification and recv_status belong together.
TaskInv ==
  /\ task \in Busy => recvSt # "IDLE"
  /\ task \in Busy \ {"wait"} => recvSt = "FINISH"
  /\ recvSt # "IDLE" => ringUp /\ (task \in Busy <=> notif = 0)
  /\ recvSt = "IDLE" /\ ringUp => notif = 0
  /\ notif <= 1
  /\ ringUp => task \in Busy \cup {"top", "fetch"}
  /\ notifUp <=> task \notin {"none", "delete"}
  /\ ~notifUp => notif = 0

ControlInv == PcInv /\ RxInv /\ TaskInv

\* Every step keeps them.
LEMMA ControlStep ==
  ASSUME TypeOK, ControlInv, [Next]_vars, Kept(ReceiverRules)
  PROVE  ControlInv'
<1> USE DEF ControlInv, Settled, PcInv, RxInv, TaskInv, TypeOK, Opening,
      Closing, Sending, Busy, ReceiverUp, Receives, Quiet, Kept,
      ReceiverRules, Modes, Prots, drvVars, cfgVars, sendVars, ringVars,
      taskVars, reqVars, recvVars
<1>1. ASSUME UNCHANGED vars PROVE ControlInv'
  BY <1>1 DEF vars
<1>2. ASSUME IsrDone PROVE ControlInv'
  BY <1>2 DEF IsrDone, SendFinish, SendFinishProcess, RxAfterSending
<1>3. ASSUME IsrOutputFails PROVE ControlInv'
  BY <1>3 DEF IsrOutputFails, SendFinish, SendFinishProcess, RxAfterSending
<1>4. ASSUME IsrOutput PROVE ControlInv'
  BY <1>4 DEF IsrOutput, OutputIdx, FrameOver
<1>5. ASSUME SendFill PROVE ControlInv'
  BY <1>5 DEF SendFill
<1>6. ASSUME SendStart PROVE ControlInv'
  BY <1>6 DEF SendStart, SendFinishProcess, RxAfterSending, RxWhileSending
<1>7. ASSUME SendWake PROVE ControlInv'
  BY <1>7 DEF SendWake
<1>8. ASSUME SendTimeout PROVE ControlInv'
  BY <1>8 DEF SendTimeout, AfterTimeout
<1>9. ASSUME SendAbort PROVE ControlInv'
  BY <1>9 DEF SendAbort, SendFinishProcess, RxAfterSending
<1>10. ASSUME SendReturn PROVE ControlInv'
  BY <1>10 DEF SendReturn
<1>11. ASSUME OpenResources PROVE ControlInv'
  BY <1>11 DEF OpenResources, RecvServerStart, TaskStarted
<1>12. ASSUME OpenDone PROVE ControlInv'
  BY <1>12 DEF OpenDone
<1>13. ASSUME CloseDrain PROVE ControlInv'
  BY <1>13 DEF CloseDrain
<1>14. ASSUME CloseFree PROVE ControlInv'
  BY <1>14 DEF CloseFree
<1>15. ASSUME CloseDone PROVE ControlInv'
  BY <1>15 DEF CloseDone, RxAfterClose
<1>16. ASSUME RecvTaskStop PROVE ControlInv'
  BY <1>16 DEF RecvTaskStop
<1>17. ASSUME NEW n \in SendLens, NEW c \in SendCnts, NEW b \in 0 .. n,
           SendCall(n, b, c)
      PROVE  ControlInv'
  BY <1>17, IrAssumption DEF SendCall
<1>18. ASSUME NEW m \in Modes, NEW p \in Prots, OpenDriver(m, p)
      PROVE  ControlInv'
  BY <1>18 DEF OpenDriver
<1>19. ASSUME CloseCall PROVE ControlInv'
  BY <1>19 DEF CloseCall
<1>20. ASSUME SendHwReset PROVE ControlInv'
  BY <1>20 DEF SendHwReset
<1>21. ASSUME RecvHwInit PROVE ControlInv'
  BY <1>21 DEF RecvHwInit
<1>22. ASSUME NEW next \in {"idle", "stop"}, RecvHwDeinit(next)
      PROVE  ControlInv'
  BY <1>22 DEF RecvHwDeinit
<1>23. ASSUME RecvTaskStart PROVE ControlInv'
  BY <1>23 DEF RecvTaskStart, RecvServerStart, TaskStarted
<1>24. ASSUME Fetch(<<>>) PROVE ControlInv'
  BY <1>24 DEF Fetch
<1>25. ASSUME Fetch(Tail(recvq)) PROVE ControlInv'
  BY <1>25 DEF Fetch
<1>27. ASSUME EdgeOverflow PROVE ControlInv'
  BY <1>27 DEF EdgeOverflow, Light
<1>28. ASSUME EdgeStarts PROVE ControlInv'
  BY <1>28 DEF EdgeStarts, Light
<1>29. ASSUME EdgeStored PROVE ControlInv'
  BY <1>29 DEF EdgeStored, Light
<1>30. ASSUME TaskTop PROVE ControlInv'
  BY <1>30 DEF TaskTop
<1>31. ASSUME TaskFetch PROVE ControlInv'
  BY <1>31 DEF TaskFetch, NotifLeft
<1>32. ASSUME TaskTimeout PROVE ControlInv'
  BY <1>32 DEF TaskTimeout, Silence
<1>33. ASSUME TaskEnds PROVE ControlInv'
  BY <1>33 DEF TaskEnds
<1>35. ASSUME TaskFinish PROVE ControlInv'
  BY <1>35 DEF TaskFinish
<1>36. ASSUME TaskRead PROVE ControlInv'
  BY <1>36 DEF TaskRead
<1>37. ASSUME TaskPost PROVE ControlInv'
  BY <1>37 DEF TaskPost
<1>38. ASSUME TaskReset PROVE ControlInv'
  BY <1>38 DEF TaskReset
<1>39. ASSUME TaskLeave PROVE ControlInv'
  BY <1>39 DEF TaskLeave
<1>40. ASSUME TaskDelete PROVE ControlInv'
  BY <1>40 DEF TaskDelete
<1>41. QED BY <1>1, <1>2, <1>3, <1>4, <1>5, <1>6, <1>7, <1>8, <1>9, <1>10,
      <1>11, <1>12, <1>13, <1>14, <1>15, <1>16, <1>17, <1>18, <1>19, <1>20,
      <1>21, <1>22, <1>23, <1>24, <1>25, <1>27, <1>28, <1>29, <1>30,
      <1>31, <1>32, <1>33, <1>35, <1>36, <1>37, <1>38, <1>39, <1>40
  DEF Next, Isr, AppContinues, AppCalls, Edge, Task
-----------------------------------------------------------------------------
(* The ring.                                                               *)

\* Where the i-th word from the read index on lies.
At(i)    == IF rd + i <= BufLen THEN rd + i - 1 ELSE rd + i - 1 - BufLen
Words(n) == \A i \in 1 .. n : buf[At(i)] = i
Stored   == RingLength(rd, wr)

\* The ring holds exactly the codes of this reception; before it is read, the
\* last low time has been added if there was room.
RingInv ==
  /\ recvSt = "IDLE" => heard = 0 /\ (ringUp => rd = wr)
  /\ recvSt # "IDLE" /\ task \notin {"read", "post", "reset"} =>
       Stored = heard /\ Words(heard)
  /\ task = "read" =>
       /\ Stored >= ValidMin
       /\ \/ Words(Stored) /\ Stored = BufLen - 1
          \/ Words(Stored - 1) /\ buf[At(Stored)] = LastLow
  /\ task = "post" => OneReception(taskMsg)
  /\ \A i \in 1 .. Len(recvq) : OneReception(recvq[i])

\* A word stored in a ring that is not full is the next one, and overwrites
\* none of the words that are in the ring.
LEMMA RingAppend ==
  ASSUME rd \in Idx, wr \in Idx, ~IsFull(rd, wr)
  PROVE  /\ Next1(wr) \in Idx /\ Stored \in Nat
         /\ RingLength(rd, Next1(wr)) = Stored + 1 /\ Stored + 1 < BufLen
         /\ At(Stored + 1) = wr
         /\ \A i \in 1 .. Stored : At(i) \in Idx /\ At(i) # wr
<1>1. Next1(wr) \in Idx /\ Next1(wr) # rd
  BY FullFacts, IrAssumption DEF Next1, Idx
<1>2. Stored = IF rd <= wr THEN wr - rd ELSE BufLen + wr - rd
  BY LengthFacts DEF Stored
<1>3. RingLength(rd, Next1(wr)) =
        IF rd <= Next1(wr) THEN Next1(wr) - rd ELSE BufLen + Next1(wr) - rd
  BY <1>1, LengthFacts
<1>4. QED BY <1>1, <1>2, <1>3, IrAssumption DEF Next1, Idx, At

\* A full ring holds all but one of its words.
LEMMA RingFull ==
  ASSUME rd \in Idx, wr \in Idx, IsFull(rd, wr)
  PROVE  Stored = BufLen - 1
<1>1. Next1(wr) = rd
  BY FullFacts
<1>2. Stored = IF rd <= wr THEN wr - rd ELSE BufLen + wr - rd
  BY LengthFacts DEF Stored
<1>3. QED BY <1>1, <1>2, IrAssumption DEF Next1, Idx

\* Reading the ring gives its words in order and leaves it empty.
LEMMA RingReadFacts ==
  ASSUME rd \in Idx, wr \in Idx, buf \in [Idx -> Nat], Stored >= 1
  PROVE  /\ Stored \in Nat /\ Stored < BufLen
         /\ RingReadIdx(rd, wr, Stored) = wr
         /\ RingRead(rd, wr, Stored) \in Seq(Nat)
         /\ Len(RingRead(rd, wr, Stored)) = Stored
         /\ \A i \in 1 .. Stored : RingRead(rd, wr, Stored)[i] = buf[At(i)]
<1>1. Stored = IF rd <= wr THEN wr - rd ELSE BufLen + wr - rd
  BY LengthFacts DEF Stored
<1>2. Stored \in Nat /\ Stored < BufLen
  BY <1>1, IrAssumption DEF Idx
<1>3. RingReadIdx(rd, wr, Stored) = wr
  BY <1>1, IrAssumption DEF RingReadIdx, Idx
<1>4. ASSUME NEW i \in 1 .. Stored
      PROVE  /\ At(i) \in Idx
             /\ (IF rd < wr \/ i <= BufLen - rd THEN buf[rd + i - 1]
                 ELSE buf[i - (BufLen - rd) - 1]) = buf[At(i)]
  <2>1. i \in Nat /\ i >= 1 /\ i <= Stored
    BY <1>2
  <2>2. CASE rd < wr \/ i <= BufLen - rd
    <3>1. At(i) = rd + i - 1 /\ At(i) \in Idx
      BY <1>1, <2>1, <2>2, IrAssumption DEF At, Idx
    <3>2. QED BY <2>2, <3>1
  <2>3. CASE ~(rd < wr \/ i <= BufLen - rd)
    <3>1. At(i) = i - (BufLen - rd) - 1 /\ At(i) \in Idx
      BY <1>1, <2>1, <2>3, IrAssumption DEF At, Idx
    <3>2. QED BY <2>3, <3>1
  <2>4. QED BY <2>2, <2>3
<1>5. \A i \in 1 .. Stored : RingRead(rd, wr, Stored)[i] = buf[At(i)]
  BY <1>4 DEF RingRead
<1>6. RingRead(rd, wr, Stored) \in [1 .. Stored -> Nat]
  BY <1>4 DEF RingRead
<1>7. RingRead(rd, wr, Stored) \in Seq(Nat) /\ Len(RingRead(rd, wr, Stored)) = Stored
  BY <1>2, <1>6
<1>8. QED BY <1>2, <1>3, <1>5, <1>7

\* What the task is about to post is one reception.
LEMMA RingMessage ==
  ASSUME TypeOK, RingInv, task = "read"
  PROVE  OneReception(RingRead(rd, wr, Stored)) /\ Stored >= 1
<1> DEFINE m == RingRead(rd, wr, Stored)
<1>1. rd \in Idx /\ wr \in Idx /\ buf \in [Idx -> Nat]
  BY DEF TypeOK, Idx
<1>2. /\ Stored >= ValidMin
      /\ \/ Words(Stored) /\ Stored = BufLen - 1
         \/ Words(Stored - 1) /\ buf[At(Stored)] = LastLow
  BY DEF RingInv
<1>3. Stored \in Nat
  <2>1. Stored = IF rd <= wr THEN wr - rd ELSE BufLen + wr - rd
    BY <1>1, LengthFacts DEF Stored
  <2>2. QED BY <1>1, <2>1, IrAssumption DEF Idx
<1>4. Stored >= 1
  BY <1>2, <1>3, IrAssumption
<1>5. /\ Len(m) = Stored /\ Stored < BufLen
      /\ \A i \in 1 .. Stored : m[i] = buf[At(i)]
  BY <1>1, <1>4, RingReadFacts
<1> HIDE DEF m
<1>6. CASE Words(Stored) /\ Stored = BufLen - 1
  <2>1. \A i \in 1 .. Stored : m[i] = i
    BY <1>5, <1>6 DEF Words
  <2>2. QED BY <1>2, <1>3, <1>4, <1>5, <1>6, <2>1 DEF OneReception, m
<1>7. CASE Words(Stored - 1) /\ buf[At(Stored)] = LastLow
  <2>1. \A i \in 1 .. Stored : m[i] = i \/ (i = Stored /\ m[i] = LastLow)
    <3>1. TAKE i \in 1 .. Stored
    <3>2. CASE i = Stored
      BY <1>4, <1>5, <1>7, <3>2
    <3>3. CASE i # Stored
      BY <1>3, <1>5, <1>7, <3>3 DEF Words
    <3>4. QED BY <3>2, <3>3
  <2>2. m[Stored] = LastLow
    BY <1>3, <1>4, <1>5, <1>7
  <2>3. QED BY <1>2, <1>3, <1>4, <1>5, <2>1, <2>2 DEF OneReception, m
<1>8. QED BY <1>2, <1>4, <1>6, <1>7

\* A queue that is left alone or emptied keeps its type.
LEMMA QueueFacts ==
  ASSUME NEW q, q = recvq \/ q = << >>, TypeOK
  PROVE  q \in Seq(Seq(Nat)) /\ Len(q) <= QueueNum
<1>1. CASE q = recvq
  BY <1>1 DEF TypeOK
<1>2. CASE q = << >>
  <2>1. << >> \in Seq(Seq(Nat)) /\ Len(<< >>) = 0
    OBVIOUS
  <2>2. q \in Seq(Seq(Nat)) /\ Len(q) = 0
    BY <1>2, <2>1, Zenon
  <2>3. QED BY <2>2, IrAssumption
<1>3. QED BY <1>1, <1>2

\* Every step keeps the type invariant.
LEMMA TypeStep ==
  ASSUME TypeOK, ControlInv, RingInv, [Next]_vars
  PROVE  TypeOK'
<1> USE DEF TypeOK, Modes, Prots, drvVars, cfgVars, sendVars, ringVars,
      taskVars, reqVars, recvVars, rest
<1>1. ASSUME UNCHANGED vars PROVE TypeOK'
  BY <1>1 DEF vars
<1>2. ASSUME IsrDone PROVE TypeOK'
  <2>1. timer' \in BOOLEAN /\ rx' \in BOOLEAN
    BY <1>2 DEF IsrDone, SendFinish, SendFinishProcess, RxAfterSending
  <2>2. QED BY <1>2, <2>1, IrAssumption DEF IsrDone, SendFinish,
      SendFinishProcess, RxAfterSending
<1>3. ASSUME IsrOutputFails PROVE TypeOK'
  <2>1. timer' \in BOOLEAN /\ rx' \in BOOLEAN
    BY <1>3 DEF IsrOutputFails, SendFinish, SendFinishProcess, RxAfterSending
  <2>2. QED BY <1>3, <2>1, IrAssumption DEF IsrOutputFails, SendFinish,
      SendFinishProcess, RxAfterSending
<1>4. ASSUME IsrOutput PROVE TypeOK'
  BY <1>4, IrAssumption DEF IsrOutput, OutputIdx, FrameOver
<1>5. ASSUME SendFill PROVE TypeOK'
  BY <1>5, IrAssumption DEF SendFill, ControlInv, PcInv
<1>6. ASSUME SendStart PROVE TypeOK'
  <2>1. timer' \in BOOLEAN /\ rx' \in BOOLEAN
    BY <1>6 DEF SendStart, SendFinishProcess, RxAfterSending, RxWhileSending
  <2>2. QED BY <1>6, <2>1, IrAssumption DEF SendStart, SendFinishProcess,
      RxAfterSending, RxWhileSending
<1>7. ASSUME SendWake PROVE TypeOK'
  BY <1>7, IrAssumption DEF SendWake
<1>8. ASSUME SendTimeout PROVE TypeOK'
  BY <1>8, IrAssumption DEF SendTimeout, AfterTimeout
<1>9. ASSUME SendAbort PROVE TypeOK'
  <2>1. timer' \in BOOLEAN /\ rx' \in BOOLEAN
    BY <1>9 DEF SendAbort, SendFinishProcess, RxAfterSending
  <2>2. QED BY <1>9, <2>1, IrAssumption DEF SendAbort, SendFinishProcess,
      RxAfterSending
<1>10. ASSUME SendReturn PROVE TypeOK'
  BY <1>10, IrAssumption DEF SendReturn
<1>11. ASSUME OpenResources PROVE TypeOK'
  <2>1. ringUp' \in BOOLEAN /\ notifUp' \in BOOLEAN
    BY <1>11 DEF OpenResources, RecvServerStart
  <2>2. rd' \in Idx /\ wr' \in Idx /\ buf' \in [Idx -> Nat]
    BY <1>11, IrAssumption DEF OpenResources, RecvServerStart, LastLow, Idx
  <2>3. recvq' \in Seq(Seq(Nat)) /\ Len(recvq') <= QueueNum
    BY <1>11, QueueFacts DEF OpenResources, RecvServerStart
  <2>4. notif' \in 0 .. NotifMax /\ task' \in {task, "top"}
    BY <1>11, IrAssumption DEF OpenResources, RecvServerStart, TaskStarted
  <2>5. QED BY <1>11, <2>1, <2>2, <2>3, <2>4 DEF OpenResources,
      RecvServerStart, Idx
<1>12. ASSUME OpenDone PROVE TypeOK'
  BY <1>12, IrAssumption DEF OpenDone
<1>13. ASSUME CloseDrain PROVE TypeOK'
  BY <1>13, IrAssumption DEF CloseDrain
<1>14. ASSUME CloseFree PROVE TypeOK'
  <2>1. ringUp' \in BOOLEAN /\ doubleFree' \in BOOLEAN
    BY <1>14 DEF CloseFree
  <2>2. recvq' \in Seq(Seq(Nat)) /\ Len(recvq') <= QueueNum
    BY <1>14, QueueFacts DEF CloseFree
  <2>3. errVal' \in {errVal, "freed"}
    BY <1>14 DEF CloseFree
  <2>4. QED BY <1>14, <2>1, <2>2, <2>3 DEF CloseFree
<1>15. ASSUME CloseDone PROVE TypeOK'
  <2>1. timer' \in BOOLEAN /\ rx' \in BOOLEAN /\ open' \in BOOLEAN
    BY <1>15 DEF CloseDone, RxAfterClose
  <2>2. QED BY <1>15, <2>1, IrAssumption DEF CloseDone, RxAfterClose
<1>16. ASSUME RecvTaskStop PROVE TypeOK'
  <2>1. ringUp' \in BOOLEAN
    BY <1>16 DEF RecvTaskStop
  <2>2. QED BY <1>16, <2>1, IrAssumption DEF RecvTaskStop
<1>17. ASSUME NEW n \in SendLens, NEW c \in SendCnts, NEW b \in 0 .. n,
           SendCall(n, b, c)
      PROVE  TypeOK'
  BY <1>17, IrAssumption DEF SendCall
<1>18. ASSUME NEW m \in Modes, NEW p \in Prots, OpenDriver(m, p)
      PROVE  TypeOK'
  BY <1>18, IrAssumption DEF OpenDriver
<1>19. ASSUME CloseCall PROVE TypeOK'
  BY <1>19, IrAssumption DEF CloseCall
<1>20. ASSUME SendHwReset PROVE TypeOK'
  <2>1. timer' \in BOOLEAN
    BY <1>20 DEF SendHwReset
  <2>2. QED BY <1>20, <2>1, IrAssumption DEF SendHwReset
<1>21. ASSUME RecvHwInit PROVE TypeOK'
  <2>1. rx' \in BOOLEAN /\ rxClosed' \in BOOLEAN
    BY <1>21 DEF RecvHwInit
  <2>2. QED BY <1>21, <2>1, IrAssumption DEF RecvHwInit
<1>22. ASSUME NEW next \in {"idle", "stop"}, RecvHwDeinit(next)
      PROVE  TypeOK'
  <2>1. rx' \in BOOLEAN /\ rxClosed' \in BOOLEAN
    BY <1>22 DEF RecvHwDeinit
  <2>2. QED BY <1>22, <2>1, IrAssumption DEF RecvHwDeinit
<1>23. ASSUME RecvTaskStart PROVE TypeOK'
  <2>1. ringUp' \in BOOLEAN /\ notifUp' \in BOOLEAN
    BY <1>23 DEF RecvTaskStart, RecvServerStart
  <2>2. rd' \in Idx /\ wr' \in Idx /\ buf' \in [Idx -> Nat]
    BY <1>23, IrAssumption DEF RecvTaskStart, RecvServerStart, LastLow, Idx
  <2>3. recvq' \in Seq(Seq(Nat)) /\ Len(recvq') <= QueueNum
    BY <1>23, QueueFacts DEF RecvTaskStart, RecvServerStart
  <2>4. notif' \in 0 .. NotifMax /\ task' \in {task, "top"}
    BY <1>23, IrAssumption DEF RecvTaskStart, RecvServerStart, TaskStarted
  <2>5. QED BY <1>23, <2>1, <2>2, <2>3, <2>4 DEF RecvTaskStart,
      RecvServerStart, Idx
<1>24. ASSUME Fetch(<<>>) PROVE TypeOK'
  <2>1. recvq' \in Seq(Seq(Nat)) /\ Len(recvq') <= QueueNum
    BY <1>24, IrAssumption DEF Fetch
  <2>2. QED BY <1>24, <2>1 DEF Fetch
<1>25. ASSUME Fetch(Tail(recvq)) PROVE TypeOK'
  <2>1. recvq' \in Seq(Seq(Nat)) /\ Len(recvq') <= QueueNum
    BY <1>25, IrAssumption DEF Fetch
  <2>2. QED BY <1>25, <2>1 DEF Fetch
<1>27. ASSUME EdgeOverflow PROVE TypeOK'
  BY <1>27, IrAssumption DEF EdgeOverflow, Light
<1>28. ASSUME EdgeStarts PROVE TypeOK'
  BY <1>28, IrAssumption DEF EdgeStarts, Light
<1>29. ASSUME EdgeStored PROVE TypeOK'
  BY <1>29, IrAssumption DEF EdgeStored, Next1
<1>30. ASSUME TaskTop PROVE TypeOK'
  BY <1>30, IrAssumption DEF TaskTop
<1>31. ASSUME TaskFetch PROVE TypeOK'
  BY <1>31, IrAssumption DEF TaskFetch, NotifLeft, ControlInv, TaskInv
<1>32. ASSUME TaskTimeout PROVE TypeOK'
  BY <1>32, IrAssumption DEF TaskTimeout, Silence
<1>33. ASSUME TaskEnds PROVE TypeOK'
  BY <1>33, IrAssumption DEF TaskEnds
<1>35. ASSUME TaskFinish PROVE TypeOK'
  <2>1. LastLow \in Nat /\ Next1(wr) \in Idx
    BY IrAssumption DEF LastLow, Next1, Idx
  <2>2. wr' \in Idx /\ buf' \in [Idx -> Nat]
    BY <1>35, <2>1 DEF TaskFinish, Idx
  <2>3. QED BY <1>35, <2>2 DEF TaskFinish, Idx
<1>36. ASSUME TaskRead PROVE TypeOK'
  <2>1. rd \in Idx /\ wr \in Idx /\ buf \in [Idx -> Nat] /\ Stored >= 1
    BY <1>36, RingMessage DEF Idx, TaskRead
  <2>2. RingReadIdx(rd, wr, Stored) \in Idx /\ RingRead(rd, wr, Stored) \in Seq(Nat)
    BY <2>1, RingReadFacts
  <2>3. taskMsg' \in Seq(Nat) /\ rd' \in Idx
    BY <1>36, <2>1, <2>2 DEF TaskRead, Stored
  <2>4. QED BY <1>36, <2>3 DEF TaskRead, Idx
<1>37. ASSUME TaskPost PROVE TypeOK'
  BY <1>37, IrAssumption DEF TaskPost
<1>38. ASSUME TaskReset PROVE TypeOK'
  BY <1>38, IrAssumption DEF TaskReset
<1>39. ASSUME TaskLeave PROVE TypeOK'
  <2>1. notifUp' \in BOOLEAN
    BY <1>39 DEF TaskLeave
  <2>2. QED BY <1>39, <2>1, IrAssumption DEF TaskLeave
<1>40. ASSUME TaskDelete PROVE TypeOK'
  BY <1>40, IrAssumption DEF TaskDelete
<1>41. QED BY <1>1, <1>2, <1>3, <1>4, <1>5, <1>6, <1>7, <1>8, <1>9, <1>10,
      <1>11, <1>12, <1>13, <1>14, <1>15, <1>16, <1>17, <1>18, <1>19, <1>20,
      <1>21, <1>22, <1>23, <1>24, <1>25, <1>27, <1>28, <1>29, <1>30,
      <1>31, <1>32, <1>33, <1>35, <1>36, <1>37, <1>38, <1>39, <1>40
  DEF Next, Isr, AppContinues, AppCalls, Edge, Task
-----------------------------------------------------------------------------
(* The ring holds one reception.                                           *)

\* What RingInv looks at.
ringView == <<recvSt, ringUp, rd, wr, buf, recvq, heard, task, taskMsg>>

\* A step that leaves those alone keeps RingInv.
LEMMA RingUnchanged ==
  ASSUME RingInv, UNCHANGED ringView
  PROVE  RingInv'
BY DEF RingInv, ringView, Stored, RingLength, Words, At, OneReception

\* As long as the words in the ring stay, so does what is known of them.
LEMMA WordsKept ==
  ASSUME NEW n, Words(n), UNCHANGED <<rd, buf>>
  PROVE  Words(n)'
BY DEF Words, At

\* A stored word extends the words of the reception.
LEMMA WordsExtended ==
  ASSUME rd \in Idx, wr \in Idx, buf \in [Idx -> Nat], ~IsFull(rd, wr),
         Words(Stored), NEW x \in Nat,
         rd' = rd, wr' = Next1(wr), buf' = [buf EXCEPT ![wr] = x]
  PROVE  /\ Stored' = Stored + 1 /\ Stored \in Nat
         /\ \A i \in 1 .. Stored : buf'[At(i)'] = i
         /\ \A k : k = Stored + 1 => buf'[At(k)'] = x
<1>1. /\ Next1(wr) \in Idx /\ Stored \in Nat
      /\ RingLength(rd, Next1(wr)) = Stored + 1
      /\ At(Stored + 1) = wr
      /\ \A i \in 1 .. Stored : At(i) \in Idx /\ At(i) # wr
  BY RingAppend
<1>2. Stored' = Stored + 1
  BY <1>1 DEF Stored, RingLength
<1>3. \A i : At(i)' = At(i)
  BY DEF At
<1>4. \A i \in 1 .. Stored : buf'[At(i)'] = i
  BY <1>1, <1>3 DEF Words
<1>5. \A k : k = Stored + 1 => buf'[At(k)'] = x
  BY <1>1, <1>3
<1>6. QED BY <1>1, <1>2, <1>4, <1>5

\* An emptied queue holds no message that could be wrong.
LEMMA EmptyQueue == \A i \in 1 .. Len(<< >>) : OneReception(<< >>[i])
OBVIOUS

\* Every step keeps RingInv.
LEMMA RingStep ==
  ASSUME TypeOK, ControlInv, RingInv, [Next]_vars
  PROVE  RingInv'
<1> USE DEF drvVars, cfgVars, sendVars, ringVars, taskVars, reqVars, recvVars,
      rest, ringView
<1>1. ASSUME UNCHANGED vars PROVE RingInv'
  BY <1>1, RingUnchanged DEF vars
<1>2. ASSUME IsrDone PROVE RingInv'
  BY <1>2, RingUnchanged DEF IsrDone
<1>3. ASSUME IsrOutputFails PROVE RingInv'
  BY <1>3, RingUnchanged DEF IsrOutputFails
<1>4. ASSUME IsrOutput PROVE RingInv'
  BY <1>4, RingUnchanged DEF IsrOutput
<1>5. ASSUME SendFill PROVE RingInv'
  BY <1>5, RingUnchanged DEF SendFill
<1>6. ASSUME SendStart PROVE RingInv'
  BY <1>6, RingUnchanged DEF SendStart
<1>7. ASSUME SendWake PROVE RingInv'
  BY <1>7, RingUnchanged DEF SendWake
<1>8. ASSUME SendTimeout PROVE RingInv'
  BY <1>8, RingUnchanged DEF SendTimeout
<1>9. ASSUME SendAbort PROVE RingInv'
  BY <1>9, RingUnchanged DEF SendAbort
<1>10. ASSUME SendReturn PROVE RingInv'
  BY <1>10, RingUnchanged DEF SendReturn
<1>11. ASSUME OpenResources PROVE RingInv'
  <2>1. CASE ~Receives
    BY <1>11, <2>1, RingUnchanged DEF OpenResources
  <2>2. CASE Receives
    <3>1. /\ UNCHANGED <<recvSt, heard, taskMsg>>
          /\ \/ UNCHANGED <<rd, wr, buf, recvq>> /\ ringUp
             \/ rd' = 0 /\ wr' = 0 /\ recvq' = << >> /\ ~ringUp
          /\ task' = task \/ (task = "none" /\ task' = "top")
      BY <1>11, <2>2 DEF OpenResources, RecvServerStart, TaskStarted
    <3>2. ringUp \/ (recvSt = "IDLE" /\ task \notin Busy)
      BY DEF ControlInv, TaskInv
    <3>3. QED BY <3>1, <3>2, EmptyQueue DEF RingInv, Stored, RingLength,
      Words, At,
          OneReception, Busy
  <2>3. QED BY <2>1, <2>2
<1>12. ASSUME OpenDone PROVE RingInv'
  <2>1. /\ UNCHANGED <<rd, wr, buf, heard, task, taskMsg>> /\ recvSt = "IDLE" /\ recvSt' = "IDLE"
        /\ ringUp' => ringUp
        /\ recvq' = recvq \/ recvq' = << >>
    BY <1>12 DEF OpenDone, ControlInv, PcInv, Opening, Closing
  <2>2. task \notin Busy
    BY <2>1 DEF ControlInv, TaskInv
  <2>3. QED BY <2>1, <2>2, EmptyQueue DEF RingInv, OneReception, Busy
<1>13. ASSUME CloseDrain PROVE RingInv'
  <2>1. /\ UNCHANGED <<rd, wr, buf, heard, task, taskMsg>> /\ recvSt = "IDLE" /\ recvSt' = "IDLE"
        /\ ringUp' => ringUp
        /\ recvq' = recvq \/ recvq' = << >>
    BY <1>13 DEF CloseDrain, ControlInv, PcInv, Opening, Closing
  <2>2. task \notin Busy
    BY <2>1 DEF ControlInv, TaskInv
  <2>3. QED BY <2>1, <2>2, EmptyQueue DEF RingInv, OneReception, Busy
<1>14. ASSUME CloseFree PROVE RingInv'
  <2>1. /\ UNCHANGED <<rd, wr, buf, heard, task, taskMsg>> /\ recvSt = "IDLE" /\ recvSt' = "IDLE"
        /\ ringUp' => ringUp
        /\ recvq' = recvq \/ recvq' = << >>
    BY <1>14 DEF CloseFree, ControlInv, PcInv, Opening, Closing
  <2>2. task \notin Busy
    BY <2>1 DEF ControlInv, TaskInv
  <2>3. QED BY <2>1, <2>2, EmptyQueue DEF RingInv, OneReception, Busy
<1>15. ASSUME CloseDone PROVE RingInv'
  BY <1>15, RingUnchanged DEF CloseDone
<1>16. ASSUME RecvTaskStop PROVE RingInv'
  <2>1. /\ UNCHANGED <<rd, wr, buf, heard, task, taskMsg>> /\ recvSt = "IDLE" /\ recvSt' = "IDLE"
        /\ ringUp' => ringUp
        /\ recvq' = recvq \/ recvq' = << >>
    BY <1>16 DEF RecvTaskStop, ControlInv, PcInv, Opening, Closing
  <2>2. task \notin Busy
    BY <2>1 DEF ControlInv, TaskInv
  <2>3. QED BY <2>1, <2>2, EmptyQueue DEF RingInv, OneReception, Busy
<1>17. ASSUME NEW n \in SendLens, NEW c \in SendCnts, NEW b \in 0 .. n,
           SendCall(n, b, c)
      PROVE  RingInv'
  BY <1>17, RingUnchanged DEF SendCall
<1>18. ASSUME NEW m \in Modes, NEW p \in Prots, OpenDriver(m, p)
      PROVE  RingInv'
  BY <1>18, RingUnchanged DEF OpenDriver
<1>19. ASSUME CloseCall PROVE RingInv'
  BY <1>19, RingUnchanged DEF CloseCall
<1>20. ASSUME SendHwReset PROVE RingInv'
  BY <1>20, RingUnchanged DEF SendHwReset
<1>21. ASSUME RecvHwInit PROVE RingInv'
  BY <1>21, RingUnchanged DEF RecvHwInit
<1>22. ASSUME NEW next \in {"idle", "stop"}, RecvHwDeinit(next)
      PROVE  RingInv'
  BY <1>22, RingUnchanged DEF RecvHwDeinit
<1>23. ASSUME RecvTaskStart PROVE RingInv'
  <2>1. /\ UNCHANGED <<recvSt, heard, taskMsg>>
        /\ \/ UNCHANGED <<rd, wr, buf, recvq>> /\ ringUp
           \/ rd' = 0 /\ wr' = 0 /\ recvq' = << >> /\ ~ringUp
        /\ task' = task \/ (task = "none" /\ task' = "top")
    BY <1>23 DEF RecvTaskStart, RecvServerStart, TaskStarted
  <2>2. ringUp \/ (recvSt = "IDLE" /\ task \notin Busy)
    BY DEF ControlInv, TaskInv
  <2>3. QED BY <2>1, <2>2, EmptyQueue DEF RingInv, Stored, RingLength, Words,
      At,
        OneReception, Busy
<1>24. ASSUME Fetch(<<>>) PROVE RingInv'
  <2>1. UNCHANGED <<recvSt, ringUp, rd, wr, buf, heard, task, taskMsg>>
    BY <1>24 DEF Fetch
  <2>2. \A i \in 1 .. Len(recvq') : OneReception(recvq'[i])
    BY <1>24, EmptyQueue DEF Fetch
  <2>3. QED BY <2>1, <2>2 DEF RingInv, Stored, RingLength, Words, At,
      OneReception
<1>25. ASSUME Fetch(Tail(recvq)) PROVE RingInv'
  <2>1. UNCHANGED <<recvSt, ringUp, rd, wr, buf, heard, task, taskMsg>>
    BY <1>25 DEF Fetch
  <2>2. \A i \in 1 .. Len(recvq') : OneReception(recvq'[i])
    <3>1. recvq \in Seq(Seq(Nat)) /\ recvq # << >> /\ recvq' = Tail(recvq)
      BY <1>25 DEF Fetch, TypeOK
    <3>2. Len(recvq') = Len(recvq) - 1 /\ Len(recvq) \in Nat
          /\ \A i \in 1 .. Len(recvq') : recvq'[i] = recvq[i + 1]
      BY <3>1
    <3>3. QED BY <3>2 DEF RingInv
  <2>3. QED BY <2>1, <2>2 DEF RingInv, Stored, RingLength, Words, At,
      OneReception
<1>27. ASSUME EdgeOverflow PROVE RingInv'
  <2>1. UNCHANGED <<ringUp, rd, wr, buf, recvq, heard, task, taskMsg>>
    BY <1>27 DEF EdgeOverflow
  <2>2. QED BY <1>27, <2>1 DEF EdgeOverflow, RingInv, Stored, RingLength,
      Words, At,
        OneReception
<1>28. ASSUME EdgeStarts PROVE RingInv'
  <2>1. UNCHANGED <<ringUp, rd, wr, buf, recvq, task, taskMsg>> /\ heard' = 0 /\ rd = wr
    BY <1>28 DEF EdgeStarts, RingInv
  <2>2. Stored' = 0
    BY <2>1, LengthFacts DEF Stored, RingLength, TypeOK, Idx
  <2>3. Words(0)'
    BY DEF Words
  <2>4. task \notin Busy /\ recvSt' = "RECVING"
    BY <1>28 DEF EdgeStarts, ControlInv, TaskInv
  <2>5. QED BY <2>1, <2>2, <2>3, <2>4 DEF RingInv, OneReception, Busy
<1>29. ASSUME EdgeStored PROVE RingInv'
  <2>1. /\ UNCHANGED <<recvSt, ringUp, rd, recvq, task, taskMsg>>
        /\ recvSt = "RECVING" /\ wr' = Next1(wr) /\ ~IsFull(rd, wr)
        /\ heard' = heard + 1 /\ buf' = [buf EXCEPT ![wr] = heard + 1]
    BY <1>29 DEF EdgeStored
  <2>2. task \notin {"read", "post", "reset"}
    BY <2>1 DEF ControlInv, TaskInv, Busy
  <2>3. Stored = heard /\ Words(Stored) /\ heard \in Nat
    BY <2>1, <2>2 DEF RingInv, TypeOK
  <2>4. /\ Stored' = Stored + 1
        /\ \A i \in 1 .. Stored : buf'[At(i)'] = i
        /\ \A k : k = Stored + 1 => buf'[At(k)'] = heard + 1
    <3>1. rd \in Idx /\ wr \in Idx /\ buf \in [Idx -> Nat] /\ heard + 1 \in Nat
      BY <2>3 DEF TypeOK, Idx
    <3>2. QED BY <2>1, <2>3, <3>1, WordsExtended
  <2>5. \A i \in 1 .. heard + 1 : buf'[At(i)'] = i
    BY <2>3, <2>4
  <2>6. Words(heard)' /\ Stored' = heard'
    BY <2>1, <2>3, <2>4, <2>5 DEF Words, At
  <2>7. QED BY <2>1, <2>2, <2>6 DEF RingInv, OneReception
<1>30. ASSUME TaskTop PROVE RingInv'
  <2>1. UNCHANGED <<recvSt, ringUp, rd, wr, buf, recvq, heard, taskMsg>>
    BY <1>30 DEF TaskTop
  <2>2. task' \notin {"read", "post", "reset"} /\ task \notin {"read", "post", "reset"}
    BY <1>30 DEF TaskTop
  <2>3. QED BY <2>1, <2>2 DEF RingInv, Stored, RingLength, Words, At,
      OneReception
<1>31. ASSUME TaskFetch PROVE RingInv'
  <2>1. UNCHANGED <<recvSt, ringUp, rd, wr, buf, recvq, heard, taskMsg>>
    BY <1>31 DEF TaskFetch
  <2>2. task' \notin {"read", "post", "reset"} /\ task \notin {"read", "post", "reset"}
    BY <1>31 DEF TaskFetch
  <2>3. QED BY <2>1, <2>2 DEF RingInv, Stored, RingLength, Words, At,
      OneReception
<1>32. ASSUME TaskTimeout PROVE RingInv'
  <2>1. UNCHANGED <<ringUp, rd, wr, buf, recvq, heard, task, taskMsg>>
    BY <1>32 DEF TaskTimeout
  <2>2. QED BY <1>32, <2>1 DEF TaskTimeout, RingInv, Stored, RingLength,
      Words, At,
        OneReception
<1>33. ASSUME TaskEnds PROVE RingInv'
  <2>1. UNCHANGED <<ringUp, rd, wr, buf, recvq, heard, taskMsg>>
    BY <1>33 DEF TaskEnds
  <2>2. QED BY <1>33, <2>1 DEF TaskEnds, RingInv, Stored, RingLength, Words, At,
        OneReception
<1>35. ASSUME TaskFinish PROVE RingInv'
  <2>1. /\ UNCHANGED <<recvSt, ringUp, rd, recvq, heard, taskMsg>>
        /\ recvSt = "FINISH" /\ task = "finish"
    BY <1>35 DEF TaskFinish, ControlInv, TaskInv, Busy
  <2>2. Stored = heard /\ Words(Stored) /\ heard \in Nat
    BY <2>1 DEF RingInv, TypeOK
  <2>3. CASE Stored < ValidMin
    BY <1>35, <2>1, <2>3 DEF TaskFinish, Stored, RingInv, OneReception
  <2>4. CASE ~(Stored < ValidMin) /\ IsFull(rd, wr)
    <3>1. task' = "read" /\ UNCHANGED <<wr, buf>>
      BY <1>35, <2>4 DEF TaskFinish, Stored
    <3>2. Stored' = Stored /\ Words(Stored)' /\ Stored = BufLen - 1
      BY <2>1, <2>2, <2>4, <3>1, RingFull DEF Stored, RingLength, Words, At,
      TypeOK, Idx
    <3>3. Stored' >= ValidMin
      BY <2>2, <2>4, <3>2, IrAssumption
    <3>4. QED BY <2>1, <3>1, <3>2, <3>3 DEF RingInv, OneReception
  <2>5. CASE ~(Stored < ValidMin) /\ ~IsFull(rd, wr)
    <3>1. /\ task' = "read" /\ wr' = Next1(wr)
          /\ buf' = [buf EXCEPT ![wr] = LastLow]
      BY <1>35, <2>5 DEF TaskFinish, Stored
    <3>2. rd \in Idx /\ wr \in Idx /\ buf \in [Idx -> Nat] /\ LastLow \in Nat
      BY DEF TypeOK, Idx, LastLow
    <3>3. /\ Stored' = Stored + 1
          /\ \A i \in 1 .. Stored : buf'[At(i)'] = i
          /\ \A k : k = Stored + 1 => buf'[At(k)'] = LastLow
      BY <2>1, <2>2, <2>5, <3>1, <3>2, WordsExtended
    <3>4. Stored' >= ValidMin /\ Stored' - 1 = Stored
      BY <2>2, <2>5, <3>3, IrAssumption
    <3>5. Words(Stored - 1)' /\ buf'[At(Stored)'] = LastLow
      BY <2>1, <3>3, <3>4 DEF Words
    <3>6. QED BY <2>1, <3>1, <3>4, <3>5 DEF RingInv, OneReception
  <2>6. QED BY <2>3, <2>4, <2>5
<1>36. ASSUME TaskRead PROVE RingInv'
  <2>1. OneReception(RingRead(rd, wr, Stored))
    BY <1>36, RingMessage DEF TaskRead
  <2>2. /\ UNCHANGED <<recvSt, ringUp, recvq, heard>> /\ recvSt = "FINISH"
        /\ \/ task' = "post" /\ taskMsg' = RingRead(rd, wr, Stored)
           \/ task' = "reset"
    BY <1>36 DEF TaskRead, Stored, ControlInv, TaskInv, Busy
  <2>3. task' = "post" => OneReception(taskMsg')
    BY <2>1, <2>2
  <2>4. QED BY <2>2, <2>3 DEF RingInv, OneReception
<1>37. ASSUME TaskPost PROVE RingInv'
  <2>1. /\ UNCHANGED <<recvSt, ringUp, rd, wr, buf, heard>> /\ recvSt = "FINISH"
        /\ task' = "reset" /\ OneReception(taskMsg)
        /\ recvq' = recvq \/ recvq' = Append(recvq, taskMsg)
    BY <1>37 DEF TaskPost, ControlInv, TaskInv, Busy, RingInv
  <2>2. \A i \in 1 .. Len(recvq') : OneReception(recvq'[i])
    <3>1. CASE recvq' = recvq
      BY <3>1 DEF RingInv
    <3>2. CASE recvq' = Append(recvq, taskMsg)
      <4>1. recvq \in Seq(Seq(Nat)) /\ taskMsg \in Seq(Nat)
        BY DEF TypeOK
      <4>2. /\ Len(recvq') = Len(recvq) + 1 /\ recvq'[Len(recvq) + 1] = taskMsg
            /\ \A i \in 1 .. Len(recvq) : recvq'[i] = recvq[i]
        BY <3>2, <4>1
      <4>3. ASSUME NEW i \in 1 .. Len(recvq') PROVE OneReception(recvq'[i])
        <5>1. i = Len(recvq) + 1 \/ i \in 1 .. Len(recvq)
          BY <4>1, <4>2
        <5>2. CASE i = Len(recvq) + 1
          BY <2>1, <4>2, <5>2
        <5>3. CASE i \in 1 .. Len(recvq)
          BY <4>2, <5>3 DEF RingInv
        <5>4. QED BY <5>1, <5>2, <5>3
      <4>4. QED BY <4>3
    <3>3. QED BY <2>1, <3>1, <3>2
  <2>3. QED BY <2>1, <2>2 DEF RingInv, OneReception
<1>38. ASSUME TaskReset PROVE RingInv'
  <2>1. /\ UNCHANGED <<ringUp, wr, recvq>> /\ recvSt' = "IDLE" /\ heard' = 0
        /\ rd' = wr' /\ task' = "top"
    BY <1>38 DEF TaskReset
  <2>2. QED BY <2>1 DEF RingInv, OneReception
<1>39. ASSUME TaskLeave PROVE RingInv'
  <2>1. UNCHANGED <<recvSt, ringUp, rd, wr, buf, recvq, heard, taskMsg>>
    BY <1>39 DEF TaskLeave
  <2>2. task' \notin {"read", "post", "reset"} /\ task \notin {"read", "post", "reset"}
    BY <1>39 DEF TaskLeave
  <2>3. QED BY <2>1, <2>2 DEF RingInv, Stored, RingLength, Words, At,
      OneReception
<1>40. ASSUME TaskDelete PROVE RingInv'
  <2>1. UNCHANGED <<recvSt, ringUp, rd, wr, buf, recvq, heard, taskMsg>>
    BY <1>40 DEF TaskDelete
  <2>2. task' \notin {"read", "post", "reset"} /\ task \notin {"read", "post", "reset"}
    BY <1>40 DEF TaskDelete
  <2>3. QED BY <2>1, <2>2 DEF RingInv, Stored, RingLength, Words, At,
      OneReception
<1>41. QED BY <1>1, <1>2, <1>3, <1>4, <1>5, <1>6, <1>7, <1>8, <1>9, <1>10,
      <1>11, <1>12, <1>13, <1>14, <1>15, <1>16, <1>17, <1>18, <1>19, <1>20,
      <1>21, <1>22, <1>23, <1>24, <1>25, <1>27, <1>28, <1>29, <1>30,
      <1>31, <1>32, <1>33, <1>35, <1>36, <1>37, <1>38, <1>39, <1>40
  DEF Next, Isr, AppContinues, AppCalls, Edge, Task
-----------------------------------------------------------------------------
(* Memory.                                                                 *)

\* With one protocol for all sessions, and close only for an open device, the
\* decoder's tolerances are there from open to close.
FreeInv ==
  /\ prot \in Prots
  /\ prot = "TIMECODE" => errVal = "null"
  /\ Receives /\ (open \/ pc = "opened") /\ pc # "freed" /\ prot = "NEC" =>
       errVal = "live"
  /\ pc \in Closing => open
  /\ ~doubleFree

\* Every step keeps FreeInv.
LEMMA FreeStep ==
  ASSUME FreeInv, [Next]_vars, Kept({"close", "protocol"})
  PROVE  FreeInv'
<1> USE DEF FreeInv, Receives, Closing, Prots, Kept, drvVars, cfgVars,
      sendVars, taskVars, reqVars, recvVars, rest
<1>1. ASSUME UNCHANGED vars PROVE FreeInv'
  BY <1>1 DEF vars
<1>2. ASSUME IsrDone PROVE FreeInv'
  BY <1>2 DEF IsrDone, SendFinish, SendFinishProcess, RxAfterSending
<1>3. ASSUME IsrOutputFails PROVE FreeInv'
  BY <1>3 DEF IsrOutputFails, SendFinish, SendFinishProcess, RxAfterSending
<1>4. ASSUME IsrOutput PROVE FreeInv'
  BY <1>4 DEF IsrOutput, OutputIdx, FrameOver
<1>5. ASSUME SendFill PROVE FreeInv'
  BY <1>5 DEF SendFill
<1>6. ASSUME SendStart PROVE FreeInv'
  BY <1>6 DEF SendStart, SendFinishProcess, RxAfterSending, RxWhileSending
<1>7. ASSUME SendWake PROVE FreeInv'
  BY <1>7 DEF SendWake
<1>8. ASSUME SendTimeout PROVE FreeInv'
  BY <1>8 DEF SendTimeout, AfterTimeout
<1>9. ASSUME SendAbort PROVE FreeInv'
  BY <1>9 DEF SendAbort, SendFinishProcess, RxAfterSending
<1>10. ASSUME SendReturn PROVE FreeInv'
  BY <1>10 DEF SendReturn
<1>11. ASSUME OpenResources PROVE FreeInv'
  BY <1>11 DEF OpenResources, RecvServerStart, TaskStarted
<1>12. ASSUME OpenDone PROVE FreeInv'
  BY <1>12 DEF OpenDone
<1>13. ASSUME CloseDrain PROVE FreeInv'
  BY <1>13 DEF CloseDrain
<1>14. ASSUME CloseFree PROVE FreeInv'
  BY <1>14 DEF CloseFree
<1>15. ASSUME CloseDone PROVE FreeInv'
  BY <1>15 DEF CloseDone, RxAfterClose
<1>16. ASSUME RecvTaskStop PROVE FreeInv'
  BY <1>16 DEF RecvTaskStop
<1>17. ASSUME NEW n \in SendLens, NEW c \in SendCnts, NEW b \in 0 .. n,
           SendCall(n, b, c)
      PROVE  FreeInv'
  BY <1>17 DEF SendCall
<1>18. ASSUME NEW m \in Modes, NEW p \in Prots, OpenDriver(m, p)
      PROVE  FreeInv'
  BY <1>18 DEF OpenDriver
<1>19. ASSUME CloseCall PROVE FreeInv'
  BY <1>19 DEF CloseCall
<1>20. ASSUME SendHwReset PROVE FreeInv'
  BY <1>20 DEF SendHwReset
<1>21. ASSUME RecvHwInit PROVE FreeInv'
  BY <1>21 DEF RecvHwInit
<1>22. ASSUME NEW next \in {"idle", "stop"}, RecvHwDeinit(next)
      PROVE  FreeInv'
  BY <1>22 DEF RecvHwDeinit
<1>23. ASSUME RecvTaskStart PROVE FreeInv'
  BY <1>23 DEF RecvTaskStart, RecvServerStart, TaskStarted
<1>24. ASSUME Fetch(<<>>) PROVE FreeInv'
  BY <1>24 DEF Fetch
<1>25. ASSUME Fetch(Tail(recvq)) PROVE FreeInv'
  BY <1>25 DEF Fetch
<1>27. ASSUME EdgeOverflow PROVE FreeInv'
  BY <1>27 DEF EdgeOverflow, Light
<1>28. ASSUME EdgeStarts PROVE FreeInv'
  BY <1>28 DEF EdgeStarts, Light
<1>29. ASSUME EdgeStored PROVE FreeInv'
  BY <1>29 DEF EdgeStored, Light
<1>30. ASSUME TaskTop PROVE FreeInv'
  BY <1>30 DEF TaskTop
<1>31. ASSUME TaskFetch PROVE FreeInv'
  BY <1>31 DEF TaskFetch, NotifLeft
<1>32. ASSUME TaskTimeout PROVE FreeInv'
  BY <1>32 DEF TaskTimeout, Silence
<1>33. ASSUME TaskEnds PROVE FreeInv'
  BY <1>33 DEF TaskEnds
<1>35. ASSUME TaskFinish PROVE FreeInv'
  BY <1>35 DEF TaskFinish
<1>36. ASSUME TaskRead PROVE FreeInv'
  BY <1>36 DEF TaskRead
<1>37. ASSUME TaskPost PROVE FreeInv'
  BY <1>37 DEF TaskPost
<1>38. ASSUME TaskReset PROVE FreeInv'
  BY <1>38 DEF TaskReset
<1>39. ASSUME TaskLeave PROVE FreeInv'
  BY <1>39 DEF TaskLeave
<1>40. ASSUME TaskDelete PROVE FreeInv'
  BY <1>40 DEF TaskDelete
<1>41. QED BY <1>1, <1>2, <1>3, <1>4, <1>5, <1>6, <1>7, <1>8, <1>9, <1>10,
      <1>11, <1>12, <1>13, <1>14, <1>15, <1>16, <1>17, <1>18, <1>19, <1>20,
      <1>21, <1>22, <1>23, <1>24, <1>25, <1>27, <1>28, <1>29, <1>30,
      <1>31, <1>32, <1>33, <1>35, <1>36, <1>37, <1>38, <1>39, <1>40
  DEF Next, Isr, AppContinues, AppCalls, Edge, Task
-----------------------------------------------------------------------------
(* The theorems about receiving.                                           *)

RecvInv == TypeOK /\ ControlInv /\ RingInv

\* A registered device satisfies the receiving invariants.
LEMMA RecvInit == ASSUME Init PROVE RecvInv
<1> USE DEF Init
<1>1. TypeOK
  <2>1. [i \in 0 .. BufLen - 1 |-> LastLow] \in [0 .. BufLen - 1 -> Nat]
    BY DEF LastLow
  <2>2. << >> \in Seq(Nat) /\ << >> \in Seq(Seq(Nat)) /\ Len(<< >>) = 0
    OBVIOUS
  <2>3. taskMsg \in Seq(Nat) /\ recvq \in Seq(Seq(Nat)) /\ Len(recvq) = 0
    BY <2>2, Zenon
  <2>4. 0 \in 0 .. BufLen - 1 /\ 0 \in 0 .. NotifMax /\ 0 <= QueueNum
    BY IrAssumption
  <2>5. /\ single \in BOOLEAN /\ open \in BOOLEAN /\ timer \in BOOLEAN
        /\ rx \in BOOLEAN /\ rxClosed \in BOOLEAN /\ ringUp \in BOOLEAN
        /\ notifUp \in BOOLEAN /\ doubleFree \in BOOLEAN
    OBVIOUS
  <2>6. QED BY <2>1, <2>3, <2>4, <2>5 DEF TypeOK, Modes
<1>2. ControlInv
  BY DEF ControlInv, PcInv, RxInv, TaskInv, Opening, Closing, Sending, Busy
<1>3. RingInv
  BY EmptyQueue DEF RingInv
<1>4. QED BY <1>1, <1>2, <1>3 DEF RecvInv

\* Together they are inductive.
LEMMA RecvStep ==
  ASSUME Kept(ReceiverRules), RecvInv, [Next]_vars
  PROVE  RecvInv'
BY TypeStep, ControlStep, RingStep DEF RecvInv

\* With an application that keeps the receiver's rules every index stays inside
\* the ring and every queue within its size, whatever interrupts and task do.
THEOREM TypeCorrect == ASSUME Kept(ReceiverRules) PROVE Spec => []TypeOK
<1>1. RecvInv /\ [Next]_vars => RecvInv'
  BY RecvStep
<1>2. Init => RecvInv
  BY RecvInit
<1>3. RecvInv => TypeOK
  BY DEF RecvInv
<1>4. QED BY <1>1, <1>2, <1>3, PTL DEF Spec

\* Every message tdl_ir_dev_recv can hand out holds the codes of exactly one
\* reception, in order and complete, for every size of ring and queue.
THEOREM MessagesAreReceptions == Spec => []Messages
<1>1. CASE ~Kept(ReceiverRules)
  BY <1>1, PTL DEF Messages
<1>2. CASE Kept(ReceiverRules)
  <2>1. RecvInv /\ [Next]_vars => RecvInv'
    BY <1>2, RecvStep
  <2>2. Init => RecvInv
    BY RecvInit
  <2>3. RecvInv => Messages
    BY DEF RecvInv, RingInv, Messages
  <2>4. QED BY <2>1, <2>2, <2>3, PTL DEF Spec
<1>3. QED BY <1>1, <1>2

\* A reception that has begun always has the task working on it or a
\* notification waiting for the task.
THEOREM ReceptionsAreAttended == Spec => []Attended
<1>1. CASE ~Kept(ReceiverRules)
  BY <1>1, PTL DEF Attended
<1>2. CASE Kept(ReceiverRules)
  <2>1. RecvInv /\ [Next]_vars => RecvInv'
    BY <1>2, RecvStep
  <2>2. Init => RecvInv
    BY RecvInit
  <2>3. RecvInv => Attended
    BY DEF RecvInv, TypeOK, ControlInv, TaskInv, RxInv, Attended, Busy
  <2>4. QED BY <2>1, <2>2, <2>3, PTL DEF Spec
<1>3. QED BY <1>1, <1>2

\* The post without a timeout from the receive interrupt never finds a full
\* queue.
THEOREM InterruptFindsRoom == Spec => []IsrFindsRoom
<1>1. CASE ~Kept(ReceiverRules)
  BY <1>1, PTL DEF IsrFindsRoom
<1>2. CASE Kept(ReceiverRules)
  <2>1. RecvInv /\ [Next]_vars => RecvInv'
    BY <1>2, RecvStep
  <2>2. Init => RecvInv
    BY RecvInit
  <2>3. RecvInv => IsrFindsRoom
    BY IrAssumption DEF RecvInv, TypeOK, ControlInv, TaskInv, IsrFindsRoom
  <2>4. QED BY <2>1, <2>2, <2>3, PTL DEF Spec
<1>3. QED BY <1>1, <1>2

\* A registered device has nothing to free.
LEMMA FreeInit == ASSUME Init PROVE FreeInv
BY DEF Init, FreeInv, Receives, Closing, Prots

\* The ring is never used while it is not there, and nothing is freed twice.
THEOREM MemorySafe == Spec => []NoMemoryFault
<1>1. Spec => [](Kept(ReceiverRules) /\ UsesRing => ringUp)
  <2>1. CASE ~Kept(ReceiverRules)
    BY <2>1, PTL
  <2>2. CASE Kept(ReceiverRules)
    <3>1. RecvInv /\ [Next]_vars => RecvInv'
      BY <2>2, RecvStep
    <3>2. Init => RecvInv
      BY RecvInit
    <3>3. RecvInv => (UsesRing => ringUp)
      BY <2>2 DEF RecvInv, TypeOK, ControlInv, TaskInv, RxInv, PcInv, Light,
        UsesRing, Kept, ReceiverRules, Busy, Opening, Closing
    <3>4. QED BY <3>1, <3>2, <3>3, PTL DEF Spec
  <2>3. QED BY <2>1, <2>2
<1>2. Spec => [](Kept({"close", "protocol"}) => ~doubleFree)
  <2>1. CASE ~Kept({"close", "protocol"})
    BY <2>1, PTL
  <2>2. CASE Kept({"close", "protocol"})
    <3>1. FreeInv /\ [Next]_vars => FreeInv'
      BY <2>2, FreeStep
    <3>2. Init => FreeInv
      BY FreeInit
    <3>3. FreeInv => ~doubleFree
      BY DEF FreeInv
    <3>4. QED BY <3>1, <3>2, <3>3, PTL DEF Spec
  <2>3. QED BY <2>1, <2>2
<1>3. QED BY <1>1, <1>2, PTL DEF NoMemoryFault
=============================================================================
