------------------------------ MODULE IrDevice ------------------------------
(***************************************************************************)
(* One infrared device: tdl_ir_dev_manage.c on top of tdd_ir_driver_t2.c.  *)
(* Four contexts work on the same node without a lock: the application     *)
(* (one thread: open, send, receive, configure, close), the send timer's   *)
(* interrupt, the receive pin's interrupt and the receive task.            *)
(*                                                                         *)
(* A transmission is known by its length and by the position of a code the *)
(* driver cannot output, a received code by its number within its          *)
(* reception.  What the caller must take care of, because the code does    *)
(* not, is the constant Discipline.  Allocations succeed.  The interrupt   *)
(* mask counters and the callback of the synchronous decoder are left out. *)
(***************************************************************************)
EXTENDS Integers, Sequences

CONSTANTS
  BufLen,      \* words in the receive ring
  ValidMin,    \* IR_RECV_VALID_LEN_MIN
  QueueNum,    \* recv_queue_num
  SendLens,    \* lengths of the transmissions
  SendCnts,    \* send_cnt: how often a transmission is repeated
  NotifMax,    \* entries of the notification queue
  Discipline   \* the rules the application follows

\* No light on the receiver while the device is opened, and receiver commands
\* only for a receiver that is up; none while it is closed or stopped, and no
\* reception under way then; no restart before the task has settled; one
\* protocol for all sessions; no transmission longer than the 20 s that a send
\* waits for it.
Rules == {"open", "close", "restart", "protocol", "short"}

ReceiverRules == {"open", "close", "restart"}

Kept(rules) == rules \subseteq Discipline

ASSUME IrAssumption ==
  /\ BufLen \in Nat /\ BufLen > 1
  /\ ValidMin \in Nat \ {0} /\ QueueNum \in Nat \ {0} /\ NotifMax \in Nat /\ NotifMax > 1
  /\ SendLens \subseteq Nat \ {0} /\ SendCnts \subseteq Nat \ {0}
  /\ Discipline \subseteq Rules

Modes == {"SEND_ONLY", "RECV_ONLY", "SEND_RECV"}
Prots == {"TIMECODE", "NEC"}
LastLow  == 0   \* the last low time, appended by the task

VARIABLES
  single, mode, prot,   \* driver_type is SINGLE_TIMER; ir_mode, prot_opt
  open,                 \* is_open
  pc,                   \* where the application is
  sendSt, sendIdx, sendLen, sendCnt, sem, \* send_status, send_info
  timer,                \* the send timer is running
  rx, rxClosed,         \* the receive interrupt is on; user_close_recv_flag
  recvSt,               \* recv_status
  ringUp, rd, wr, buf,  \* ring_buf is allocated; read_idx, write_idx, p_buf
  recvq,                \* recv_queue
  errVal,               \* recv_err_val: "null", "live" or "freed"
  notifUp, notif,       \* dev_notif_queue exists; entries in it
  task, taskMsg,        \* where the receive task is; out_data
  len, bad, cnt,        \* what the current send was asked for
  aired,                \* history: codes put on the air for it
  heard,                \* history: codes stored in this reception
  doubleFree            \* history: recv_err_val was freed twice

drvVars  == <<single, timer, rx, rxClosed>>
cfgVars  == <<mode, prot, open>>
sendVars == <<sendSt, sendIdx, sendLen, sendCnt, sem>>
ringVars == <<ringUp, rd, wr, buf>>
taskVars == <<notifUp, notif, task, taskMsg>>
reqVars  == <<len, bad, cnt>>
recvVars == <<recvSt, ringVars, recvq, heard>>
rest     == <<errVal, doubleFree>>

vars == <<single, mode, prot, open, pc, sendSt, sendIdx, sendLen, sendCnt, sem,
          timer, rx, rxClosed, recvSt, ringUp, rd, wr, buf, recvq, errVal,
          notifUp, notif, task, taskMsg, len, bad, cnt, aired, heard, doubleFree>>

Receives == mode # "SEND_ONLY"
-----------------------------------------------------------------------------
(* Plausible slips, used to show that the properties notice them.          *)

LastCodeSkipped     == sendIdx + 1 >= sendLen
FullTooEarly(r, w)  == (w + 2) % BufLen = r
NoNewTask           == task
Peeked              == notif
InterruptLeftOn     == rx
RetriedForEver      == "start"
LoneEdgeIgnored     == heard > 0
-----------------------------------------------------------------------------
(* Ring buffer: one word always stays free.                                *)

RingLength(r, w) == (BufLen + w - r) % BufLen
IsFull(r, w)     == (w + 1) % BufLen = r
Next1(w)         == IF w + 1 < BufLen THEN w + 1 ELSE 0

\* __tdl_ir_ring_buf_read of the n words from r on.
RingRead(r, w, n) ==
  [i \in 1 .. n |-> IF r < w \/ i <= BufLen - r THEN buf[r + i - 1]
                                                ELSE buf[i - (BufLen - r) - 1]]
RingReadIdx(r, w, n) == IF r < w THEN r + n ELSE n - (BufLen - r)
-----------------------------------------------------------------------------
(* The driver.                                                             *)

\* __tdd_ir_pre_send_process stops the receiver when both share a timer.
RxWhileSending == rx /\ ~(single /\ mode = "SEND_RECV")

\* __tdd_ir_send_finish_process re-initialises it, unless the user closed it.
RxAfterSending == rx \/ (single /\ mode = "SEND_RECV" /\ ~rxClosed)

TimerKeepsRunning == UNCHANGED timer /\ rx' = RxAfterSending
SendFinishProcess == timer' = FALSE /\ rx' = RxAfterSending
-----------------------------------------------------------------------------
(* The send timer's interrupt: __tdl_ir_output_finish_cb.                  *)

FrameOver == sendIdx >= sendLen

\* __tdl_ir_send_finish
SendFinish ==
  /\ sendSt' = "FINISH" /\ sem' = 1
  /\ sendIdx' = 0 /\ sendLen' = 0 /\ sendCnt' = 0
  /\ SendFinishProcess

\* The code to output next.
OutputIdx == IF FrameOver THEN 0 ELSE sendIdx

IsrDone ==
  /\ timer /\ FrameOver /\ sendCnt = 0
  /\ SendFinish
  /\ UNCHANGED <<single, rxClosed, cfgVars, pc, recvVars, taskVars, reqVars,
                 aired, rest>>

\* The driver refuses durations it cannot time.
IsrOutputFails ==
  /\ timer /\ ~(FrameOver /\ sendCnt = 0)
  /\ OutputIdx = bad
  /\ SendFinish
  /\ UNCHANGED <<single, rxClosed, cfgVars, pc, recvVars, taskVars, reqVars,
                 aired, rest>>

IsrOutput ==
  /\ timer /\ ~(FrameOver /\ sendCnt = 0)
  /\ OutputIdx # bad
  /\ sendIdx' = OutputIdx + 1
  /\ sendCnt' = IF FrameOver THEN sendCnt - 1 ELSE sendCnt
  /\ aired' = aired + 1
  /\ UNCHANGED <<drvVars, cfgVars, pc, sendSt, sendLen, sem, recvVars, taskVars,
                 reqVars, rest>>
-----------------------------------------------------------------------------
(* The application sends: tdl_ir_dev_send.                                 *)

\* The checks; NEC data is built first.
SendCall(n, b, c) ==
  /\ pc = "idle" /\ open
  /\ mode # "RECV_ONLY" /\ sendSt = "IDLE" /\ recvSt # "RECVING"
  /\ len' = n /\ bad' = b /\ cnt' = c
  /\ sendSt' = IF prot = "NEC" THEN "BUILD" ELSE sendSt
  /\ pc' = "fill"
  /\ UNCHANGED <<drvVars, cfgVars, sendIdx, sendLen, sendCnt, sem, recvVars,
                 taskVars, aired, rest>>

SendFill ==
  /\ pc = "fill"
  /\ sendIdx' = 0 /\ sendLen' = len /\ sendCnt' = cnt - 1
  /\ sendSt' = "SENDING" /\ aired' = 0
  /\ pc' = "start"
  /\ UNCHANGED <<drvVars, cfgVars, sem, recvVars, taskVars, reqVars,
                 rest>>

\* __tdd_ir_pre_send_process; its failures are not passed on.
SendStart ==
  /\ pc = "start"
  /\ pc' = "wait"
  /\ \/ timer' = TRUE /\ rx' = RxWhileSending
     \/ UNCHANGED timer /\ rx' = RxWhileSending   \* PWM or timer init fails
     \/ SendFinishProcess                         \* the timer does not start
  /\ UNCHANGED <<single, rxClosed, cfgVars, sendVars, recvVars, taskVars,
                 reqVars, aired, rest>>

SendWake ==
  /\ pc = "wait" /\ sem = 1
  /\ sem' = 0 /\ pc' = "done"
  /\ UNCHANGED <<drvVars, cfgVars, sendSt, sendIdx, sendLen, sendCnt, recvVars,
                 taskVars, reqVars, aired, rest>>

\* Where a send goes on after 20 s without a token.
AfterTimeout == "abort"

SendTimeout ==
  /\ pc = "wait" /\ sem = 0
  /\ "short" \in Discipline => ~timer
  /\ pc' = AfterTimeout
  /\ UNCHANGED <<drvVars, cfgVars, sendVars, recvVars, taskVars, reqVars, aired,
                 rest>>

SendAbort ==
  /\ pc = "abort"
  /\ SendFinishProcess
  /\ sendIdx' = 0 /\ sendLen' = 0 /\ sendCnt' = 0
  /\ pc' = "done"
  /\ UNCHANGED <<single, rxClosed, cfgVars, sendSt, sem, recvVars, taskVars,
                 reqVars, aired, rest>>

SendReturn ==
  /\ pc = "done"
  /\ sendSt' = "IDLE" /\ pc' = "idle"
  /\ bad' = IF timer THEN bad ELSE 0
  /\ len' = 0 /\ cnt' = 0 /\ aired' = 0
  /\ UNCHANGED <<drvVars, cfgVars, sendIdx, sendLen, sendCnt, sem, recvVars,
                 taskVars, rest>>
-----------------------------------------------------------------------------
(* The application opens the device: tdl_ir_dev_open.                      *)

\* Whether the task is created.
TaskStarted == IF task = "none" THEN "top" ELSE task

\* __tdl_ir_recv_server_start: ring, receive queue, notification queue and
\* task, each only if it is not there.
RecvServerStart ==
  /\ ringUp' = TRUE /\ notifUp' = TRUE
  /\ IF ringUp THEN UNCHANGED <<rd, wr, buf, recvq>>
     ELSE rd' = 0 /\ wr' = 0 /\ buf' = [i \in 0 .. BufLen - 1 |-> LastLow] /\ recvq' = <<>>
  /\ notif' = IF notifUp THEN notif ELSE 0
  /\ task' = TaskStarted
  /\ UNCHANGED taskMsg

Settled == task = "none" \/ (task = "fetch" /\ notif = 0)

\* The driver's open turns the receive interrupt on.
OpenDriver(m, p) ==
  /\ pc = "idle" /\ ~open
  /\ "restart" \in Discipline => Settled
  /\ "protocol" \in Discipline => p = prot
  /\ mode' = m /\ prot' = p
  /\ rx' = (rx \/ m # "SEND_ONLY")
  /\ rxClosed' = (rxClosed /\ m = "SEND_ONLY")
  /\ pc' = "open"
  /\ UNCHANGED <<single, timer, open, sendVars, recvVars, taskVars, reqVars,
                 aired, rest>>

\* A new semaphore, then what reception needs.
OpenResources ==
  /\ pc = "open"
  /\ sem' = 0
  /\ IF Receives THEN RecvServerStart ELSE UNCHANGED <<ringVars, recvq, taskVars>>
  /\ errVal' = IF Receives /\ prot = "NEC" THEN "live" ELSE errVal
  /\ pc' = "opened"
  /\ UNCHANGED <<drvVars, cfgVars, sendSt, sendIdx, sendLen, sendCnt, recvSt,
                 heard, reqVars, aired, doubleFree>>

OpenDone ==
  /\ pc = "opened"
  /\ sendSt' = "IDLE" /\ recvSt' = "IDLE" /\ open' = TRUE
  /\ pc' = "idle"
  /\ UNCHANGED <<drvVars, mode, prot, sendIdx, sendLen, sendCnt, sem, ringVars,
                 recvq, heard, taskVars, reqVars, aired, rest>>
-----------------------------------------------------------------------------
(* The application closes it: tdl_ir_dev_close.                            *)

Quiet == recvSt = "IDLE"

CloseCall ==
  /\ pc = "idle"
  /\ "close" \in Discipline => open /\ Quiet
  /\ pc' = "close"
  /\ UNCHANGED <<drvVars, cfgVars, sendVars, recvVars, taskVars, reqVars, aired, rest>>

\* After the last transmission the receive queue is drained.
CloseDrain ==
  /\ pc = "close" /\ sendSt = "IDLE"
  /\ recvq' = IF open /\ Receives THEN <<>> ELSE recvq
  /\ pc' = "drained"
  /\ UNCHANGED <<drvVars, cfgVars, sendVars, recvSt, ringVars, heard,
                 taskVars, reqVars, aired, rest>>

\* __tdl_ir_recv_deinit, and the decoder's tolerances are released.
CloseFree ==
  /\ pc = "drained"
  /\ IF Receives
       THEN /\ ringUp' = FALSE /\ recvq' = <<>>
            /\ errVal' = IF errVal = "live" THEN "freed" ELSE errVal
            /\ doubleFree' = (doubleFree \/ errVal = "freed")
       ELSE UNCHANGED <<ringUp, recvq, errVal, doubleFree>>
  /\ pc' = "freed"
  /\ UNCHANGED <<drvVars, cfgVars, sendVars, recvSt, rd, wr, buf, heard,
                 taskVars, reqVars, aired>>

\* __tdd_ir_drv_close
RxAfterClose == rx /\ ~Receives

CloseDone ==
  /\ pc = "freed"
  /\ timer' = FALSE /\ rx' = RxAfterClose
  /\ open' = FALSE
  /\ pc' = "idle"
  /\ UNCHANGED <<single, rxClosed, mode, prot, sendVars, recvVars, taskVars,
                 reqVars, aired, rest>>
-----------------------------------------------------------------------------
(* The application configures it and fetches data: tdl_ir_config and       *)
(* tdl_ir_dev_recv.                                                        *)

ReceiverUp == open /\ Receives /\ ringUp

SendHwReset ==
  /\ pc = "idle"
  /\ timer' = FALSE
  /\ UNCHANGED <<single, rx, rxClosed, cfgVars, pc, sendVars, recvVars, taskVars,
                 reqVars, aired, rest>>

RecvHwInit ==
  /\ \/ pc = "idle" /\ ("open" \in Discipline => ReceiverUp)
     \/ pc = "restart"
  /\ rx' = TRUE /\ rxClosed' = FALSE
  /\ pc' = "idle"
  /\ UNCHANGED <<single, timer, cfgVars, sendVars, recvVars, taskVars, reqVars,
                 aired, rest>>

\* The command by itself, or the first half of IR_CMD_RECV_TASK_STOP.
RecvHwDeinit(next) ==
  /\ pc = "idle"
  /\ next = "stop" /\ "close" \in Discipline => ReceiverUp /\ Quiet
  /\ rx' = FALSE /\ rxClosed' = TRUE
  /\ pc' = next
  /\ UNCHANGED <<single, timer, cfgVars, sendVars, recvVars, taskVars, reqVars,
                 aired, rest>>

\* The task is woken so that it sees that nobody receives any more.
RecvTaskStop ==
  /\ pc = "stop" /\ (notifUp => notif < NotifMax)
  /\ ringUp' = FALSE /\ recvq' = <<>>
  /\ notif' = IF notifUp THEN notif + 1 ELSE notif
  /\ pc' = "idle"
  /\ UNCHANGED <<drvVars, cfgVars, sendVars, recvSt, rd, wr, buf, heard,
                 notifUp, task, taskMsg, reqVars, aired, rest>>

RecvTaskStart ==
  /\ pc = "idle"
  /\ "open" \in Discipline => open /\ Receives
  /\ "restart" \in Discipline => Settled
  /\ RecvServerStart
  /\ pc' = "restart"
  /\ UNCHANGED <<drvVars, cfgVars, sendVars, recvSt, heard, reqVars,
                 aired, rest>>

\* One message, or with IR_CMD_RECV_QUEUE_CLEAN all of them.
Fetch(left) ==
  /\ pc = "idle" /\ open /\ Receives /\ recvq # <<>>
  /\ recvq' = left
  /\ UNCHANGED <<drvVars, cfgVars, pc, sendVars, recvSt, ringVars, heard,
                 taskVars, reqVars, aired, rest>>
-----------------------------------------------------------------------------
(* The receive pin's interrupt: __tdl_ir_recv_cb.                          *)

\* The light the receiver sees comes at any time the rules do not exclude.
Light ==
  /\ rx
  /\ "open"  \in Discipline => pc \notin {"open", "opened"}
  /\ "close" \in Discipline => pc \notin {"close", "drained", "freed", "stop"}

EdgeOverflow ==
  /\ Light /\ ringUp /\ IsFull(rd, wr) /\ recvSt = "RECVING"
  /\ recvSt' = "OVERFLOW"
  /\ UNCHANGED <<drvVars, cfgVars, pc, sendVars, ringVars, recvq, heard,
                 taskVars, reqVars, aired, rest>>

\* The first edge starts a reception and wakes the task; it is not stored.
EdgeStarts ==
  /\ Light /\ ringUp /\ ~IsFull(rd, wr) /\ recvSt = "IDLE"
  /\ notifUp => notif < NotifMax
  /\ recvSt' = "RECVING" /\ heard' = 0
  /\ notif' = IF notifUp THEN notif + 1 ELSE notif
  /\ UNCHANGED <<drvVars, cfgVars, pc, sendVars, ringVars, recvq,
                 notifUp, task, taskMsg, reqVars, aired, rest>>

EdgeStored ==
  /\ Light /\ ringUp /\ ~IsFull(rd, wr) /\ recvSt = "RECVING"
  /\ heard' = heard + 1
  /\ buf' = [buf EXCEPT ![wr] = heard + 1]
  /\ wr' = Next1(wr)
  /\ UNCHANGED <<drvVars, cfgVars, pc, sendVars, recvSt, ringUp, rd, recvq, taskVars, reqVars, aired, rest>>
-----------------------------------------------------------------------------
(* The receive task: __tdl_ir_recv_task.                                   *)

\* recv_dev_run_num is 0 when the receiver is down.
TaskTop ==
  /\ task = "top"
  /\ task' = IF ringUp THEN "fetch" ELSE "leave"
  /\ UNCHANGED <<drvVars, cfgVars, pc, sendVars, recvVars, notifUp, notif, taskMsg,
                 reqVars, aired, rest>>

NotifLeft == notif - 1

TaskFetch ==
  /\ task = "fetch" /\ notifUp /\ notif > 0
  /\ notif' = NotifLeft
  /\ task' = IF recvSt = "IDLE" THEN "top" ELSE "wait"
  /\ UNCHANGED <<drvVars, cfgVars, pc, sendVars, recvVars, notifUp, taskMsg,
                 reqVars, aired, rest>>

\* 300 ms without an edge may have passed at any time.
Silence == TRUE

TaskTimeout ==
  /\ task = "wait" /\ recvSt = "RECVING" /\ Silence
  /\ recvSt' = "FINISH"
  /\ UNCHANGED <<drvVars, cfgVars, pc, sendVars, ringVars, recvq, heard,
                 taskVars, reqVars, aired, rest>>

TaskEnds ==
  /\ task = "wait" /\ recvSt # "RECVING"
  /\ recvSt' = IF recvSt = "OVERFLOW" THEN "FINISH" ELSE recvSt
  /\ task' = IF recvSt = "IDLE" THEN "top" ELSE "finish"
  /\ UNCHANGED <<drvVars, cfgVars, pc, sendVars, ringVars, recvq, heard,
                 notifUp, notif, taskMsg, reqVars, aired, rest>>

\* Too short a reception is dropped; the others get the last low time.
TaskFinish ==
  /\ task = "finish" /\ ringUp
  /\ IF RingLength(rd, wr) < ValidMin
       THEN task' = "reset" /\ UNCHANGED <<wr, buf>>
       ELSE /\ task' = "read"
            /\ IF IsFull(rd, wr) THEN UNCHANGED <<wr, buf>>
               ELSE wr' = Next1(wr) /\ buf' = [buf EXCEPT ![wr] = LastLow]
  /\ UNCHANGED <<drvVars, cfgVars, pc, sendVars, recvSt, ringUp, rd, recvq, heard, notifUp, notif, taskMsg, reqVars, aired, rest>>

\* __tdl_ir_recv_data_process: the whole ring becomes one message; NEC looks at
\* the words without taking them, and may find no frame in them.
TaskRead ==
  /\ task = "read" /\ ringUp
  /\ LET n == RingLength(rd, wr)
     IN  /\ \/ task' = "post" /\ taskMsg' = RingRead(rd, wr, n)
            \/ prot = "NEC" /\ task' = "reset" /\ UNCHANGED taskMsg
         /\ rd' = IF prot = "NEC" THEN rd ELSE RingReadIdx(rd, wr, n)
  /\ UNCHANGED <<drvVars, cfgVars, pc, sendVars, recvSt, ringUp, wr, buf, recvq,
                 heard, notifUp, notif, reqVars, aired, rest>>

\* A full queue for 3 s, or none, and the message is dropped.
TaskPost ==
  /\ task = "post"
  /\ recvq' = IF ringUp /\ Len(recvq) < QueueNum THEN Append(recvq, taskMsg) ELSE recvq
  /\ task' = "reset" /\ taskMsg' = <<>>
  /\ UNCHANGED <<drvVars, cfgVars, pc, sendVars, recvSt, ringVars, heard,
                 notifUp, notif, reqVars, aired, rest>>

TaskReset ==
  /\ task = "reset" /\ ringUp
  /\ rd' = wr /\ recvSt' = "IDLE" /\ heard' = 0
  /\ task' = "top"
  /\ UNCHANGED <<drvVars, cfgVars, pc, sendVars, ringUp, wr, buf, recvq, notifUp, notif, taskMsg, reqVars, aired, rest>>

\* The task frees the notification queue, then deletes itself.
TaskLeave ==
  /\ task = "leave"
  /\ notifUp' = FALSE /\ notif' = 0 /\ task' = "delete"
  /\ UNCHANGED <<drvVars, cfgVars, pc, sendVars, recvVars, taskMsg, reqVars, aired, rest>>

TaskDelete ==
  /\ task = "delete"
  /\ task' = "none"
  /\ UNCHANGED <<drvVars, cfgVars, pc, sendVars, recvVars, notifUp, notif, taskMsg,
                 reqVars, aired, rest>>
-----------------------------------------------------------------------------
\* __tdl_ir_dev_register: a closed device; its driver has one timer or two.
Init ==
  /\ single \in BOOLEAN /\ mode = "SEND_ONLY" /\ prot \in Prots /\ open = FALSE
  /\ pc = "idle"
  /\ sendSt = "IDLE" /\ sendIdx = 0 /\ sendLen = 0 /\ sendCnt = 0 /\ sem = 0
  /\ timer = FALSE /\ rx = FALSE /\ rxClosed = FALSE
  /\ recvSt = "IDLE"
  /\ ringUp = FALSE /\ rd = 0 /\ wr = 0 /\ buf = [i \in 0 .. BufLen - 1 |-> LastLow]
  /\ recvq = <<>> /\ errVal = "null"
  /\ notifUp = FALSE /\ notif = 0 /\ task = "none" /\ taskMsg = <<>>
  /\ len = 0 /\ bad = 0 /\ cnt = 0
  /\ aired = 0 /\ heard = 0
  /\ doubleFree = FALSE

Isr == IsrDone \/ IsrOutputFails \/ IsrOutput

AppContinues ==
  \/ SendFill \/ SendStart \/ SendWake \/ SendTimeout \/ SendAbort \/ SendReturn
  \/ OpenResources \/ OpenDone
  \/ CloseDrain \/ CloseFree \/ CloseDone
  \/ RecvTaskStop

AppCalls ==
  \/ \E n \in SendLens, c \in SendCnts : \E b \in 0 .. n : SendCall(n, b, c)
  \/ \E m \in Modes, p \in Prots : OpenDriver(m, p)
  \/ CloseCall
  \/ SendHwReset \/ RecvHwInit
  \/ \E next \in {"idle", "stop"} : RecvHwDeinit(next)
  \/ RecvTaskStart
  \/ Fetch(<<>>) \/ Fetch(Tail(recvq))

Edge == EdgeOverflow \/ EdgeStarts \/ EdgeStored

Task ==
  \/ TaskTop \/ TaskFetch \/ TaskTimeout \/ TaskEnds \/ TaskFinish
  \/ TaskRead \/ TaskPost \/ TaskReset \/ TaskLeave \/ TaskDelete

Next == Isr \/ AppContinues \/ AppCalls \/ Edge \/ Task

\* An armed timer fires, a runnable thread runs; neither the application nor
\* the light owes anybody a call or an edge.
Fairness == WF_vars(Isr) /\ WF_vars(AppContinues) /\ WF_vars(Task)

Spec == Init /\ [][Next]_vars

FairSpec == Spec /\ Fairness
-----------------------------------------------------------------------------
TypeOK ==
  /\ single \in BOOLEAN /\ open \in BOOLEAN /\ timer \in BOOLEAN
  /\ rx \in BOOLEAN /\ rxClosed \in BOOLEAN /\ ringUp \in BOOLEAN
  /\ notifUp \in BOOLEAN /\ doubleFree \in BOOLEAN
  /\ mode \in Modes /\ prot \in Prots
  /\ pc \in {"idle", "fill", "start", "wait", "abort", "done", "open", "opened",
            "close", "drained", "freed", "stop", "restart"}
  /\ sendSt \in {"IDLE", "BUILD", "SENDING", "FINISH"}
  /\ sendIdx \in Nat /\ sendLen \in Nat /\ sendCnt \in Nat
  /\ len \in Nat /\ bad \in Nat /\ cnt \in Nat /\ aired \in Nat /\ heard \in Nat
  /\ sem \in {0, 1}
  /\ recvSt \in {"IDLE", "RECVING", "FINISH", "OVERFLOW"}
  /\ rd \in 0 .. BufLen - 1 /\ wr \in 0 .. BufLen - 1
  /\ buf \in [0 .. BufLen - 1 -> Nat]
  /\ taskMsg \in Seq(Nat) /\ recvq \in Seq(Seq(Nat)) /\ Len(recvq) <= QueueNum
  /\ errVal \in {"null", "live", "freed"}
  /\ notif \in 0 .. NotifMax
  /\ task \in {"none", "top", "fetch", "wait", "finish", "read", "post", "reset",
              "leave", "delete"}

(* The sending side, when no transmission outlasts its wait.               *)

Sending == {"fill", "start", "wait", "abort", "done"}

\* "The send blocks ... until the codes have been sent": when tdl_ir_dev_send has
\* returned, the timer no longer reads the caller's buffer, the semaphore has
\* no token left for the next send, and the device is free again.
SendBlocks ==
  Kept({"short"}) /\ pc \notin Sending => ~timer /\ sem = 0 /\ sendSt = "IDLE"

\* What has gone out when a send is about to return: every code of every
\* repetition, or those before the first one the driver cannot output, or
\* nothing when the transmission never started.
AirExact ==
  Kept({"short"}) /\ pc = "done" =>
    aired = IF sendSt = "SENDING" THEN 0 ELSE IF bad < len THEN bad ELSE len * cnt

(* The receiving side.                                                     *)

\* The words of a message are those of one reception from its first word on,
\* none missing and none from another one; only a full ring lacks the last
\* low time.
OneReception(m) ==
  /\ Len(m) >= ValidMin /\ Len(m) < BufLen
  /\ \A i \in 1 .. Len(m) : m[i] = i \/ (i = Len(m) /\ m[i] = LastLow)
  /\ m[Len(m)] # LastLow => Len(m) = BufLen - 1

Messages ==
  Kept(ReceiverRules) =>
  /\ task = "post" => OneReception(taskMsg)
  /\ \A i \in 1 .. Len(recvq) : OneReception(recvq[i])

Busy == {"wait", "finish", "read", "post", "reset"}

\* A reception that has begun is in the hands of the task, or the task has a
\* notification for it: no reception is left to itself (recv_status would
\* stay RECVING and every send be refused).
Attended ==
  Kept(ReceiverRules) /\ recvSt # "IDLE" =>
    \/ task \in Busy
    \/ notifUp /\ notif > 0 /\ ringUp /\ task \in {"top", "fetch"}

\* The interrupt posts without a timeout: it must always find room.
IsrFindsRoom == Kept(ReceiverRules) /\ rx => notif < NotifMax

\* The interrupt and the task are about to use the ring; neither tests that
\* there is one.
UsesRing == Light \/ task \in {"finish", "read", "reset"}

\* With an application that keeps the rules, interrupt and task never use the
\* ring before it is there or after it is gone, and nothing is freed twice.
NoMemoryFault ==
  /\ Kept(ReceiverRules) /\ UsesRing => ringUp
  /\ Kept({"close", "protocol"}) => ~doubleFree

(* Liveness.                                                               *)

\* Every send returns, when no transmission outlasts its wait.
SendReturns == pc \in Sending ~> pc = "idle"

\* Every reception ends, be it that the light stops or that the ring is full.
ReceptionEnds == recvSt = "RECVING" ~> recvSt = "IDLE"

\* The same claim about sending without any condition on how long it takes.
SendBlocksAlways == pc = "idle" => ~timer
=============================================================================
