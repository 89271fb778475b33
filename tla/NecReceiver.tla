----------------------------- MODULE NecReceiver ----------------------------
(***************************************************************************)
(* The receiving side of one IR device that is opened for NEC: the receive *)
(* interrupt, the receive task and both ways to the application, the       *)
(* callback (__tdl_ir_recv_data_process_sync, which parses while codes     *)
(* still arrive) and the queue (__tdl_ir_recv_data_process, which parses   *)
(* when the reception is over); tdl_ir_dev_manage.c.                       *)
(*                                                                         *)
(* IrDevice has the ring, the task's life, opening and closing; here the   *)
(* ring is a sequence and the device stays open.                           *)
(***************************************************************************)
EXTENDS NecProtocol

CONSTANTS
  Ways,       \* how the application receives: "callback", "queue"
  RingLen,    \* buf_len
  ValidMin,   \* IR_RECV_VALID_LEN_MIN, 20 codes
  Messages,   \* sequences of frames that remotes send in one go
  Drifts,     \* by how much a receiver lengthens or shortens marks and spaces
  Noises,     \* codes received before the first leader
  Spoils,     \* codes of a frame that are lost in noise, by index; 0: none
  Junk        \* what lies behind a buffer

ASSUME ReceiverAssumption ==
  /\ Ways \subseteq {"callback", "queue"} /\ RingLen \in Nat \ {0} /\ ValidMin \in Nat
  /\ Messages \subseteq Seq(Nec) \ {<<>>}
  /\ Drifts \subseteq [mark : Int, space : Int] /\ Noises \subseteq Seq(Nat)
  /\ Spoils \subseteq Nat /\ Junk \subseteq Nat

\* A drift that the tolerances cover and with which they still tell the codes apart.
Recognised(d) ==
  LET lead == Tolerance["lead"]
  IN  /\ IsLeader(LEADER[1] + d.mark, LEADER[2] + d.space)
      /\ IsLogic0(LOGIC_HIGH_US + d.mark, LOGIC0_LOW_US + d.space)
      /\ IsLogic1(LOGIC_HIGH_US + d.mark, LOGIC1_LOW_US + d.space)
      /\ ~IsLogic0(LOGIC_HIGH_US + d.mark, LOGIC1_LOW_US + d.space)
      /\ IsRepeat(REPEAT[1] + d.mark, REPEAT[2] + d.space)
      /\ ~IsRepeat(LEADER[1] + d.mark, LEADER[2] + d.space)
      /\ Distance(LOGIC_HIGH_US + d.mark, LEADER[1]) > ErrVal(LEADER[1], lead)
      /\ Distance(LEADER[1] + d.mark, LEADER[2]) > ErrVal(LEADER[2], lead)

\* Noise that is shorter than a frame and has no code like the mark of a leader.
Harmless(noise) ==
  /\ Len(noise) + 2 <= FrameMin
  /\ \A i \in DOMAIN noise : Distance(noise[i], LEADER[1]) > ErrVal(LEADER[1], Tolerance["lead"])

CodesClear == (\A d \in Drifts : Recognised(d)) /\ \A noise \in Noises : Harmless(noise)

\* A frame is not dropped for its length, and what lies behind it is no repeat code.
QueueFits == ValidMin <= FrameMin /\ \A b \in Junk : ~IsRepeat(b, b)

VARIABLES
  way,          \* app_recv_cb is set or not
  frames, air,  \* what is sent; the times that have yet to end in an edge
  spoilt,       \* this reception met noise, a full ring or a failed malloc
  ring,         \* ring_buf
  status,       \* recv_status
  lastTotal, lastRepeat,            \* the decoder's static variables
  pc, data, offset, len, frameLen,  \* the task; its copy and place in it
  out           \* what the application was given in this reception

taskVars == <<pc, data, offset, len, frameLen>>
vars == <<way, frames, air, spoilt, ring, status, lastTotal, lastRepeat, taskVars, out>>
-----------------------------------------------------------------------------
(* Plausible slips, used to show that the properties notice them.          *)

FullTooLate(r)            == Len(r) = RingLen
NothingDiscarded(r, n)    == r
OnlyByTheNext(heads, left) == heads # {}
AskedTooMuch(report)      == report.len > FrameLen + 2
-----------------------------------------------------------------------------
(* The air.                                                                *)

Drifted(codes, d) ==
  [i \in DOMAIN codes |-> codes[i] + (IF i % 2 = 1 THEN d.mark ELSE d.space)]

\* A time that is no part of a code.
CRACKLE == 30000

Spoilt(codes, s) == IF s = 0 THEN codes ELSE [codes EXCEPT ![s] = CRACKLE]

\* The space after the last mark ends in no edge.  What comes before the first edge
\* has no length.
OnAir(m, d, noise, s) ==
  LET codes == FlattenSeq([i \in DOMAIN m |-> Build(m[i])])
  IN  <<0>> \o noise \o Front(Spoilt(Drifted(codes, d), s))

Sends ==
  /\ air = <<>> /\ status = "idle" /\ pc = "wait"
  /\ \E m \in Messages, d \in Drifts, noise \in Noises, s \in Spoils :
       frames' = m /\ air' = OnAir(m, d, noise, s) /\ spoilt' = (s # 0)
  /\ out' = <<>>
  /\ UNCHANGED <<way, ring, status, lastTotal, lastRepeat, taskVars>>
-----------------------------------------------------------------------------
(* __tdl_ir_recv_cb, in the interrupt.  The first edge only starts the     *)
(* reception.                                                              *)

IsFull(r) == Len(r) = RingLen - 1

Edge ==
  /\ air # <<>>
  /\ air' = Tail(air)
  /\ IF IsFull(ring)
       THEN /\ status' = IF status = "recving" THEN "overflow" ELSE status
            /\ spoilt' = TRUE /\ UNCHANGED ring
       ELSE /\ status' = IF status = "idle" THEN "recving" ELSE status
            /\ ring' = IF status = "recving" THEN Append(ring, Head(air)) ELSE ring
            /\ UNCHANGED spoilt
  /\ UNCHANGED <<way, frames, lastTotal, lastRepeat, taskVars, out>>
-----------------------------------------------------------------------------
(* The decoder behind the callback.                                        *)

Copied(r) == [i \in 0 .. Len(r) - 1 |-> r[i + 1]]

\* The task goes on with a copy, of which n codes from off on are left, or is done with it.
Continue(where, more, copy, off, n, parsed) ==
  IF more THEN /\ pc' = where /\ data' = copy /\ offset' = off /\ len' = n
               /\ frameLen' = parsed
          ELSE pc' = "wait" /\ data' = Copied(<<>>) /\ offset' = 0 /\ len' = 0 /\ frameLen' = 0

\* __tdl_ir_ring_buf_data_discard
Discard(r, n) == IF n >= Len(r) THEN <<>> ELSE SubSeq(r, n + 1, Len(r))

\* While codes arrive, it is not worth parsing for less than three more.
TooEarly(total) == total < FrameMin \/ lastTotal + 3 > total

Restart == lastRepeat' = -1 /\ lastTotal' = 0

\* Up to the loop.  Mallocs may fail: the first time the ring is emptied.
SyncBegins ==
  LET total == Len(ring)
  IN  \/ /\ Restart /\ ring' = <<>> /\ spoilt' = TRUE
         /\ UNCHANGED <<taskVars, out>>
      \/ \E b \in Junk :
           LET heads == Heads(Copied(ring), 0, total, b)
           IN  \/ /\ heads = {}
                  /\ Restart /\ ring' = Discard(ring, total)
                  /\ UNCHANGED <<taskVars, spoilt, out>>
               \/ /\ heads # {}
                  /\ lastTotal' = total
                  /\ Continue("parse", total - Min(heads) >= FrameMin, Copied(ring),
                              Min(heads), total - Min(heads), Min(heads))
                  /\ UNCHANGED <<lastRepeat, ring, spoilt, out>>
               \/ /\ heads # {}
                  /\ lastTotal' = total /\ spoilt' = TRUE
                  /\ UNCHANGED <<lastRepeat, ring, taskVars, out>>

\* One round of the task's loop while the device receives: it sleeps, looks whether
\* nothing has come for 300 ms (no code is that long), and has the decoder look.
Round ==
  /\ pc = "wait" /\ status = "recving"
  /\ status' \in {"recving"} \cup (IF air = <<>> THEN {"finish"} ELSE {})
  /\ IF way = "queue" \/ (TooEarly(Len(ring)) /\ status' = "recving")
       THEN UNCHANGED <<lastTotal, lastRepeat, ring, taskVars, spoilt, out>>
       ELSE SyncBegins
  /\ UNCHANGED <<way, frames, air>>

Reports(report, finish) ==
  (report.len >= FrameMin /\ lastRepeat # report.nec.repeat) \/ finish

RepeatAfter(finish, report) == IF finish THEN -1 ELSE report.nec.repeat

\* A frame is over when the next one has begun, or when the reception is.
FrameIsOver(heads, left) == heads # {} \/ (left <= 4 /\ status = "finish")

\* One round of the decoder's loop.
SyncParse ==
  /\ pc = "parse"
  /\ \E b \in Junk :
       LET report == ParserSingle(data, offset, len, b)
           from   == offset + report.len
           left   == len - report.len
           heads  == IF left > 4 THEN Heads(data, from, left, b) ELSE {}
           skip   == IF heads = {} THEN 0 ELSE Min(heads)
           finish == FrameIsOver(heads, left)
       IN  /\ Continue("parse", left - skip >= FrameMin, data, from + skip, left - skip,
                       IF heads = {} THEN frameLen + report.len ELSE skip)
           /\ ring' = IF heads = {} THEN ring ELSE Discard(ring, frameLen + report.len)
           /\ IF Reports(report, finish)
                THEN /\ out' = Append(out, [finish |-> finish, nec |-> report.nec])
                     /\ lastRepeat' = RepeatAfter(finish, report)
                ELSE UNCHANGED <<out, lastRepeat>>
           /\ lastTotal' = IF finish THEN 0 ELSE lastTotal
  /\ UNCHANGED <<way, frames, air, spoilt, status>>
-----------------------------------------------------------------------------
(* The end of a reception.                                                 *)

Idle == ring' = <<>> /\ status' = "idle"

\* The last low time, which no edge ended.
TAIL_US == 1000000

WithTail(r) == IF IsFull(r) THEN r ELSE Append(r, TAIL_US)

\* With a callback everything has been said; short receptions are dropped.
Finish ==
  /\ pc = "wait" /\ status \in {"finish", "overflow"}
  /\ IF way = "callback" \/ Len(ring) < ValidMin
       THEN Idle /\ UNCHANGED <<spoilt, taskVars>>
       ELSE \/ /\ ring' = WithTail(ring) /\ status' = "finish"
               /\ Continue("queue", TRUE, Copied(ring'), 0, Len(ring'), 0)
               /\ UNCHANGED spoilt
            \/ Idle /\ spoilt' = TRUE /\ UNCHANGED taskVars
  /\ UNCHANGED <<way, frames, air, lastTotal, lastRepeat, out>>

Posted(report) == report.len >= FrameLen

\* One round of __tdl_ir_recv_data_process: the head is looked for behind offset and
\* parsed from the front; a full queue or a failed malloc loses the frame.
QueueParse ==
  /\ pc = "queue"
  /\ \E b \in Junk :
       LET heads  == Heads(data, offset, len, b)
           report == ParserSingle(data, Min(heads), len, b)
           off    == offset + report.len
           more   == heads # {} /\ off + FrameLen <= Cardinality(DOMAIN data)
       IN  \/ /\ heads = {} \/ ~Posted(report)
              /\ Continue("queue", more, data, off, len - report.len, 0)
              /\ IF more THEN UNCHANGED <<ring, status>> ELSE Idle
              /\ UNCHANGED <<out, spoilt>>
           \/ /\ heads # {} /\ Posted(report)
              /\ Continue("queue", more, data, off, len - report.len, 0)
              /\ IF more THEN UNCHANGED <<ring, status>> ELSE Idle
              /\ \/ out' = Append(out, [finish |-> TRUE, nec |-> report.nec]) /\ UNCHANGED spoilt
                 \/ UNCHANGED out /\ spoilt' = TRUE
           \/ /\ heads # {}
              /\ Continue("queue", FALSE, data, 0, 0, 0) /\ Idle
              /\ spoilt' = TRUE /\ UNCHANGED out
  /\ UNCHANGED <<way, frames, air, lastTotal, lastRepeat>>
-----------------------------------------------------------------------------
Init ==
  /\ way \in Ways
  /\ frames = <<>> /\ air = <<>> /\ spoilt = FALSE /\ ring = <<>> /\ status = "idle"
  /\ lastTotal = 0 /\ lastRepeat = -1
  /\ pc = "wait" /\ data = Copied(<<>>) /\ offset = 0 /\ len = 0 /\ frameLen = 0
  /\ out = <<>>

Next == Sends \/ Edge \/ Round \/ SyncParse \/ Finish \/ QueueParse

Spec == Init /\ [][Next]_vars
-----------------------------------------------------------------------------
TypeOK ==
  /\ way \in Ways /\ status \in {"idle", "recving", "overflow", "finish"}
  /\ pc \in {"wait", "parse", "queue"} /\ spoilt \in BOOLEAN
  /\ Len(ring) < RingLen /\ lastTotal \in 0 .. RingLen /\ lastRepeat \in Nat \cup {-1}
  /\ offset \in Nat /\ len \in Nat /\ frameLen \in Nat
  /\ \A i \in DOMAIN out : out[i].nec \in Nec

Over == air = <<>> /\ status = "idle"

\* The finished reports among the first n, and the frame that report i is about.
FinishedIn(n) == {j \in 1 .. n : out[j].finish}
FrameOf(i)    == Cardinality(FinishedIn(i - 1)) + 1

\* Behind a callback, every frame of a clean reception is reported as finished once, in
\* order, with all of its repeats, whenever the task looked, for any drift within the
\* tolerances.
EveryFrameFinished ==
  way = "callback" /\ Over /\ ~spoilt =>
    /\ Cardinality(FinishedIn(Len(out))) = Len(frames)
    /\ \A i \in DOMAIN out : out[i].finish => out[i].nec = frames[FrameOf(i)]

\* What is reported on the way is the frame that is being sent, no more repeats than
\* it has and more than were reported before.
ProgressTrue ==
  way = "callback" /\ ~spoilt =>
    \A i \in DOMAIN out :
      LET f == FrameOf(i)
          r == out[i].nec
      IN  /\ f \in DOMAIN frames
          /\ r.addr = frames[f].addr /\ r.cmd = frames[f].cmd
          /\ r.repeat <= frames[f].repeat
          /\ i > 1 /\ ~out[i - 1].finish /\ ~out[i].finish => out[i - 1].nec.repeat < r.repeat

\* From the queue, a frame that is sent alone is received exactly if it was repeated:
\* what has no repeat parses to fewer codes than the 68 that are asked for.
QueueNeedsRepeat ==
  way = "queue" /\ Over /\ ~spoilt /\ Len(frames) = 1
    => [i \in DOMAIN out |-> out[i].nec] = IF frames[1].repeat > 0 THEN frames ELSE <<>>
=============================================================================
