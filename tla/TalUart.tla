------------------------------- MODULE TalUart ------------------------------
(***************************************************************************)
(* The receive side of tal_uart.c on one port: the interrupt handler moves *)
(* bytes from the hardware FIFO into rx_ring, and tasks take them out with *)
(* tal_uart_read, one at a time under rx_ring_sem, sleeping on             *)
(* rx_block_sem when the port was opened with O_BLOCK and there is nothing *)
(* to read.  The handler runs between any two steps of a reader.           *)
(*                                                                         *)
(* A byte is the number of its arrival.  tal_uart_write and                *)
(* tal_uart_get_rx_data_size change none of this state.                    *)
(***************************************************************************)
EXTENDS Integers, Sequences

CONSTANTS
  Readers,    \* tasks that read the port
  RingSize,   \* rx_buffer_size
  HwSize,     \* capacity of the hardware FIFO
  Lens,       \* the lengths the readers ask for
  MaxBytes    \* bound: bytes that arrive

ASSUME UartAssumption ==
  /\ RingSize \in Nat \ {0} /\ HwSize \in Nat \ {0} /\ MaxBytes \in Nat
  /\ Lens \subseteq Nat \ {0}

VARIABLES
  open, block, \* the port's node is in g_uart_list; its open_mode & O_BLOCK
  hw, ring,    \* hardware FIFO, rx_ring
  flag,        \* wait_rx_flag
  ringSem,     \* rx_ring_sem (maximum 1)
  blockSem,    \* rx_block_sem (maximum 1)
  pc,          \* where each reader is in tal_uart_read
  arrived,     \* history: number of bytes that arrived
  delivered    \* history: the bytes handed to readers

vars == <<open, block, hw, ring, flag, ringSem, blockSem, pc, arrived, delivered>>

Least(a, b) == IF a < b THEN a ELSE b
First(s, n) == SubSeq(s, 1, n)
Rest(s, n)  == SubSeq(s, n + 1, Len(s))
-----------------------------------------------------------------------------
(* Plausible slips, used to show that the properties notice them.          *)

ClearedAnyway(n)   == FALSE
PeekedOnly(n)      == ring
SemNotTaken        == ringSem
-----------------------------------------------------------------------------
\* tal_uart_init: a fresh node; a failure on the way frees everything again.
UartInit ==
  /\ ~open
  /\ open' = TRUE /\ block' \in BOOLEAN
  /\ ring' = <<>> /\ flag' = FALSE /\ ringSem' = 1 /\ blockSem' = 0
  /\ UNCHANGED <<hw, pc, arrived, delivered>>

\* tal_uart_deinit stops the hardware and frees the node with its buffers.  The
\* callers in this repository do so only when no read is under way.
UartDeinit ==
  /\ open /\ \A r \in Readers : pc[r] = "idle"
  /\ open' = FALSE
  /\ hw' = <<>> /\ ring' = <<>>
  /\ UNCHANGED <<block, flag, ringSem, blockSem, pc, arrived, delivered>>

\* The hardware receives a byte.
ByteArrives ==
  /\ open /\ Len(hw) < HwSize /\ arrived < MaxBytes
  /\ arrived' = arrived + 1
  /\ hw' = Append(hw, arrived + 1)
  /\ UNCHANGED <<open, block, ring, flag, ringSem, blockSem, pc, delivered>>

\* rx_bytes: how many bytes one run of the handler stores.
RxBytes == Least(Len(hw), RingSize - Len(ring))

\* wait_rx_flag after n bytes were stored.
FlagAfter(n) == flag /\ n = 0

\* uart_rx_chars_in_isr: bytes go into the ring until the hardware is empty or
\* a byte does not fit, which is dropped and ends the loop.
RxIsr ==
  /\ open /\ hw # <<>>
  /\ ring' = ring \o First(hw, RxBytes)
  /\ hw' = Rest(hw, Least(Len(hw), RxBytes + 1))
  /\ flag' = FlagAfter(RxBytes)
  /\ blockSem' = IF RxBytes >= 1 /\ flag THEN 1 ELSE blockSem
  /\ UNCHANGED <<open, block, ringSem, pc, arrived, delivered>>
-----------------------------------------------------------------------------
(* tal_uart_read.                                                          *)

Goto(r, label) == pc' = [pc EXCEPT ![r] = label]

\* rx_ring_sem after a successful tal_semaphore_wait.
SemTaken == ringSem - 1

ReadLock(r) ==
  /\ pc[r] = "idle" /\ open /\ ringSem > 0
  /\ ringSem' = SemTaken
  /\ Goto(r, "look")
  /\ UNCHANGED <<open, block, hw, ring, flag, blockSem, arrived, delivered>>

\* The fill level decides between a plain read, a blocking one and none.
Look(r) ==
  /\ pc[r] = "look"
  /\ Goto(r, IF ring # <<>> THEN "fetch" ELSE IF block THEN "try" ELSE "unlock")
  /\ UNCHANGED <<open, block, hw, ring, flag, ringSem, blockSem, arrived, delivered>>

\* rx_ring after n bytes were read from it.
LeftInRing(n) == Rest(ring, n)

\* tuya_ring_buff_read, in either branch; it returns 0 on an empty ring.
Fetch(r, len) ==
  LET n == Least(len, Len(ring))
  IN  /\ pc[r] \in {"fetch", "try", "retry"}
      /\ ring' = LeftInRing(n)
      /\ delivered' = delivered \o First(ring, n)
      /\ Goto(r, IF n = 0 /\ pc[r] # "fetch" THEN "flag" ELSE "unlock")
      /\ UNCHANGED <<open, block, hw, flag, ringSem, blockSem, arrived>>

SetFlag(r) ==
  /\ pc[r] = "flag"
  /\ flag' = TRUE
  /\ Goto(r, "sleep")
  /\ UNCHANGED <<open, block, hw, ring, ringSem, blockSem, arrived, delivered>>

\* tal_semaphore_wait(rx_block_sem) returns; the loop reads the ring again.
Wake(r) ==
  /\ pc[r] = "sleep" /\ blockSem = 1
  /\ blockSem' = 0
  /\ Goto(r, "retry")
  /\ UNCHANGED <<open, block, hw, ring, flag, ringSem, arrived, delivered>>

ReadUnlock(r) ==
  /\ pc[r] = "unlock"
  /\ ringSem' = 1
  /\ Goto(r, "idle")
  /\ UNCHANGED <<open, block, hw, ring, flag, blockSem, arrived, delivered>>

ReadStep(r) == \/ Look(r) \/ SetFlag(r) \/ Wake(r) \/ ReadUnlock(r)
               \/ \E len \in Lens : Fetch(r, len)
-----------------------------------------------------------------------------
Init == /\ open = FALSE /\ block = FALSE /\ hw = <<>> /\ ring = <<>>
        /\ flag = FALSE /\ ringSem = 0 /\ blockSem = 0
        /\ pc = [r \in Readers |-> "idle"]
        /\ arrived = 0 /\ delivered = <<>>

Next == \/ UartInit \/ UartDeinit \/ ByteArrives \/ RxIsr
        \/ \E r \in Readers : ReadLock(r) \/ ReadStep(r)

Spec == Init /\ [][Next]_vars

\* A pending interrupt is taken and a task that can run is scheduled; nobody is
\* obliged to send bytes or to start a read.
FairSpec == Spec /\ WF_vars(RxIsr) /\ \A r \in Readers : WF_vars(ReadStep(r))
-----------------------------------------------------------------------------
(* Properties.                                                             *)

Labels == {"idle", "look", "fetch", "try", "flag", "sleep", "retry", "unlock"}

\* Type invariant of the port.
TypeOK ==
  /\ open \in BOOLEAN /\ block \in BOOLEAN /\ flag \in BOOLEAN
  /\ hw \in Seq(Nat) /\ ring \in Seq(Nat) /\ delivered \in Seq(Nat)
  /\ Len(hw) <= HwSize /\ Len(ring) <= RingSize
  /\ ringSem \in 0 .. 1 /\ blockSem \in 0 .. 1
  /\ pc \in [Readers -> Labels]
  /\ arrived \in 0 .. MaxBytes

\* rx_ring_sem admits one reader at a time.
OneReader ==
  \A r \in Readers : pc[r] # "idle"
    => ringSem = 0 /\ open /\ \A q \in Readers : pc[q] # "idle" => q = r

\* A reader sleeps with the handler's promise to wake it: unless the token is
\* already there, wait_rx_flag is set, however handler and reader interleave.
SleeperIsFlagged ==
  \A r \in Readers : pc[r] = "sleep" => flag # (blockSem = 1)

\* A token on rx_block_sem and a set flag belong to the reader that sleeps; no
\* read leaves one behind for the next.
NoStaleToken ==
  flag \/ blockSem = 1 => \E r \in Readers : pc[r] = "sleep"

\* A flag or a token is there exactly while a reader sleeps, and never both: no
\* reader sleeps unpromised, and no promise of one read is left to the next.
WakeUpPromised == SleeperIsFlagged /\ NoStaleToken

\* A reader that was woken, or found the ring filled, finds data: a blocking
\* read never comes back empty-handed and the loop runs at most twice.
WokenFindsData ==
  /\ \A r \in Readers : pc[r] \in {"fetch", "retry"} => ring # <<>>
  /\ blockSem = 1 => ring # <<>>

Increasing(s) == \A i, j \in 1 .. Len(s) : i < j => s[i] < s[j]
Before(s, t)  == \A i \in 1 .. Len(s), j \in 1 .. Len(t) : s[i] < t[j]

\* Bytes reach the readers in the order of their arrival and at most once,
\* through both buffers, overflows and re-initialisations.
InOrder ==
  /\ Increasing(delivered) /\ Increasing(ring) /\ Increasing(hw)
  /\ Before(delivered, ring) /\ Before(delivered, hw) /\ Before(ring, hw)

\* A read of a port opened with O_BLOCK ("blocking read and write",
\* tal_uart.h:20) does not go on sleeping while there is something to read.
SleeperGetsData ==
  \A r \in Readers : (pc[r] = "sleep" /\ ring # <<>>) ~> pc[r] # "sleep"
=============================================================================
