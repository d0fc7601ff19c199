------------------------------- MODULE Virtio -------------------------------
(***************************************************************************)
(* The virtio block driver: block_read publishes one request to the device *)
(* and polls for its completion.  The device works on its own: it fetches  *)
(* the request, writes data, status and the used index to memory, each     *)
(* some time later, or never.  A driver that has polled long enough resets *)
(* the device and gives the disk up.                                       *)
(*                                                                         *)
(* The indices of the rings are counters of INDEX values that wrap around  *)
(* (2^16 in the code).  The available ring's entries all name descriptor 0, *)
(* the head of the one request, so only its index is modelled.             *)
(***************************************************************************)
EXTENDS Naturals

CONSTANTS
  Disks,         \* the sizes in sectors the disk may have
  QueueSizes,    \* the queue sizes the device may have
  INDEX          \* the number of values of a ring index

ASSUME IndexAssumption == INDEX \in Nat \ {0, 1}

\* A capacity has 32 bits, so there is a largest one.
ASSUME HardwareAssumption ==
  /\ Disks \subseteq Nat /\ QueueSizes \subseteq Nat
  /\ \E n \in Disks : \A m \in Disks : m <= n

VARIABLES
  queue_size,    \* the entries of the queue; 0 before block_init
  sectors,       \* the driver's count of sectors; 0 when there is no disk
  completed,     \* the driver's count of completed requests
  request,       \* the request in memory: sector, data and status
  avail,         \* the index of the available ring, written by the driver
  used,          \* the index of the used ring, written by the device
  reading,       \* the sectors block_read is called for: none or one
  expired,       \* the last poll has been made, without success
  result,        \* what the last block_read returned: its data, or Failed
  device         \* the device: [up, seen, doing, sector]

vars == <<queue_size, sectors, completed, request, avail, used, reading,
          expired, result, device>>

\* What a sector of the disk contains: all that matters is which one it is.
Sector(n) == <<"sector", n>>
NoData == <<"none", 0>>
Failed == <<"failed", 0>>

Sectors == 0 .. (CHOOSE n \in Disks : \A m \in Disks : m <= n)

Init ==
  /\ queue_size = 0
  /\ sectors = 0
  /\ completed = 0
  /\ request = [sector |-> 0, data |-> NoData, status |-> "ok"]
  /\ avail = 0
  /\ used = 0
  /\ reading = {}
  /\ expired = FALSE
  /\ result = NoData
  /\ device = [up |-> FALSE, seen |-> 0, doing |-> "idle", sector |-> 0]

-----------------------------------------------------------------------------
\* block_init.  The memory for the queue is three pages: the descriptors, the
\* available ring behind them, the used ring at the next page boundary.
QUEUE_BYTES == 12288

ROUND_UP(x, n) == ((x + n - 1) \div n) * n

\* Mutant: any power of two is taken.
AnyPowerOfTwo(q) == \E k \in 0 .. 15 : q = 2 ^ k

UsableQueue(q) == q >= 3 /\ q <= 256 /\ \E k \in 0 .. 15 : q = 2 ^ k

AvailOffset == 16 * queue_size

UsedOffset == ROUND_UP(18 * queue_size + 6, 4096)

\* high says that the disk's sector count needs more than 32 bits.
block_init(q, high, n) ==
  /\ queue_size = 0
  /\ UsableQueue(q) /\ ~high /\ n # 0
  /\ queue_size' = q
  /\ sectors' = n
  /\ device' = [device EXCEPT !.up = TRUE]
  /\ UNCHANGED <<completed, request, avail, used, reading, expired, result>>

\* No device, or one this driver cannot use: sectors is 0, so nothing looks at
\* the queue.
InitFails(q, high, n) ==
  /\ queue_size = 0
  /\ ~UsableQueue(q) \/ high \/ n = 0
  /\ UNCHANGED vars

-----------------------------------------------------------------------------
\* block_read.  A call for a sector the disk does not have fails at once.
Refuse(n) ==
  /\ reading = {} /\ n >= sectors
  /\ result' = Failed
  /\ UNCHANGED <<queue_size, sectors, completed, request, avail, used, reading,
                 expired, device>>

\* The request is filled in and published, and the device notified.  One step:
\* the device looks at request, descriptors and ring entry only once the index,
\* written behind them with a barrier between, has moved, and not notified it
\* is a device that does not answer.
Publish(n) ==
  /\ reading = {} /\ n < sectors
  /\ request' = [request EXCEPT !.sector = n, !.status = "pending"]
  /\ avail' = (completed + 1) % INDEX
  /\ reading' = {n}
  /\ UNCHANGED <<queue_size, sectors, completed, used, expired, result, device>>

\* Mutant: the counts are compared by size, as if they never wrapped around.
AnsweredAhead == used > completed

\* What polling looks for.
HasAnswered == used # completed

\* Mutant: the status is not looked at.
CompleteUnchecked ==
  /\ reading # {} /\ ~expired /\ HasAnswered
  /\ completed' = (completed + 1) % INDEX
  /\ result' = request.data
  /\ reading' = {}
  /\ UNCHANGED <<queue_size, sectors, request, avail, used, expired, device>>

\* Polling meets a used index other than the driver's count.
Complete ==
  /\ reading # {} /\ ~expired /\ HasAnswered
  /\ completed' = (completed + 1) % INDEX
  /\ result' = IF request.status = "ok" THEN request.data ELSE Failed
  /\ reading' = {}
  /\ UNCHANGED <<queue_size, sectors, request, avail, used, expired, device>>

\* Mutant: polling has no bound.
PollForever == reading # {} /\ ~HasAnswered /\ UNCHANGED vars

\* The last poll does not meet it either.  An answer may still come before
\* the next step.
TimeOut ==
  /\ reading # {} /\ ~expired /\ ~HasAnswered
  /\ expired' = TRUE
  /\ UNCHANGED <<queue_size, sectors, completed, request, avail, used, reading,
                 result, device>>

\* Mutant: the disk stays in use after a timeout.
GiveUpKeepDisk ==
  /\ expired
  /\ expired' = FALSE
  /\ result' = Failed
  /\ reading' = {}
  /\ UNCHANGED <<queue_size, sectors, completed, request, avail, used, device>>

\* Reset the device and never use the disk again.
GiveUp ==
  /\ expired
  /\ expired' = FALSE
  /\ device' = [device EXCEPT !.up = FALSE, !.doing = "idle"]
  /\ sectors' = 0
  /\ result' = Failed
  /\ reading' = {}
  /\ UNCHANGED <<queue_size, completed, request, avail, used>>

block_read ==
  \/ \E n \in Sectors : Refuse(n) \/ Publish(n)
  \/ Complete
  \/ TimeOut
  \/ GiveUp

-----------------------------------------------------------------------------
\* The device.  It takes up a request when the available index has moved.
Fetch ==
  /\ device.up /\ device.doing = "idle" /\ device.seen # avail
  /\ device' = [device EXCEPT !.doing = "read", !.sector = request.sector,
                              !.seen = (device.seen + 1) % INDEX]
  /\ UNCHANGED <<queue_size, sectors, completed, request, avail, used, reading,
                 expired, result>>

WriteData ==
  /\ device.doing = "read"
  /\ request' = [request EXCEPT !.data = Sector(device.sector)]
  /\ device' = [device EXCEPT !.doing = "data"]
  /\ UNCHANGED <<queue_size, sectors, completed, avail, used, reading,
                 expired, result>>

\* The status says whether the data could be read.
WriteStatus ==
  /\ device.doing \in {"read", "data"}
  /\ request' = [request EXCEPT !.status =
                   IF device.doing = "data" THEN "ok" ELSE "error"]
  /\ device' = [device EXCEPT !.doing = "status"]
  /\ UNCHANGED <<queue_size, sectors, completed, avail, used, reading,
                 expired, result>>

WriteUsed ==
  /\ device.doing = "status"
  /\ used' = (used + 1) % INDEX
  /\ device' = [device EXCEPT !.doing = "idle"]
  /\ UNCHANGED <<queue_size, sectors, completed, request, avail, reading,
                 expired, result>>

DeviceStep == Fetch \/ WriteData \/ WriteStatus \/ WriteUsed

Next ==
  \/ \E q \in QueueSizes, high \in BOOLEAN, n \in Disks :
       block_init(q, high, n) \/ InitFails(q, high, n)
  \/ block_read
  \/ DeviceStep

Spec == Init /\ [][Next]_vars

\* The polling loop is bounded, so a call ends whatever the device does.
FairSpec == Spec /\ WF_vars(Complete \/ TimeOut \/ GiveUp)

-----------------------------------------------------------------------------
\* A read that succeeds returns the sector it was called for: never an older
\* sector left in the buffer, and never one a late answer wrote, also after
\* the ring indices have wrapped around.
RightSector ==
  [][ reading # {} /\ reading' = {} =>
        result' \in {Sector(n) : n \in reading} \union {Failed} ]_vars

\* A request the device has answered in time is not given up, nor the disk with
\* it (virtio.c:106): when the last poll finds nothing, the device has not taken
\* the request up or is still at work on it, also after the ring indices have
\* wrapped around.
AnswerNoticed ==
  [][ ~expired /\ expired' => device.seen # avail \/ device.doing # "idle" ]_vars

\* The rings of a queue block_init accepts lie behind each other inside the
\* memory set aside for them: the available ring has 6 bytes and 2 an entry,
\* the used ring 6 bytes and 8 an entry.
QueueFits ==
  queue_size # 0 =>
    /\ AvailOffset + 6 + 2 * queue_size <= UsedOffset
    /\ UsedOffset + 6 + 8 * queue_size <= QUEUE_BYTES

\* "Never reuse buffers while a timed-out DMA may still be live"
\* (virtio.c:109): whenever the driver is not waiting for the device, the
\* device is not working on the request, and nothing it could take up waits.
NoLiveDMA ==
  reading = {} =>
    device.doing = "idle" /\ (device.up => device.seen = avail)

\* Every call of block_read returns, even if the device never answers.
ReadReturns == (reading # {}) ~> (reading = {})
=============================================================================
