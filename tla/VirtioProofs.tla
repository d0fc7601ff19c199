---------------------------- MODULE VirtioProofs -----------------------------
(***************************************************************************)
(* Proofs about module Virtio, for every disk, every queue the device may  *)
(* have and every width of the ring indices.                               *)
(***************************************************************************)
EXTENDS Virtio, TLAPS

Index == 0 .. INDEX - 1

Following(i) == (i + 1) % INDEX

VirtioTypeOK ==
  /\ queue_size = 0 \/ (queue_size \in Nat /\ UsableQueue(queue_size))
  /\ completed \in Index /\ avail \in Index /\ used \in Index
  /\ request = [sector |-> request.sector, data |-> request.data, status |-> request.status]
  /\ expired \in BOOLEAN
  /\ device \in [up : BOOLEAN, seen : Index, doing : {"idle", "read", "data", "status"},
                 sector : {device.sector}]

\* Between two calls: the device has nothing to do, and the indices agree
\* while it may be used.
Quiet ==
  /\ ~expired
  /\ device.doing = "idle"
  /\ device.up => device.seen = avail /\ used = completed /\ avail = completed
  /\ ~device.up => sectors = 0

\* The request has been answered, or its answer is complete but for the index.
Answered(n) == request.status = "ok" => request.data = Sector(n)

\* During a call for sector n: how far the device is.
Busy(n) ==
  /\ device.up
  /\ request.sector = n
  /\ avail = Following(completed)
  /\ \/ device.doing = "idle" /\ device.seen = completed /\ used = completed
     \/ device.doing = "idle" /\ device.seen = avail /\ used = avail /\ Answered(n)
     \/ /\ device.doing = "read" /\ device.seen = avail /\ used = completed
        /\ device.sector = n
     \/ /\ device.doing = "data" /\ device.seen = avail /\ used = completed
        /\ request.data = Sector(n)
     \/ device.doing = "status" /\ device.seen = avail /\ used = completed /\ Answered(n)

\* The inductive invariant.  A disk that has not been initialised is as at
\* power on.
VirtioInv ==
  /\ VirtioTypeOK
  /\ queue_size = 0 => /\ reading = {} /\ ~device.up
                       /\ avail = 0 /\ used = 0 /\ completed = 0 /\ device.seen = 0
  /\ \/ reading = {} /\ Quiet
     \/ \E n : reading = {n} /\ Busy(n)

-----------------------------------------------------------------------------
\* An index is another one after it has been advanced, also by wrapping around.
LEMMA FollowingIndex ==
  ASSUME NEW i \in Index
  PROVE  Following(i) \in Index /\ Following(i) # i
<1>1. CASE i = INDEX - 1
  BY <1>1, IndexAssumption DEF Index, Following
<1>2. CASE i < INDEX - 1
  BY <1>2, IndexAssumption DEF Index, Following
<1> QED
  BY <1>1, <1>2, IndexAssumption DEF Index

\* A sector has a number.
LEMMA SectorsAreNumbers == Sectors \subseteq Nat
<1> DEFINE last == CHOOSE n \in Disks : \A m \in Disks : m <= n
<1>1. last \in Nat /\ Sectors = 0 .. last
  BY HardwareAssumption DEF Sectors
<1> HIDE DEF last
<1> QED
  BY <1>1

\* Before block_init the device is idle.
LEMMA VirtioInvInit == Init => VirtioInv
<1> SUFFICES ASSUME Init PROVE VirtioInv
  OBVIOUS
<1>1. 0 \in Index
  BY IndexAssumption DEF Index
<1>2. VirtioTypeOK
  BY <1>1 DEF Init, VirtioTypeOK
<1>3. reading = {} /\ Quiet
  BY DEF Init, Quiet
<1> QED
  BY <1>2, <1>3 DEF Init, VirtioInv

\* block_init: the device comes up with empty rings.
LEMMA BlockInitInv ==
  ASSUME VirtioInv, NEW q \in QueueSizes, NEW high \in BOOLEAN, NEW n \in Disks,
         block_init(q, high, n)
  PROVE  VirtioInv'
<1>1. q \in Nat /\ q # 0
  BY HardwareAssumption DEF block_init, UsableQueue
<1>2. VirtioTypeOK'
  BY <1>1 DEF block_init, VirtioInv, VirtioTypeOK, UsableQueue
<1>3. reading' = {} /\ Quiet'
  BY DEF block_init, VirtioInv, VirtioTypeOK, Quiet
<1> QED
  BY <1>1, <1>2, <1>3 DEF block_init, VirtioInv

\* A call for a sector that does not exist leaves the driver as it was.
LEMMA RefuseInv == ASSUME VirtioInv, NEW n, Refuse(n) PROVE VirtioInv'
<1>1. VirtioTypeOK'
  BY DEF Refuse, VirtioInv, VirtioTypeOK
<1>2. reading' = {} /\ Quiet'
  BY DEF Refuse, VirtioInv, Quiet
<1> QED
  BY <1>1, <1>2 DEF Refuse, VirtioInv

\* Publishing makes the available index one more than the device has seen; it
\* happens only while the device is up, since the disk has sectors.
LEMMA PublishInv ==
  ASSUME VirtioInv, NEW n \in Sectors, Publish(n)
  PROVE  VirtioInv'
<1>1. Quiet
  BY DEF Publish, VirtioInv
<1>2. device.up
  BY <1>1, SectorsAreNumbers DEF Publish, Quiet, VirtioInv, VirtioTypeOK
<1>3. avail' = Following(completed) /\ avail' \in Index
  BY FollowingIndex DEF Publish, VirtioInv, VirtioTypeOK, Following
<1>4. VirtioTypeOK'
  BY <1>3 DEF Publish, VirtioInv, VirtioTypeOK
<1>5. reading' = {n} /\ request'.sector = n
  BY DEF Publish, VirtioInv, VirtioTypeOK
<1>6. Busy(n)'
  BY <1>1, <1>2, <1>3, <1>5 DEF Publish, Busy, Quiet, Following
<1> QED
  BY <1>2, <1>4, <1>5, <1>6 DEF Publish, VirtioInv

\* The used index differs from the driver's count only when the answer is complete.
LEMMA CompleteInv == ASSUME VirtioInv, Complete PROVE VirtioInv'
<1>1. PICK n : reading = {n} /\ Busy(n)
  BY DEF Complete, VirtioInv
<1>2. /\ device.doing = "idle" /\ device.seen = avail /\ used = avail
      /\ device.up /\ avail = Following(completed)
  BY <1>1 DEF Complete, HasAnswered, Busy
<1>3. completed' = avail
  BY <1>2 DEF Complete, Following
<1>4. VirtioTypeOK'
  BY <1>3 DEF Complete, VirtioInv, VirtioTypeOK
<1>5. reading' = {} /\ Quiet'
  BY <1>2, <1>3 DEF Complete, Quiet
<1> QED
  BY <1>1, <1>4, <1>5 DEF Complete, VirtioInv

\* The last poll changes nothing but the driver's mind.
LEMMA TimeOutInv == ASSUME VirtioInv, TimeOut PROVE VirtioInv'
<1>1. PICK n : reading = {n} /\ Busy(n)
  BY DEF TimeOut, VirtioInv
<1>2. VirtioTypeOK'
  BY DEF TimeOut, VirtioInv, VirtioTypeOK
<1>3. reading' = {n} /\ Busy(n)'
  BY <1>1 DEF TimeOut, Busy, Answered, Following
<1> QED
  BY <1>2, <1>3 DEF TimeOut, VirtioInv

\* The reset stops the device, and the disk is gone.
LEMMA GiveUpInv == ASSUME VirtioInv, GiveUp PROVE VirtioInv'
<1>1. reading # {}
  BY DEF GiveUp, VirtioInv, Quiet
<1>2. VirtioTypeOK'
  BY DEF GiveUp, VirtioInv, VirtioTypeOK
<1>3. reading' = {} /\ Quiet'
  BY DEF GiveUp, VirtioInv, VirtioTypeOK, Quiet
<1> QED
  BY <1>1, <1>2, <1>3 DEF GiveUp, VirtioInv

\* The device takes a request up only while a call waits for it, and writes
\* nothing but its answer.
LEMMA DeviceInv == ASSUME VirtioInv, DeviceStep PROVE VirtioInv'
<1>1. \E n : reading = {n} /\ Busy(n)
  BY DEF DeviceStep, Fetch, WriteData, WriteStatus, WriteUsed, VirtioInv, Quiet
<1>2. PICK n : reading = {n} /\ Busy(n)
  BY <1>1
<1>3. completed \in Index /\ avail = Following(completed) /\ avail # completed /\ avail \in Index
  BY <1>2, FollowingIndex DEF VirtioInv, VirtioTypeOK, Busy
<1>4. CASE Fetch
  <2>1. device.seen = completed /\ used = completed /\ request.sector = n
    BY <1>2, <1>4 DEF Fetch, Busy
  <2>2. VirtioTypeOK'
    BY <1>3, <1>4, <2>1 DEF Fetch, VirtioInv, VirtioTypeOK, Following
  <2>3. Busy(n)'
    BY <1>2, <1>3, <1>4, <2>1 DEF Fetch, Busy, VirtioInv, VirtioTypeOK, Following
  <2> QED
    BY <1>2, <1>4, <2>2, <2>3 DEF Fetch, VirtioInv
<1>5. CASE WriteData
  <2>1. device.sector = n
    BY <1>2, <1>5 DEF WriteData, Busy
  <2>2. VirtioTypeOK'
    BY <1>5 DEF WriteData, VirtioInv, VirtioTypeOK
  <2>3. Busy(n)'
    BY <1>2, <1>5, <2>1 DEF WriteData, Busy, VirtioInv, VirtioTypeOK, Following
  <2> QED
    BY <1>2, <1>5, <2>2, <2>3 DEF WriteData, VirtioInv
<1>6. CASE WriteStatus
  <2>1. VirtioTypeOK'
    BY <1>6 DEF WriteStatus, VirtioInv, VirtioTypeOK
  <2>2. Answered(n)'
    BY <1>2, <1>6 DEF WriteStatus, Busy, Answered, VirtioInv, VirtioTypeOK
  <2>3. Busy(n)'
    BY <1>2, <1>6, <2>2 DEF WriteStatus, Busy, VirtioInv, VirtioTypeOK, Following
  <2> QED
    BY <1>2, <1>6, <2>1, <2>3 DEF WriteStatus, VirtioInv
<1>7. CASE WriteUsed
  <2>1. device.seen = avail /\ used' = avail /\ Answered(n)
    BY <1>2, <1>3, <1>7 DEF WriteUsed, Busy, Following
  <2>2. VirtioTypeOK'
    BY <1>3, <1>7, <2>1 DEF WriteUsed, VirtioInv, VirtioTypeOK
  <2>3. Busy(n)'
    BY <1>2, <1>7, <2>1 DEF WriteUsed, Busy, Answered, VirtioInv, VirtioTypeOK, Following
  <2> QED
    BY <1>2, <1>7, <2>2, <2>3 DEF WriteUsed, VirtioInv
<1> QED
  BY <1>4, <1>5, <1>6, <1>7 DEF DeviceStep

\* Every step of driver and device keeps the invariant.
LEMMA VirtioInvNext == VirtioInv /\ [Next]_vars => VirtioInv'
<1> SUFFICES ASSUME VirtioInv, [Next]_vars PROVE VirtioInv'
  OBVIOUS
<1>1. CASE UNCHANGED vars
  BY <1>1 DEF vars, VirtioInv, VirtioTypeOK, Quiet, Busy, Answered
<1>2. ASSUME NEW q \in QueueSizes, NEW high \in BOOLEAN, NEW n \in Disks,
             block_init(q, high, n) \/ InitFails(q, high, n)
      PROVE  VirtioInv'
  BY <1>1, <1>2, BlockInitInv DEF InitFails
<1>3. CASE block_read
  BY <1>3, RefuseInv, PublishInv, CompleteInv, TimeOutInv, GiveUpInv DEF block_read
<1>4. CASE DeviceStep
  BY <1>4, DeviceInv
<1> QED
  BY <1>1, <1>2, <1>3, <1>4 DEF Next

\* The inductive invariant of driver and device.
THEOREM VirtioInvariance == Spec => []VirtioInv
<1>1. VirtioInv /\ [Next]_vars => VirtioInv'
  BY VirtioInvNext
<1> QED
  BY <1>1, VirtioInvInit, PTL DEF Spec

\* block_read never returns while the device may still write to its buffers,
\* however late the device answers.
THEOREM NoDMAOutlivesItsRequest == Spec => []NoLiveDMA
<1>1. VirtioInv => NoLiveDMA
  BY DEF VirtioInv, NoLiveDMA, Quiet
<1> QED
  BY <1>1, VirtioInvariance, PTL

\* The rings of every queue block_init takes fit into its three pages.
THEOREM RingsFit == Spec => []QueueFits
<1>1. VirtioInv => QueueFits
  <2> SUFFICES ASSUME queue_size \in Nat, queue_size <= 256
               PROVE  /\ AvailOffset + 6 + 2 * queue_size <= UsedOffset
                      /\ UsedOffset + 6 + 8 * queue_size <= QUEUE_BYTES
    BY DEF VirtioInv, VirtioTypeOK, QueueFits, UsableQueue
  <2> QED
    BY DEF AvailOffset, UsedOffset, ROUND_UP, QUEUE_BYTES
<1> QED
  BY <1>1, VirtioInvariance, PTL

\* block_read returns the sector it was called for or fails, however many
\* requests came before and however often the indices have wrapped around.
THEOREM ReadsRightSector == Spec => RightSector
<1> DEFINE Step == reading # {} /\ reading' = {} =>
                     result' \in {Sector(n) : n \in reading} \union {Failed}
<1>1. VirtioInv /\ [Next]_vars => [Step]_vars
  <2> SUFFICES ASSUME VirtioInv, Next, reading # {}, reading' = {}
               PROVE  result' \in {Sector(n) : n \in reading} \union {Failed}
    OBVIOUS
  <2>1. PICK n : reading = {n} /\ Busy(n)
    BY DEF VirtioInv
  <2>2. CASE Complete
    <3>1. Answered(n)
      BY <2>1, <2>2, FollowingIndex DEF Complete, HasAnswered, Busy, VirtioInv, VirtioTypeOK
    <3> QED
      BY <2>1, <2>2, <3>1 DEF Complete, Answered
  <2>3. CASE GiveUp
    BY <2>3 DEF GiveUp
  <2>4. CASE TimeOut \/ DeviceStep \/ \E m \in Sectors : Refuse(m) \/ Publish(m)
    BY <2>4 DEF TimeOut, DeviceStep, Fetch, WriteData, WriteStatus, WriteUsed, Refuse, Publish
  <2>5. CASE \E q \in QueueSizes, high \in BOOLEAN, m \in Disks :
               block_init(q, high, m) \/ InitFails(q, high, m)
    BY <2>5 DEF block_init, InitFails, vars
  <2> QED
    BY <2>2, <2>3, <2>4, <2>5 DEF Next, block_read
<1> QED
  BY <1>1, VirtioInvariance, PTL DEF Spec, RightSector

\* block_read gives the disk up only while its request is unanswered: with one
\* request at a time the two counts differ from the answer on, wherever they
\* wrap around.
THEOREM AnswersAreNoticed == Spec => AnswerNoticed
<1> DEFINE Step == ~expired /\ expired' => device.seen # avail \/ device.doing # "idle"
<1>1. VirtioInv /\ [Next]_vars => [Step]_vars
  <2> SUFFICES ASSUME VirtioInv, Next, ~expired, expired'
               PROVE  device.seen # avail \/ device.doing # "idle"
    OBVIOUS
  <2>1. CASE TimeOut
    <3>1. PICK n : reading = {n} /\ Busy(n)
      BY <2>1 DEF TimeOut, VirtioInv
    <3>2. avail # completed
      BY <3>1, FollowingIndex DEF Busy, VirtioInv, VirtioTypeOK
    <3> QED
      BY <2>1, <3>1, <3>2 DEF TimeOut, HasAnswered, Busy
  <2>2. CASE Complete \/ GiveUp \/ DeviceStep \/ \E m \in Sectors : Refuse(m) \/ Publish(m)
    BY <2>2 DEF Complete, GiveUp, DeviceStep, Fetch, WriteData, WriteStatus, WriteUsed, Refuse, Publish
  <2>3. CASE \E q \in QueueSizes, high \in BOOLEAN, m \in Disks :
               block_init(q, high, m) \/ InitFails(q, high, m)
    BY <2>3 DEF block_init, InitFails, vars
  <2> QED
    BY <2>1, <2>2, <2>3 DEF Next, block_read
<1> QED
  BY <1>1, VirtioInvariance, PTL DEF Spec, AnswerNoticed
=============================================================================
