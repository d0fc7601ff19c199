---------------------------- MODULE ConsoleProofs ----------------------------
(***************************************************************************)
(* The receive buffer of the console implements the queue of module        *)
(* ByteQueue, for every size of the buffer and every set of bytes.         *)
(***************************************************************************)
EXTENDS Console, SequenceTheorems, WellFoundedInduction, TLAPS

\* What a slot of the buffer may hold: it is cleared at power on.
Cells == Bytes \cup {NUL}

\* Until console_init has run nothing uses the buffer, which is then empty.
ConsoleInv ==
  /\ receive_buffer \in [Indices -> Cells]
  /\ receive_buffer_head \in Indices
  /\ receive_buffer_tail \in Indices
  /\ uart \in Seq(Bytes)
  /\ handlers = {} => /\ receive_buffer_head = 0 /\ receive_buffer_tail = 0
                      /\ running = "unmasked"

-----------------------------------------------------------------------------
\* Contents as a function of the three variables it depends on.
RingContents(buffer, head, tail) ==
  [i \in 1 .. (head - tail + RECEIVE_BUFFER_SIZE) % RECEIVE_BUFFER_SIZE |->
     buffer[(tail + i - 1) % RECEIVE_BUFFER_SIZE]]

\* The place of the i-th byte behind the tail, with the wrap spelled out.
Place(tail, i) ==
  IF tail + i - 1 < RECEIVE_BUFFER_SIZE THEN tail + i - 1
  ELSE tail + i - 1 - RECEIVE_BUFFER_SIZE

\* The number of bytes between tail and head, with the wrap spelled out.
Occupied(head, tail) ==
  IF tail <= head THEN head - tail ELSE head - tail + RECEIVE_BUFFER_SIZE

\* The contents are a sequence of Occupied bytes, the i-th of them at Place.
LEMMA RingIsSequence ==
  ASSUME NEW buffer \in [Indices -> Cells], NEW head \in Indices, NEW tail \in Indices
  PROVE  LET contents == RingContents(buffer, head, tail)
         IN  /\ contents \in Seq(Cells)
             /\ Len(contents) = Occupied(head, tail)
             /\ Occupied(head, tail) \in 0 .. RECEIVE_BUFFER_SIZE - 1
             /\ \A i \in 1 .. Occupied(head, tail) : contents[i] = buffer[Place(tail, i)]
<1> DEFINE n == Occupied(head, tail)
           contents == RingContents(buffer, head, tail)
<1>1. /\ n \in 0 .. RECEIVE_BUFFER_SIZE - 1
      /\ (head - tail + RECEIVE_BUFFER_SIZE) % RECEIVE_BUFFER_SIZE = n
  BY SizesAssumption DEF Occupied, Indices
<1>2. \A i \in 1 .. n : /\ (tail + i - 1) % RECEIVE_BUFFER_SIZE = Place(tail, i)
                        /\ Place(tail, i) \in Indices
  BY <1>1, SizesAssumption DEF Place, Indices
<1>3. contents = [i \in 1 .. n |-> buffer[(tail + i - 1) % RECEIVE_BUFFER_SIZE]]
  BY <1>1 DEF RingContents
<1> HIDE DEF contents, n
<1>4. contents \in [1 .. n -> Cells] /\ \A i \in 1 .. n : contents[i] = buffer[Place(tail, i)]
  BY <1>2, <1>3
<1>5. n \in Nat
  BY <1>1, SizesAssumption
<1>6. contents \in Seq(Cells)
  BY <1>4, <1>5, SeqDef
<1>7. Len(contents) \in Nat /\ 1 .. Len(contents) = 1 .. n
  BY <1>4, <1>6, LenProperties
<1>8. Len(contents) = n
  BY <1>5, <1>7
<1> QED
  BY <1>1, <1>4, <1>6, <1>8 DEF contents, n

\* Storing a byte at the head of a ring that is not full appends it.
LEMMA RingAppend ==
  ASSUME NEW buffer \in [Indices -> Cells], NEW head \in Indices, NEW tail \in Indices,
         NEW data \in Cells, circular_inc(head, RECEIVE_BUFFER_SIZE) # tail
  PROVE  /\ Len(RingContents(buffer, head, tail)) < RECEIVE_BUFFER_SIZE - 1
         /\ RingContents([buffer EXCEPT ![head] = data],
                         circular_inc(head, RECEIVE_BUFFER_SIZE), tail)
              = Append(RingContents(buffer, head, tail), data)
<1> DEFINE n == Occupied(head, tail)
           next == circular_inc(head, RECEIVE_BUFFER_SIZE)
           stored == [buffer EXCEPT ![head] = data]
           old == RingContents(buffer, head, tail)
           new == RingContents(stored, next, tail)
<1>1. /\ next \in Indices
      /\ n \in Nat /\ n < RECEIVE_BUFFER_SIZE - 1
      /\ Occupied(next, tail) = n + 1
      /\ Place(tail, n + 1) = head
      /\ \A i \in 1 .. n : Place(tail, i) \in Indices /\ Place(tail, i) # head
  BY SizesAssumption DEF Occupied, Place, circular_inc, Indices
<1>2. stored \in [Indices -> Cells] /\ stored[head] = data
  OBVIOUS
<1>3. /\ old \in Seq(Cells) /\ Len(old) = n
      /\ \A i \in 1 .. n : old[i] = buffer[Place(tail, i)]
  BY RingIsSequence
<1> HIDE DEF n, next, stored, old
<1>4. /\ new \in Seq(Cells) /\ Len(new) = n + 1
      /\ \A i \in 1 .. n + 1 : new[i] = stored[Place(tail, i)]
  <2>1. next \in Indices /\ Occupied(next, tail) = n + 1
    BY <1>1
  <2>2. /\ new \in Seq(Cells) /\ Len(new) = Occupied(next, tail)
        /\ \A i \in 1 .. Occupied(next, tail) : new[i] = stored[Place(tail, i)]
    BY <1>2, <2>1, RingIsSequence
  <2> QED
    BY <2>1, <2>2
<1> HIDE DEF new
<1>5. /\ Append(old, data) \in Seq(Cells) /\ Len(Append(old, data)) = n + 1
      /\ \A i \in 1 .. n : Append(old, data)[i] = old[i]
      /\ Append(old, data)[n + 1] = data
  BY <1>3, AppendProperties
<1>6. \A i \in 1 .. n : stored[Place(tail, i)] = buffer[Place(tail, i)]
  BY <1>1 DEF stored
<1>7. \A i \in 1 .. n + 1 : new[i] = Append(old, data)[i]
  <2> TAKE i \in 1 .. n + 1
  <2>1. CASE i = n + 1
    <3>1. new[i] = stored[head]
      BY <1>1, <1>4, <2>1
    <3> QED
      BY <1>2, <1>5, <2>1, <3>1
  <2>2. CASE i \in 1 .. n
    BY <1>1, <1>3, <1>4, <1>5, <1>6, <2>2
  <2>3. n \in Nat
    BY <1>1
  <2>4. i = n + 1 \/ i \in 1 .. n
    BY <2>3
  <2> QED
    BY <2>1, <2>2, <2>4
<1>8. new = Append(old, data)
  BY <1>4, <1>5, <1>7, SeqEqual
<1> QED
  BY <1>1, <1>3, <1>8 DEF n, next, stored, old, new

\* A ring whose head would run into the tail holds all bytes it can.
LEMMA RingFullLength ==
  ASSUME NEW buffer \in [Indices -> Cells], NEW head \in Indices, NEW tail \in Indices,
         circular_inc(head, RECEIVE_BUFFER_SIZE) = tail
  PROVE  Len(RingContents(buffer, head, tail)) = RECEIVE_BUFFER_SIZE - 1
<1>1. Occupied(head, tail) = RECEIVE_BUFFER_SIZE - 1
  BY SizesAssumption DEF Occupied, circular_inc, Indices
<1> QED
  BY <1>1, RingIsSequence

\* A sum of two indices is past the end of the ring at most once.
LEMMA WrapOnce ==
  ASSUME NEW i \in Indices, NEW j \in Indices
  PROVE  (i + j) % RECEIVE_BUFFER_SIZE =
           IF i + j < RECEIVE_BUFFER_SIZE THEN i + j ELSE i + j - RECEIVE_BUFFER_SIZE
<1>1. CASE i + j < RECEIVE_BUFFER_SIZE
  BY <1>1, SizesAssumption DEF Indices
<1>2. CASE ~(i + j < RECEIVE_BUFFER_SIZE)
  BY <1>2, SizesAssumption DEF Indices
<1> QED
  BY <1>1, <1>2

\* Moving the tail by n drops the first n bytes.
LEMMA RingDrop ==
  ASSUME NEW buffer \in [Indices -> Cells], NEW head \in Indices, NEW tail \in Indices,
         NEW n \in 0 .. Occupied(head, tail)
  PROVE  LET old  == RingContents(buffer, head, tail)
             moved == (tail + n) % RECEIVE_BUFFER_SIZE
         IN  /\ moved \in Indices
             /\ RingContents(buffer, head, moved) = SubSeq(old, n + 1, Len(old))
<1> DEFINE old == RingContents(buffer, head, tail)
           moved == (tail + n) % RECEIVE_BUFFER_SIZE
           new == RingContents(buffer, head, moved)
           k == Occupied(head, tail)
<1>1. /\ old \in Seq(Cells) /\ Len(old) = k /\ k \in 0 .. RECEIVE_BUFFER_SIZE - 1
      /\ \A i \in 1 .. k : old[i] = buffer[Place(tail, i)]
  BY RingIsSequence
<1>2. n \in 0 .. k
  OBVIOUS
<1> HIDE DEF old
<1>3. moved = IF tail + n < RECEIVE_BUFFER_SIZE THEN tail + n ELSE tail + n - RECEIVE_BUFFER_SIZE
  <2>1. n \in Indices
    BY <1>1, <1>2, SizesAssumption DEF Indices
  <2> QED
    BY <2>1, WrapOnce
<1> HIDE DEF moved
<1>4. /\ moved \in Indices
      /\ Occupied(head, moved) = k - n
      /\ \A i \in 1 .. k - n : Place(moved, i) = Place(tail, n + i)
  BY <1>2, <1>3, SizesAssumption DEF Occupied, Place, Indices
<1>5. /\ new \in Seq(Cells) /\ Len(new) = k - n
      /\ \A i \in 1 .. k - n : new[i] = buffer[Place(moved, i)]
  BY <1>4, RingIsSequence
<1> HIDE DEF new, k
<1>6. k \in Nat /\ n \in Nat /\ n <= k
  BY <1>1, <1>2, SizesAssumption
<1>7. \A i \in n + 1 .. k : old[i] \in Cells
  BY <1>1, <1>6, ElementOfSeq
<1>8. /\ SubSeq(old, n + 1, k) \in Seq(Cells)
      /\ Len(SubSeq(old, n + 1, k)) = k - n
      /\ \A i \in 1 .. k - n : SubSeq(old, n + 1, k)[i] = old[n + i]
  <2>1. /\ SubSeq(old, n + 1, k) \in Seq(Cells)
        /\ Len(SubSeq(old, n + 1, k)) = IF n + 1 <= k THEN k - (n + 1) + 1 ELSE 0
        /\ \A i \in 1 .. k - (n + 1) + 1 : SubSeq(old, n + 1, k)[i] = old[n + 1 + i - 1]
    BY <1>6, <1>7, SubSeqProperties
  <2> QED
    BY <1>6, <2>1
<1>9. \A i \in 1 .. k - n : new[i] = SubSeq(old, n + 1, k)[i]
  <2> SUFFICES ASSUME NEW i \in 1 .. k - n
               PROVE  new[i] = SubSeq(old, n + 1, k)[i]
    OBVIOUS
  <2>1. n + i \in 1 .. k
    BY <1>6
  <2>2. old[n + i] = buffer[Place(tail, n + i)]
    BY <1>1, <2>1
  <2>3. new[i] = buffer[Place(tail, n + i)]
    BY <1>4, <1>5
  <2> QED
    BY <1>8, <2>2, <2>3
<1>10. new = SubSeq(old, n + 1, k)
  BY <1>5, <1>8, <1>9, SeqEqual
<1> QED
  BY <1>1, <1>4, <1>10 DEF old, new, moved

-----------------------------------------------------------------------------
\* kgetch never takes more bytes than there are: its loop stops at the first
\* point where it may, and at the end of the bytes at the latest.
LEMMA ConsumedInRange == ASSUME NEW S, NEW q \in Seq(S) PROVE Consumed(q) \in 0 .. Len(q)
<1> DEFINE Stops(n) == n = Len(q) \/ ~KeepReading(SubSeq(q, 1, n))
           T == {n \in 0 .. Len(q) : Stops(n)}
           R == OpToRel(<, Nat)
<1>1. Len(q) \in Nat
  BY LenProperties
<1>2. T \subseteq Nat /\ T # {}
  BY <1>1
<1>3. \E x \in T : \A y \in T : ~(<<y, x>> \in R)
  BY <1>2, NatLessThanWellFounded, WFMin
<1>4. PICK n \in T : \A m \in T : ~(<<m, n>> \in R)
  BY <1>3
<1>5. \A m \in T : ~(m < n)
  BY <1>2, <1>4 DEF OpToRel
<1>6. \A m \in 0 .. n - 1 : KeepReading(SubSeq(q, 1, m))
  BY <1>1, <1>5
<1>7. \E x \in 0 .. Len(q) : /\ Stops(x)
                             /\ \A m \in 0 .. x - 1 : KeepReading(SubSeq(q, 1, m))
  BY <1>6
<1> QED
  BY <1>7 DEF Consumed

-----------------------------------------------------------------------------
\* The buffer and its indices keep their ranges.
LEMMA ConsoleInvInit == Init => ConsoleInv
BY SizesAssumption DEF Init, ConsoleInv, Indices, Cells

\* circular_inc keeps an index inside the ring.
LEMMA IncInRange ==
  ASSUME NEW i \in Indices
  PROVE  circular_inc(i, RECEIVE_BUFFER_SIZE) \in Indices
BY SizesAssumption DEF circular_inc, Indices

\* Every step of handler, getch and boot keeps the invariant.
LEMMA ConsoleInvNext == ConsoleInv /\ [Next]_vars => ConsoleInv'
<1> SUFFICES ASSUME ConsoleInv, [Next]_vars PROVE ConsoleInv'
  OBVIOUS
<1>1. ASSUME NEW c \in Bytes, Arrive(c) PROVE ConsoleInv'
  BY <1>1, AppendProperties DEF Arrive, ring, ConsoleInv
<1>2. CASE Tick \/ scheduler_init \/ handle_timer \/ HandlerReturns
  BY <1>2 DEF Tick, scheduler_init, register_interrupt_handler, handle_timer, HandlerReturns,
              ring, ConsoleInv
<1>3. CASE console_init
  BY <1>3, SizesAssumption DEF console_init, register_interrupt_handler, ConsoleInv, Indices
<1>4. CASE DispatchUart
  BY <1>4 DEF DispatchUart, Dispatched, get_pending_irqs, ring, ConsoleInv
<1>5. CASE ReceiveByte
  <2>1. uart' \in Seq(Bytes) /\ Head(uart) \in Bytes /\ handlers # {} /\ handlers' = handlers
    BY <1>5, HeadTailProperties DEF ReceiveByte, uart_can_receive, ConsoleInv
  <2>2. CASE RingFull
    BY <1>5, <2>1, <2>2 DEF ReceiveByte, ConsoleInv
  <2>3. CASE ~RingFull
    <3>1. receive_buffer' \in [Indices -> Cells]
      BY <1>5, <2>1, <2>3 DEF ReceiveByte, Insert, ConsoleInv, Cells
    <3>2. receive_buffer_head' \in Indices
      BY <1>5, <2>3, IncInRange DEF ReceiveByte, Insert, ConsoleInv
    <3> QED
      BY <1>5, <2>1, <3>1, <3>2 DEF ReceiveByte, ConsoleInv
  <2> QED
    BY <2>2, <2>3
<1>6. CASE kgetch
  <2>1. /\ RingContents(receive_buffer, receive_buffer_head, receive_buffer_tail) = Contents
        /\ Contents \in Seq(Cells)
        /\ Len(Contents) = Occupied(receive_buffer_head, receive_buffer_tail)
    BY RingIsSequence DEF ConsoleInv, Contents, RingContents
  <2>2. receive_buffer_tail' \in Indices
    BY <1>6, <2>1, ConsumedInRange, RingDrop DEF kgetch, ConsoleInv
  <2> QED
    BY <1>6, <2>2 DEF kgetch, ConsoleInv
<1>7. CASE UNCHANGED vars
  BY <1>7 DEF vars, ring, ConsoleInv
<1> QED
  BY <1>1, <1>2, <1>3, <1>4, <1>5, <1>6, <1>7
     DEF Next, c_entry, dispatch_interrupts, uart_interrupt_handler

\* The inductive invariant of the input path.
THEOREM ConsoleInvariance == Spec => []ConsoleInv
<1>1. ConsoleInv /\ [Next]_vars => ConsoleInv'
  BY ConsoleInvNext
<1> QED
  BY <1>1, ConsoleInvInit, PTL DEF Spec

-----------------------------------------------------------------------------
\* Every step of the input path is a step of the queue, or changes nothing of it.
LEMMA StepIsQueueStep ==
  ConsoleInv /\ [Next]_vars => [Queue!QNext]_<<Contents, uart>>
<1> SUFFICES ASSUME ConsoleInv, [Next]_vars PROVE [Queue!QNext]_<<Contents, uart>>
  OBVIOUS
<1> DEFINE b == receive_buffer
           h == receive_buffer_head
           t == receive_buffer_tail
<1>1. Contents = RingContents(b, h, t) /\ Contents' = RingContents(b', h', t')
  BY DEF Contents, RingContents
<1>2. b \in [Indices -> Cells] /\ h \in Indices /\ t \in Indices /\ uart \in Seq(Bytes)
  BY DEF ConsoleInv
<1> HIDE DEF b, h, t
<1>3. ASSUME UNCHANGED ring PROVE Contents' = Contents
  BY <1>1, <1>3 DEF ring, b, h, t
<1>4. ASSUME NEW c \in Bytes, Arrive(c) PROVE Queue!QNext
  BY <1>3, <1>4 DEF Arrive, Queue!QNext, Queue!Offer
<1>5. CASE Tick \/ scheduler_init \/ handle_timer \/ HandlerReturns \/ DispatchUart
  BY <1>3, <1>5 DEF Tick, scheduler_init, handle_timer, HandlerReturns, DispatchUart
<1>6. CASE console_init
  <2>1. UNCHANGED ring /\ UNCHANGED uart
    BY <1>6 DEF console_init, ConsoleInv, ring
  <2> QED
    BY <1>3, <2>1
<1>7. CASE ReceiveByte
  <2>1. uart # <<>> /\ uart' = Tail(uart) /\ Head(uart) \in Cells
    BY <1>2, <1>7, HeadTailProperties DEF ReceiveByte, uart_can_receive, Cells
  <2>2. CASE RingFull
    <3>1. UNCHANGED ring
      BY <1>7, <2>2 DEF ReceiveByte, ring
    <3>2. Len(Contents) = RECEIVE_BUFFER_SIZE - 1
      BY <1>1, <1>2, <2>2, RingFullLength DEF RingFull, h, t
    <3>3. ~(Len(Contents) < RECEIVE_BUFFER_SIZE - 1)
      BY <3>2, SizesAssumption
    <3> QED
      BY <1>3, <2>1, <3>1, <3>3 DEF Queue!QNext, Queue!Put
  <2>3. CASE ~RingFull
    <3>1. /\ b' = [b EXCEPT ![h] = Head(uart)]
          /\ h' = circular_inc(h, RECEIVE_BUFFER_SIZE)
          /\ t' = t
      BY <1>7, <2>3 DEF ReceiveByte, Insert, b, h, t
    <3>2. /\ Len(Contents) < RECEIVE_BUFFER_SIZE - 1
          /\ Contents' = Append(Contents, Head(uart))
      BY <1>1, <1>2, <2>1, <2>3, <3>1, RingAppend DEF RingFull, h, t
    <3> QED
      BY <2>1, <3>2 DEF Queue!QNext, Queue!Put
  <2> QED
    BY <2>2, <2>3
<1>8. CASE kgetch
  <2> DEFINE n == Consumed(Contents)
  <2>1. Contents \in Seq(Cells) /\ Len(Contents) \in Nat
    BY <1>1, <1>2, RingIsSequence, LenProperties
  <2>2. n \in 0 .. Len(Contents)
    BY <2>1, ConsumedInRange
  <2>3. uart' = uart /\ b' = b /\ h' = h /\ t' = (t + n) % RECEIVE_BUFFER_SIZE
    BY <1>8 DEF kgetch, b, h, t
  <2> HIDE DEF n
  <2>4. Contents' = SubSeq(Contents, n + 1, Len(Contents))
    BY <1>1, <1>2, <2>2, <2>3, RingIsSequence, RingDrop
  <2>5. CASE n = 0
    <3>1. Contents' = Contents
      BY <2>1, <2>4, <2>5, SubSeqFull
    <3> QED
      BY <2>3, <3>1
  <2>6. CASE n # 0
    <3>1. n \in 1 .. Len(Contents)
      BY <2>1, <2>2, <2>6
    <3> QED
      BY <2>3, <2>4, <3>1 DEF Queue!QNext, Queue!Take
  <2> QED
    BY <2>5, <2>6
<1>9. CASE UNCHANGED vars
  BY <1>3, <1>9 DEF vars
<1> QED
  BY <1>4, <1>5, <1>6, <1>7, <1>8, <1>9
     DEF Next, c_entry, dispatch_interrupts, uart_interrupt_handler

\* The ring buffer of console.c is a first-in first-out queue that drops a
\* byte only when it is full, for every size: interrupts and getch calls in any
\* order lose, repeat and reorder nothing.
THEOREM RingImplementsQueue == Spec => ImplementsQueue
<1>1. Init => Queue!QInit
  <2> SUFFICES ASSUME Init PROVE Contents = <<>> /\ uart = <<>>
    BY DEF Queue!QInit
  <2>1. receive_buffer \in [Indices -> Cells] /\ 0 \in Indices
    BY ConsoleInvInit DEF ConsoleInv, Init
  <2>2. Contents = RingContents(receive_buffer, 0, 0) /\ Occupied(0, 0) = 0
    BY DEF Init, Contents, RingContents, Occupied
  <2>3. Contents \in Seq(Cells) /\ Len(Contents) = 0
    BY <2>1, <2>2, RingIsSequence
  <2>4. Contents = <<>>
    BY <2>3, EmptySeq
  <2> QED
    BY <2>4 DEF Init
<1>2. ConsoleInv /\ [Next]_vars => [Queue!QNext]_<<Contents, uart>>
  BY StepIsQueueStep
<1> QED
  BY <1>1, <1>2, ConsoleInvariance, PTL DEF Spec, ImplementsQueue, Queue!QSpec
=============================================================================
