----------------------------- MODULE ByteQueue ------------------------------
(***************************************************************************)
(* What the console's receive buffer promises: a first-in first-out queue  *)
(* of at most CAPACITY bytes.  Bytes are offered one after the other; one  *)
(* offered to a full queue is dropped, any other goes in.  Bytes leave     *)
(* from the front only, and none is changed or repeated.                   *)
(***************************************************************************)
EXTENDS Naturals, Sequences

CONSTANTS Bytes, CAPACITY

VARIABLES queue, offered

QInit == queue = <<>> /\ offered = <<>>

Offer(c) == offered' = Append(offered, c) /\ UNCHANGED queue

Put ==
  /\ offered # <<>> /\ offered' = Tail(offered)
  /\ queue' = IF Len(queue) < CAPACITY THEN Append(queue, Head(offered)) ELSE queue

Take ==
  /\ \E n \in 1 .. Len(queue) : queue' = SubSeq(queue, n + 1, Len(queue))
  /\ UNCHANGED offered

QNext == Put \/ Take \/ \E c \in Bytes : Offer(c)

QSpec == QInit /\ [][QNext]_<<queue, offered>>
=============================================================================
