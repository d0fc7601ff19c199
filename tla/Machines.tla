------------------------------ MODULE Machines ------------------------------
(***************************************************************************)
(* What saving and restoring contexts promises: every process has a set of *)
(* registers of its own, as if it had a CPU to itself.  They change only   *)
(* by what that process computes and by the results of its system calls.   *)
(***************************************************************************)
EXTENDS Integers

CONSTANTS Slots, Values, Results, Fresh, Dead

VARIABLE machine

Alive(q) == machine[q] # Dead

MInit == machine = [q \in Slots |-> Dead]

Start == /\ \A q \in Slots : ~Alive(q)
         /\ machine' = [machine EXCEPT ![0] = Fresh]

Compute(q) ==
  /\ Alive(q)
  /\ \E r \in Values : machine' = [machine EXCEPT ![q] = r]

\* A system call that returns a result changes r0 and nothing else.
Return(q, result) ==
  /\ Alive(q)
  /\ machine' = [machine EXCEPT ![q].r0 = result]

\* The child starts where the parent called fork, with its registers.
Fork(q, child) ==
  /\ Alive(q) /\ ~Alive(child)
  /\ machine' = [machine EXCEPT ![q].r0 = child + 1,
                                ![child] = [machine[q] EXCEPT !.r0 = 0]]

Load(q) == Alive(q) /\ machine' = [machine EXCEPT ![q] = Fresh]

End(q) == Alive(q) /\ machine' = [machine EXCEPT ![q] = Dead]

MNext ==
  \/ Start
  \/ \E q \in Slots :
       \/ Compute(q) \/ Load(q) \/ End(q)
       \/ \E result \in Results \cup {q + 1} : Return(q, result)
       \/ \E child \in Slots : Fork(q, child)

MSpec == MInit /\ [][MNext]_machine
=============================================================================
