---------------------------- MODULE AddressSpaces ----------------------------
(***************************************************************************)
(* What the kernel promises user code about its memory: every process has  *)
(* a memory of its own.  fork() copies it, exec() replaces it by a fresh   *)
(* image of the program, exit() ends it, a store changes one page of it,   *)
(* and nothing else ever touches it.  Module ProcMemory is shown to        *)
(* implement this with page tables and shared physical memory.             *)
(***************************************************************************)
EXTENDS Integers

CONSTANTS
    Slots,       \* process table slots
    Programs,    \* programs on the disk
    Fresh(_),    \* the memory of a program just loaded
    StoreValues  \* what a store may leave in a page

VARIABLE space   \* slot -> (virtual address -> contents); empty when UNUSED

NoSpace == [va \in {} |-> 0]

ASInit == space = [q \in Slots |-> NoSpace]

\* The first process.
Boot(q, prog) ==
    /\ \A p \in Slots : space[p] = NoSpace
    /\ space' = [space EXCEPT ![q] = Fresh(prog)]

Fork(parent, child) ==
    /\ space[parent] # NoSpace
    /\ space[child] = NoSpace
    /\ space' = [space EXCEPT ![child] = space[parent]]

Exec(q, prog) ==
    /\ space[q] # NoSpace
    /\ space' = [space EXCEPT ![q] = Fresh(prog)]

Exit(q) == space' = [space EXCEPT ![q] = NoSpace]

Store(q, va, value) ==
    /\ va \in DOMAIN space[q]
    /\ space' = [space EXCEPT ![q][va] = value]

ASNext ==
    \E q \in Slots :
        \/ Exit(q)
        \/ \E child \in Slots : Fork(q, child)
        \/ \E prog \in Programs : Boot(q, prog) \/ Exec(q, prog)
        \/ \E va \in DOMAIN space[q], value \in StoreValues : Store(q, va, value)

ASSpec == ASInit /\ [][ASNext]_space
=============================================================================
