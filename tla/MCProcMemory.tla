---------------------------- MODULE MCProcMemory ----------------------------
(***************************************************************************)
(* A small machine for module ProcMemory: a section for the heap, one for  *)
(* the stacks and one for the kernel, which maps 18 pages of memory.       *)
(***************************************************************************)
EXTENDS ProcMemory

MCImagePages == [prog \in {"SHELL", "HI"} |-> IF prog = "HI" THEN 2 ELSE 1]

\* The second page of a heap, which only HI has, and the stack.
HeapAndStack == {4, USER_STACK_BOTTOM}
=============================================================================
