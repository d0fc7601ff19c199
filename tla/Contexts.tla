------------------------------ MODULE Contexts ------------------------------
(***************************************************************************)
(* Saving and restoring registers, composed with the scheduler: the IRQ    *)
(* and system call entries (startup.S, SAVE_CONTEXT), switch_to_context,   *)
(* and the last part of c_entry, which calls schedule with interrupts      *)
(* enabled.  From the moment user code runs, handlers are atomic; before   *)
(* that an interrupt may arrive between any two of the boot code's steps.  *)
(* schedule's search for the first process is one of these steps: it       *)
(* follows within a few instructions on the start of the timer's period,   *)
(* and a tick in the middle of it is left out.                             *)
(*                                                                         *)
(* A register file is pc, r0 and rest, which stands for r1-r12, sp and lr. *)
(***************************************************************************)
EXTENDS Scheduler

VARIABLES
  regs,        \* the registers user code has, or would have if it ran now
  context,     \* process_table[i].context
  cpu,         \* "user", or how far the boot code is
  svc_return,  \* R14_svc and SPSR_svc: where MOVS PC, R14 goes from SVC mode
  hit          \* history: an interrupt fell into the boot code's last steps

contextVars == <<regs, context, cpu, svc_return>>

vars == <<schedVars, contextVars, hit>>

CODE == 100    \* a system call number, which r0 holds when user code traps

KEY == 3       \* what getch returns when Ctrl-C is waiting

Registers(pc, r0, rest) == [pc |-> pc, r0 |-> r0, rest |-> rest]

\* The registers load_elf gives a new image: entry point, stack, zeroes.
Fresh == Registers("entry", 0, "fresh")

\* The user registers at power on, and those of a slot that is not in use,
\* which nothing reads.
Undefined == Registers("entry", 0, "undefined")
Dead == Registers("dead", 0, "dead")

\* What a computation leaves behind: somewhere in the program, about to trap.
Values == {Registers("code", CODE, v) : v \in {"a", "b"}}

InContext(cpsr, r) == [cpsr |-> cpsr, regs |-> r]

-----------------------------------------------------------------------------
\* SAVE_CONTEXT: the SPSR, the return address and the user registers go to
\* the context of current_process, if there is one.
save_context(ctx) ==
  IF current_process = NULL THEN ctx
  ELSE [ctx EXCEPT ![current_process] =
          IF cpu = "user" THEN InContext("usr", regs)
          ELSE InContext("svc", [regs EXCEPT !.pc = cpu])]

\* switch_to_context, called with interrupts masked: one step.  A context
\* saved from the boot code resumes the boot code.
switch_to_context(c) ==
  IF c.cpsr = "usr" THEN regs' = c.regs /\ cpu' = "user"
  ELSE regs' = [c.regs EXCEPT !.pc = regs.pc] /\ cpu' = c.regs.pc

\* The end of a handler that called schedule.
Resume ==
  IF status' = "panic" THEN cpu' = "panic" /\ UNCHANGED regs
  ELSE switch_to_context(context'[current_process'])

-----------------------------------------------------------------------------
\* Booting, with interrupts enabled.

CInit ==
  /\ Init
  /\ regs = Undefined
  /\ context = [q \in Slots |-> InContext("usr", Dead)]
  /\ cpu = "c_entry"
  /\ svc_return = InContext("svc", Undefined)
  /\ hit = FALSE

\* c_entry up to scheduler_init: the shell is loaded.
LoadShell ==
  /\ cpu = "c_entry" /\ status = "boot"
  /\ context' = [context EXCEPT ![Shell] = InContext("usr", Fresh)]
  /\ cpu' = "schedule"
  /\ UNCHANGED <<schedVars, regs, svc_return>>

BootFails ==
  /\ cpu = "c_entry"
  /\ BootNoDisk \/ \E staged \in BOOLEAN : BootNoShell(staged)
  /\ UNCHANGED contextVars

\* schedule finds the shell and stores it in current_process.
ChooseShell ==
  /\ cpu = "schedule"
  /\ BootOk
  /\ cpu' = "chosen"
  /\ UNCHANGED <<regs, context, svc_return>>

\* switch_to_context, instruction by instruction: LDMIA of SPSR and R14 ...
LoadReturn ==
  /\ cpu = "chosen"
  /\ svc_return' = context[Shell]
  /\ cpu' = "return_loaded"
  /\ UNCHANGED <<schedVars, regs, context>>

\* ... LDMIA of the user registers ...
LoadRegisters ==
  /\ cpu = "return_loaded"
  /\ regs' = [context[Shell].regs EXCEPT !.pc = regs.pc]
  /\ cpu' = "registers_loaded"
  /\ UNCHANGED <<schedVars, context, svc_return>>

\* ... and MOVS PC, R14.
StartShell ==
  /\ cpu = "registers_loaded"
  /\ switch_to_context([svc_return EXCEPT !.regs.r0 = regs.r0,
                                          !.regs.rest = regs.rest])
  /\ UNCHANGED <<schedVars, context, svc_return>>

BootStep ==
  /\ LoadShell \/ ChooseShell \/ LoadReturn \/ LoadRegisters \/ StartShell
  /\ UNCHANGED hit

-----------------------------------------------------------------------------
\* Interrupts.  The timer runs from scheduler_init on.

\* Between schedule's assignment of current_process and the end of the first
\* switch_to_context, an interrupt finds a process that does not run yet.
InWindow == cpu \in {"chosen", "return_loaded", "registers_loaded"}

UartInterrupt ==
  /\ cpu # "panic"
  /\ context' = save_context(context)
  /\ UNCHANGED <<schedVars, regs, cpu, svc_return>>

\* Before current_process is set the timer's handler starts the shell itself,
\* and c_entry never goes on.
TimerStartsShell ==
  /\ cpu = "schedule"
  /\ BootOk
  /\ context' = save_context(context)
  /\ Resume
  /\ UNCHANGED svc_return

TimerInterrupt ==
  /\ cpu = "user" \/ InWindow
  /\ handle_timer
  /\ context' = save_context(context)
  /\ Resume
  /\ UNCHANGED svc_return

-----------------------------------------------------------------------------
\* User code, and the system calls it makes.  syscall_entry saves the context
\* first; a handler that returns leaves its result in r0, one that schedules
\* is resumed from the context, with the r0 it trapped with.

ComputeStep ==
  /\ cpu = "user"
  /\ regs' \in Values
  /\ UNCHANGED <<schedVars, context, cpu, svc_return>>

Returns(result) ==
  /\ context' = save_context(context)
  /\ regs' = [regs EXCEPT !.r0 = result]
  /\ UNCHANGED <<cpu, svc_return>>

syscall_getpid == UNCHANGED schedVars /\ Returns(Pid(current_process))

\* What the calls that leave the process table alone return: putch, 0; getch,
\* a key or 0; dir, 0 or -1; and -1 for a number that names no call.
Results == {-1, 0, KEY}

ReturningCall == UNCHANGED schedVars /\ \E result \in Results : Returns(result)

\* The child gets the context as it was before this call saved it.
ChildFromOldContext(ctx) == [ctx EXCEPT !.regs.r0 = 0]

ChildContext(ctx) == [save_context(context)[current_process] EXCEPT !.regs.r0 = 0]

syscall_fork ==
  \/ \E child \in Slots :
       /\ ForkOk(child)
       /\ context' = [save_context(context) EXCEPT
                        ![child] = ChildContext(context[current_process])]
       /\ regs' = [regs EXCEPT !.r0 = Pid(child)]
       /\ UNCHANGED <<cpu, svc_return>>
  \/ ForkFull /\ Returns(-1)

syscall_exec ==
  \/ /\ \E image \in Slots : ExecStaged(image)
     /\ context' = [context EXCEPT ![current_process] = InContext("usr", Fresh)]
     /\ switch_to_context(context'[current_process])
     /\ UNCHANGED svc_return
  \/ (ExecRefused \/ \E image \in Slots : ExecStaged(image)) /\ Returns(-1)

\* The context of the slot that becomes free is dead.
syscall_exit ==
  /\ Exit
  /\ context' = [context EXCEPT ![current_process] = InContext("usr", Dead)]
  /\ Resume
  /\ UNCHANGED svc_return

syscall_wait ==
  \E pid \in WaitArgs :
    \/ WaitSleeps(pid) /\ context' = save_context(context) /\ Resume
         /\ UNCHANGED svc_return
    \/ WaitReturns(pid) /\ Returns(0)

\* Yields without a saved context, as if only interrupts needed one.
YieldUnsaved == Yield /\ UNCHANGED <<context, svc_return>> /\ Resume

syscall_yield ==
  /\ Yield
  /\ context' = save_context(context)
  /\ Resume
  /\ UNCHANGED svc_return

handle_syscall ==
  /\ cpu = "user" /\ regs.r0 = CODE
  /\ \/ syscall_getpid \/ ReturningCall \/ syscall_fork \/ syscall_exec
     \/ syscall_exit \/ syscall_wait \/ syscall_yield

CNext ==
  \/ BootStep
  \/ (UartInterrupt \/ TimerInterrupt) /\ hit' = (hit \/ InWindow)
  \/ (BootFails \/ TimerStartsShell \/ ComputeStep \/ handle_syscall) /\ UNCHANGED hit

BootSpec == CInit /\ [][CNext]_vars

\* The boot code makes progress whenever it runs.
BootFairSpec == BootSpec /\ WF_vars(BootStep)

-----------------------------------------------------------------------------
\* Once user code runs, every process that is not running will be resumed as
\* user code, also when an interrupt hit the boot code's window: a kernel
\* context saved there never spreads to another process through fork.
ResumedAsUser ==
  cpu = "user" =>
    \A q \in Slots \ {current_process} :
      state[q] # "UNUSED" => context[q].cpsr = "usr"

machine ==
  [q \in Slots |->
     IF state[q] = "UNUSED" THEN Dead
     ELSE IF q = current_process /\ cpu = "user" THEN regs
     ELSE context[q].regs]

Own == INSTANCE Machines

\* Every process keeps registers of its own: what preemption, interrupts and
\* the system calls of others do never shows, fork copies the caller's
\* registers into the child, and each call returns its result to its caller.
\* Input typed before schedule has chosen a process changes no context either.
\* This is the specification of module Machines, up to the interrupt, if any,
\* that falls between schedule and the end of the first switch_to_context.
OwnRegisters == Own!MInit /\ [][hit' \/ Own!MNext]_machine

\* "early input: boot and subsequent syscalls pass" (tests/regressions.py:23):
\* whatever interrupts arrive while the kernel boots, a shell that could be
\* loaded starts.
ShellStarts == (cpu = "schedule") ~> (cpu = "user")
=============================================================================
