------------------------------ MODULE Scheduler ------------------------------
(***************************************************************************)
(* The process life cycle of the kernel: the process table, round-robin    *)
(* scheduling and the fork, exec, exit, wait and yield system calls, with  *)
(* the memory of a process left to ProcMemory, its registers to Contexts.  *)
(*                                                                         *)
(* System calls and interrupt handlers run with IRQs masked (the CPU sets  *)
(* the I bit on both exceptions and nothing in the kernel clears it), so   *)
(* each of them is one atomic action.  What interleaves is user code: the  *)
(* timer interrupt may arrive between any two system calls of a process.   *)
(***************************************************************************)
EXTENDS Integers

CONSTANT PROCESS_COUNT_MAX    \* number of process table slots (10 in the code)

\* Booting needs a slot for the shell and one to stage its image in.
ASSUME SlotCountAssumption == PROCESS_COUNT_MAX \in Nat \ {0, 1}

VARIABLES
    state,             \* process_table[i].state
    wait_pid,          \* process_table[i].wait_pid
    current_process,   \* the slot current_process points to, or NULL
    round_robin_index, \* scheduler.c's cursor into the table
    status,            \* what the machine as a whole is doing
    bypassed           \* history: dispatches that passed over a READY slot

schedVars == <<state, wait_pid, current_process, round_robin_index, status, bypassed>>

-----------------------------------------------------------------------------
NULL == -1
NoPid == -1

Slots == 0 .. PROCESS_COUNT_MAX - 1

\* The slot of the first process.
Shell == 0

\* RUNNING and TERMINATED are declared in proc.h but never assigned: the
\* process that runs stays READY.
ProcessState == {"UNUSED", "CREATED", "SLEEPING", "READY"}

\* A process is named by its slot; the pid user code sees is one more.
Pid(slot) == slot + 1

\* proc_get: the slot of a pid, or NULL when the pid is out of range.
proc_get(pid) == IF pid > 0 /\ pid <= PROCESS_COUNT_MAX THEN pid - 1 ELSE NULL

\* The slot proc_create takes is the first UNUSED one.
UnusedSlots == {i \in Slots : state[i] = "UNUSED"}

FirstUnused(i) == i \in UnusedSlots /\ \A j \in UnusedSlots : i <= j

\* Mutant: every search starts at slot 0.
AdvanceFromZero(index, k) == k - 1

\* The cursor after k increments, wrapping to 0 when it reaches the table size.
Advance(index, k) ==
    IF index + k < PROCESS_COUNT_MAX THEN index + k
    ELSE index + k - PROCESS_COUNT_MAX

-----------------------------------------------------------------------------
(***************************************************************************)
(* schedule(), called as the last thing of a handler that left the table   *)
(* in st and current_process in cur.  It advances the cursor until it      *)
(* meets a READY slot and starts that process; after a full turn without   *)
(* one it prints PANIC and spins for ever with interrupts masked.          *)
(***************************************************************************)
FoundAfter(st, k) ==
    /\ st[Advance(round_robin_index, k)] = "READY"
    /\ \A j \in 1 .. k - 1 : st[Advance(round_robin_index, j)] # "READY"

\* History only: who waits for the CPU through this dispatch, and how often
\* (counted up to the table size, all BoundedBypass has to tell apart).
CountBypass(st, chosen) ==
    bypassed' = [i \in Slots |->
                    IF i = chosen \/ st[i] # "READY" \/ state[i] # "READY" THEN 0
                    ELSE IF bypassed[i] < PROCESS_COUNT_MAX THEN bypassed[i] + 1
                    ELSE PROCESS_COUNT_MAX]

Dispatch(st, k) ==
    LET chosen == Advance(round_robin_index, k) IN
    /\ FoundAfter(st, k)
    /\ round_robin_index' = chosen
    /\ current_process' = chosen
    /\ CountBypass(st, chosen)
    /\ status' = "running"

NoneReady(st, cur) ==
    /\ \A k \in 1 .. PROCESS_COUNT_MAX : st[Advance(round_robin_index, k)] # "READY"
    /\ round_robin_index' = Advance(round_robin_index, PROCESS_COUNT_MAX)
    /\ current_process' = cur
    /\ status' = "panic"
    /\ UNCHANGED bypassed

schedule(st, cur) ==
    \/ \E k \in 1 .. PROCESS_COUNT_MAX : Dispatch(st, k)
    \/ NoneReady(st, cur)

-----------------------------------------------------------------------------
(***************************************************************************)
(* Booting.  c_entry creates a process in slot 0, loads SHELL into it      *)
(* through an image staged in slot 1, and schedules; without a usable disk *)
(* or SHELL it halts.                                                      *)
(***************************************************************************)
Init ==
    /\ state = [i \in Slots |-> "UNUSED"]
    /\ wait_pid = [i \in Slots |-> 0]
    /\ current_process = NULL
    /\ round_robin_index = 0
    /\ status = "boot"
    /\ bypassed = [i \in Slots |-> 0]

BootOk ==
    /\ status = "boot"
    /\ state' = [state EXCEPT ![Shell] = "READY"]
    /\ wait_pid' = [wait_pid EXCEPT ![Shell] = NoPid, ![1] = NoPid]
    /\ schedule(state', current_process)

\* "boot: cannot mount FAT16 disk" before the process exists.
BootNoDisk ==
    /\ status = "boot"
    /\ status' = "halted"
    /\ UNCHANGED <<state, wait_pid, current_process, round_robin_index, bypassed>>

\* "boot: cannot load SHELL": the process stays CREATED for good; staged says
\* whether the failure came after the image slot had been created.
BootNoShell(staged) ==
    /\ status = "boot"
    /\ state' = [state EXCEPT ![Shell] = "CREATED"]
    /\ wait_pid' = IF staged THEN [wait_pid EXCEPT ![Shell] = NoPid, ![1] = NoPid]
                             ELSE [wait_pid EXCEPT ![Shell] = NoPid]
    /\ status' = "halted"
    /\ UNCHANGED <<current_process, round_robin_index, bypassed>>

-----------------------------------------------------------------------------
(***************************************************************************)
(* System calls of the running process.                                    *)
(***************************************************************************)
Running == status = "running"

ForkOk(child) ==
    /\ Running
    /\ FirstUnused(child)
    /\ state' = [state EXCEPT ![child] = "READY"]
    /\ wait_pid' = [wait_pid EXCEPT ![child] = NoPid]
    /\ bypassed' = [bypassed EXCEPT ![child] = 0]
    /\ UNCHANGED <<current_process, round_robin_index, status>>

\* Every slot is taken: fork returns -1.
ForkFull ==
    /\ Running
    /\ UnusedSlots = {}
    /\ UNCHANGED schedVars

\* exec that got as far as staging an image: the spare slot is created and
\* freed again whether or not the image loads, and the caller stays READY.
ExecStaged(image) ==
    /\ Running
    /\ FirstUnused(image)
    /\ wait_pid' = [wait_pid EXCEPT ![image] = NoPid]
    /\ UNCHANGED <<state, current_process, round_robin_index, status, bypassed>>

\* exec refused earlier: bad pointer or name, no such file, no spare slot.
ExecRefused ==
    /\ Running
    /\ UNCHANGED schedVars

\* Mutants: a waiter is matched by slot number instead of pid; every sleeper
\* is woken.
WokenBySlot == {q \in Slots : state[q] = "SLEEPING" /\ wait_pid[q] = current_process}

WokenAll == {q \in Slots : state[q] = "SLEEPING"}

\* Wake everyone waiting for this pid, give the slot back, schedule.
Woken == {q \in Slots : state[q] = "SLEEPING" /\ wait_pid[q] = Pid(current_process)}

Exit ==
    /\ Running
    /\ wait_pid' = [q \in Slots |-> IF q \in Woken THEN NoPid ELSE wait_pid[q]]
    /\ state' = [q \in Slots |-> IF q \in Woken THEN "READY"
                                 ELSE IF q = current_process THEN "UNUSED"
                                 ELSE state[q]]
    /\ schedule(state', NULL)

\* Mutant: wait does not look at the state of the slot.
InRange(proc) == proc # NULL

\* The pid names a slot in use: sleep until it exits.
InUse(proc) == proc # NULL /\ state[proc] # "UNUSED"

WaitSleeps(pid) ==
    /\ Running
    /\ InUse(proc_get(pid))
    /\ wait_pid' = [wait_pid EXCEPT ![current_process] = pid]
    /\ state' = [state EXCEPT ![current_process] = "SLEEPING"]
    /\ schedule(state', current_process)

\* It does not: wait returns at once.
WaitReturns(pid) ==
    /\ Running
    /\ ~InUse(proc_get(pid))
    /\ UNCHANGED schedVars

\* yield, and the timer interrupt that preempts user code, only reschedule.
Yield ==
    /\ Running
    /\ schedule(state, current_process)
    /\ UNCHANGED <<state, wait_pid>>

handle_timer ==
    /\ Running
    /\ schedule(state, current_process)
    /\ UNCHANGED <<state, wait_pid>>

-----------------------------------------------------------------------------
\* The argument of wait is whatever integer the caller passes; the values just
\* outside the pid range behave like every other one outside it.
WaitArgs == 0 .. PROCESS_COUNT_MAX + 1

Next ==
    \/ BootOk
    \/ BootNoDisk
    \/ \E staged \in BOOLEAN : BootNoShell(staged)
    \/ \E child \in Slots : ForkOk(child)
    \/ ForkFull
    \/ \E image \in Slots : ExecStaged(image)
    \/ ExecRefused
    \/ Exit
    \/ \E pid \in WaitArgs : WaitSleeps(pid)
    \/ \E pid \in WaitArgs : WaitReturns(pid)
    \/ Yield
    \/ handle_timer

Spec == Init /\ [][Next]_schedVars

\* The hardware timer is periodic: while user code runs, it fires again.
FairSpec == Spec /\ WF_schedVars(handle_timer)

-----------------------------------------------------------------------------
(***************************************************************************)
(* Properties.                                                             *)
(***************************************************************************)
\* Slots, cursor and pids stay in range, whatever number wait() is called with.
TypeOK ==
    /\ state \in [Slots -> ProcessState]
    /\ wait_pid \in [Slots -> -1 .. PROCESS_COUNT_MAX]
    /\ current_process \in Slots \cup {NULL}
    /\ round_robin_index \in Slots
    /\ status \in {"boot", "running", "panic", "halted"}
    /\ bypassed \in [Slots -> 0 .. PROCESS_COUNT_MAX]

\* No lost wakeup: whoever sleeps in wait() sleeps on a slot still in use, so an
\* exit that will wake it is still to come.  syscall_wait checks the slot before
\* it sleeps, and syscall_exit wakes the waiters before it gives the slot back.
NoOrphanedSleeper ==
    \A q \in Slots : state[q] = "SLEEPING" =>
        /\ wait_pid[q] \in 1 .. PROCESS_COUNT_MAX
        /\ state[wait_pid[q] - 1] # "UNUSED"

\* While user code runs, current_process is a READY slot and the scheduler's
\* cursor points at it; every other slot is free, asleep or READY, never left
\* half built by a fork or an exec.
RunningIsScheduled ==
    Running =>
        /\ current_process \in Slots
        /\ state[current_process] = "READY"
        /\ round_robin_index = current_process
        /\ \A q \in Slots : state[q] # "CREATED"

Deadlocked(S) ==
    \A q \in S : state[q] = "SLEEPING" /\ \E r \in S : wait_pid[q] = Pid(r)

\* The PANIC of schedule() is never the kernel's own doing: either every
\* process has exited, or some processes wait for each other in a ring (or one
\* for itself), which user code asked for.
PanicIsJustified ==
    status = "panic" =>
        \/ \A q \in Slots : state[q] = "UNUSED"
        \/ \E S \in SUBSET Slots : S # {} /\ Deadlocked(S)

\* Round robin: a READY process is passed over fewer times than there are slots
\* before schedule() picks it, whatever the others fork, exec, wait and exit.
BoundedBypass ==
    \A q \in Slots : state[q] = "READY" => bypassed[q] < PROCESS_COUNT_MAX

\* A sleeping process is woken only by the exit of the process it waits for,
\* in the step in which that slot becomes free, and becomes READY.
WokenOnlyByTarget ==
    [][\A q \in Slots : state[q] = "SLEEPING" /\ state'[q] # "SLEEPING" =>
          /\ state'[q] = "READY"
          /\ wait_pid[q] = Pid(current_process)
          /\ state'[current_process] = "UNUSED"]_schedVars

\* No starvation: a READY process gets the CPU, unless the machine panics first
\* (which PanicIsJustified pins down).
EveryReadyRuns ==
    \A q \in Slots :
        state[q] = "READY" ~> (current_process = q \/ status = "panic")
=============================================================================
