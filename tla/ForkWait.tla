------------------------------ MODULE ForkWait ------------------------------
(***************************************************************************)
(* The scheduler under programs written the way the ones in user/ are:     *)
(* each waits only for the pid its own last fork returned, once; the shell *)
(* in slot 0 loops over fork and wait, and neither exits nor calls exec.   *)
(* A pid is a slot number, so the pid of a child that has exited may by    *)
(* the time of the wait name somebody else.                                *)
(***************************************************************************)
EXTENDS Scheduler

VARIABLES
    child_pid,  \* the program's variable: what fork returned, 0 when it is spent
    own,        \* history: child_pid still names the process fork created
    younger     \* history: the processes in the table created after this one

forkWaitVars == <<schedVars, child_pid, own, younger>>

-----------------------------------------------------------------------------
FWInit ==
    /\ Init
    /\ child_pid = [q \in Slots |-> 0]
    /\ own = [q \in Slots |-> FALSE]
    /\ younger = [q \in Slots |-> {}]

FWBoot == (BootOk \/ BootNoDisk) /\ UNCHANGED <<child_pid, own, younger>>

\* child_pid = fork(): the pid in the parent, 0 in the child.
FWFork(child) ==
    /\ current_process = Shell => child_pid[Shell] = 0
    /\ ForkOk(child)
    /\ child_pid' = [child_pid EXCEPT ![current_process] = Pid(child),
                                      ![child] = 0]
    /\ own' = [own EXCEPT ![current_process] = TRUE, ![child] = FALSE]
    /\ younger' = [q \in Slots |->
                      IF state[q] = "UNUSED" THEN {} ELSE younger[q] \cup {child}]

\* child_pid = -1 is never passed to wait.
FWForkFull ==
    /\ current_process = Shell => child_pid[Shell] = 0
    /\ ForkFull
    /\ child_pid' = [child_pid EXCEPT ![current_process] = 0]
    /\ own' = [own EXCEPT ![current_process] = FALSE]
    /\ UNCHANGED younger

\* exec(command): a program that is loaded knows no child.
FWExec ==
    /\ current_process # Shell
    /\ \E image \in Slots : ExecStaged(image)
    /\ child_pid' = [child_pid EXCEPT ![current_process] = 0]
    /\ own' = [own EXCEPT ![current_process] = FALSE]
    /\ UNCHANGED younger

FWExecFails ==
    /\ current_process # Shell
    /\ (\E image \in Slots : ExecStaged(image)) \/ ExecRefused
    /\ UNCHANGED <<child_pid, own, younger>>

FWExit ==
    /\ current_process # Shell
    /\ Exit
    /\ child_pid' = [child_pid EXCEPT ![current_process] = 0]
    /\ own' = [q \in Slots |-> own[q] /\ q # current_process
                                      /\ child_pid[q] # Pid(current_process)]
    /\ younger' = [q \in Slots |-> IF q = current_process THEN {}
                                   ELSE younger[q] \ {current_process}]

\* wait(child_pid), after which child_pid is not used again.
FWWait ==
    /\ Running
    /\ child_pid[current_process] # 0
    /\ WaitSleeps(child_pid[current_process]) \/ WaitReturns(child_pid[current_process])
    /\ child_pid' = [child_pid EXCEPT ![current_process] = 0]
    /\ UNCHANGED <<own, younger>>

FWYield == current_process # Shell /\ Yield /\ UNCHANGED <<child_pid, own, younger>>

FWTimer == handle_timer /\ UNCHANGED <<child_pid, own, younger>>

FWNext ==
    \/ FWBoot
    \/ \E child \in Slots : FWFork(child)
    \/ FWForkFull
    \/ FWExec
    \/ FWExecFails
    \/ FWExit
    \/ FWWait
    \/ FWYield
    \/ FWTimer

FWSpec == FWInit /\ [][FWNext]_forkWaitVars

-----------------------------------------------------------------------------
\* A process never waits for one that is older than itself, even when the pid
\* it waits for was given to another process in the meantime: proc_create gives
\* a slot out again only after its previous process exited.
WaitsForYounger ==
    \A q \in Slots : state[q] = "SLEEPING" => wait_pid[q] - 1 \in younger[q]

\* Hence such programs cannot wait in a ring, and schedule() always finds
\* a READY process: the kernel does not panic, pid reuse or not.
NeverPanics == status # "panic"

\* tests/boot.py: "The shell waits for its child, not that child's forked
\* process."  What the shell's wait() blocks on is the process its fork() created.
ShellWaitsForItsChild == state[Shell] = "SLEEPING" => own[Shell]
=============================================================================
