--------------------------- MODULE SchedulerProofs ---------------------------
(***************************************************************************)
(* Proofs about modules Scheduler, ForkWait and Contexts, for every size   *)
(* of the process table.                                                   *)
(***************************************************************************)
EXTENDS ForkWait, Contexts, FiniteSetTheorems, TLAPS

\* How many increments take the cursor from index to slot: 1 .. PROCESS_COUNT_MAX.
Dist(index, slot) ==
    IF slot > index THEN slot - index ELSE slot - index + PROCESS_COUNT_MAX

\* The turns a READY process has been passed over and the slots still between
\* the cursor and it never add up to more than one round.
BypassInv ==
    \A q \in Slots : state[q] = "READY" =>
        bypassed[q] + Dist(round_robin_index, q) <= PROCESS_COUNT_MAX

PanicInv ==
    status = "panic" => \A q \in Slots : state[q] \in {"UNUSED", "SLEEPING"}

BootInv ==
    status = "boot" => /\ \A q \in Slots : state[q] = "UNUSED"
                       /\ current_process = NULL

\* The inductive invariant.
SchedInv ==
    /\ TypeOK
    /\ NoOrphanedSleeper
    /\ RunningIsScheduled
    /\ BypassInv
    /\ PanicInv
    /\ BootInv

-----------------------------------------------------------------------------
\* The cursor stays inside the table, and within one round it visits every slot.
LEMMA AdvanceType ==
    ASSUME NEW index \in Slots, NEW k \in 1 .. PROCESS_COUNT_MAX
    PROVE  Advance(index, k) \in Slots
BY SlotCountAssumption DEF Advance, Slots

\* Every slot is some k-th slot after the cursor.
LEMMA AdvanceReaches ==
    ASSUME NEW index \in Slots, NEW q \in Slots
    PROVE  /\ Dist(index, q) \in 1 .. PROCESS_COUNT_MAX
           /\ Advance(index, Dist(index, q)) = q
BY SlotCountAssumption DEF Advance, Dist, Slots

\* Moving the cursor k slots on, short of q, brings it k slots closer to q.
LEMMA AdvanceCloser ==
    ASSUME NEW index \in Slots, NEW q \in Slots, NEW k \in 1 .. PROCESS_COUNT_MAX,
           k < Dist(index, q)
    PROVE  Dist(Advance(index, k), q) = Dist(index, q) - k
BY SlotCountAssumption DEF Advance, Dist, Slots

-----------------------------------------------------------------------------
(***************************************************************************)
(* What schedule() establishes, whatever handler calls it: the handler     *)
(* leaves the table in state'; the processes that were READY before it     *)
(* satisfy BypassInv, the ones it made READY start counting now.           *)
(***************************************************************************)
LEMMA DispatchKeepsBypass ==
    ASSUME TypeOK, BypassInv, state' \in [Slots -> ProcessState],
           NEW k \in 1 .. PROCESS_COUNT_MAX, Dispatch(state', k)
    PROVE  BypassInv'
<1> DEFINE chosen == Advance(round_robin_index, k)
<1>1. chosen \in Slots /\ round_robin_index' = chosen
  BY AdvanceType DEF TypeOK, Dispatch
<1> SUFFICES ASSUME NEW q \in Slots, state'[q] = "READY"
             PROVE  bypassed'[q] + Dist(chosen, q) <= PROCESS_COUNT_MAX
  BY <1>1 DEF BypassInv
<1>2. Dist(chosen, q) \in 1 .. PROCESS_COUNT_MAX
  BY <1>1, AdvanceReaches
<1>3. CASE q = chosen \/ state[q] # "READY"
  <2>1. bypassed'[q] = 0
    BY <1>3 DEF Dispatch, CountBypass
  <2> QED
    BY <2>1, <1>2, SlotCountAssumption
<1>4. CASE q # chosen /\ state[q] = "READY"
  <2>1. /\ Dist(round_robin_index, q) \in 1 .. PROCESS_COUNT_MAX
        /\ Advance(round_robin_index, Dist(round_robin_index, q)) = q
    BY AdvanceReaches DEF TypeOK
  <2>2. k < Dist(round_robin_index, q)
    <3>1. ~(Dist(round_robin_index, q) \in 1 .. k - 1)
      BY <2>1 DEF Dispatch, FoundAfter
    <3>2. k # Dist(round_robin_index, q)
      BY <2>1, <1>4
    <3> QED
      BY <3>1, <3>2, <2>1, SlotCountAssumption
  <2>3. Dist(chosen, q) = Dist(round_robin_index, q) - k
    BY <2>2, AdvanceCloser DEF TypeOK
  <2>4. bypassed[q] + Dist(round_robin_index, q) <= PROCESS_COUNT_MAX
    BY <1>4 DEF BypassInv
  <2>5. bypassed[q] \in 0 .. PROCESS_COUNT_MAX
    BY DEF TypeOK
  <2>6. bypassed'[q] = bypassed[q] + 1
    BY <1>4, <2>1, <2>4, <2>5, SlotCountAssumption DEF Dispatch, CountBypass
  <2> QED
    BY <2>1, <2>3, <2>4, <2>5, <2>6, SlotCountAssumption
<1> QED
  BY <1>3, <1>4

\* What schedule() leaves behind, in terms of the table state' it was given.
ScheduleResult ==
    /\ current_process' \in Slots \cup {NULL}
    /\ round_robin_index' \in Slots
    /\ status' \in {"running", "panic"}
    /\ bypassed' \in [Slots -> 0 .. PROCESS_COUNT_MAX]
    /\ BypassInv'
    /\ status' = "running" => /\ current_process' \in Slots
                              /\ state'[current_process'] = "READY"
                              /\ round_robin_index' = current_process'
    /\ status' = "panic" => \A q \in Slots : state'[q] # "READY"

\* schedule() establishes ScheduleResult: a READY process, or nothing to run.
LEMMA ScheduleSound ==
    ASSUME TypeOK, BypassInv, state' \in [Slots -> ProcessState],
           NEW cur \in Slots \cup {NULL}, schedule(state', cur)
    PROVE  ScheduleResult
<1>1. CASE \E k \in 1 .. PROCESS_COUNT_MAX : Dispatch(state', k)
  <2> PICK k \in 1 .. PROCESS_COUNT_MAX : Dispatch(state', k)
    BY <1>1
  <2>1. Advance(round_robin_index, k) \in Slots
    BY AdvanceType DEF TypeOK
  <2>2. BypassInv'
    BY DispatchKeepsBypass
  <2>3. bypassed' \in [Slots -> 0 .. PROCESS_COUNT_MAX]
    BY SlotCountAssumption DEF Dispatch, CountBypass, TypeOK
  <2> QED
    BY <2>1, <2>2, <2>3 DEF ScheduleResult, Dispatch, FoundAfter
<1>2. CASE NoneReady(state', cur)
  <2>1. \A q \in Slots : state'[q] # "READY"
    BY <1>2, AdvanceReaches DEF NoneReady, TypeOK
  <2>2. BypassInv'
    BY <2>1 DEF BypassInv
  <2>3. Advance(round_robin_index, PROCESS_COUNT_MAX) \in Slots
    BY AdvanceType, SlotCountAssumption DEF TypeOK
  <2> QED
    BY <1>2, <2>1, <2>2, <2>3 DEF ScheduleResult, NoneReady, TypeOK
<1> QED
  BY <1>1, <1>2 DEF schedule
-----------------------------------------------------------------------------
\* A handler that only reschedules keeps the invariant.
LEMMA RescheduleInv ==
    ASSUME SchedInv, Running, schedule(state, current_process), UNCHANGED <<state, wait_pid>>
    PROVE  SchedInv'
<1>1. state' = state /\ wait_pid' = wait_pid
  OBVIOUS
<1>2. state' \in [Slots -> ProcessState] /\ schedule(state', current_process)
  BY <1>1 DEF SchedInv, TypeOK
<1>3. current_process \in Slots \cup {NULL}
  BY DEF SchedInv, TypeOK
<1>4. ScheduleResult
  BY <1>2, <1>3, ScheduleSound DEF SchedInv
<1>5. TypeOK'
  BY <1>1, <1>4 DEF ScheduleResult, SchedInv, TypeOK
<1>6. NoOrphanedSleeper'
  BY <1>1 DEF SchedInv, NoOrphanedSleeper
<1>7. \A q \in Slots : state'[q] # "CREATED"
  BY <1>1 DEF SchedInv, RunningIsScheduled, Running
<1>8. RunningIsScheduled'
  BY <1>4, <1>7 DEF ScheduleResult, RunningIsScheduled, Running
<1>9. PanicInv'
  BY <1>2, <1>4, <1>7 DEF ScheduleResult, PanicInv, ProcessState
<1>10. BootInv'
  BY <1>4 DEF ScheduleResult, BootInv
<1> QED
  BY <1>4, <1>5, <1>6, <1>8, <1>9, <1>10 DEF ScheduleResult, SchedInv

\* The table proc_init leaves satisfies the invariant.
LEMMA InitInv == Init => SchedInv
<1> SUFFICES ASSUME Init PROVE SchedInv
  OBVIOUS
<1>1. 0 \in Slots /\ 0 \in -1 .. PROCESS_COUNT_MAX /\ 0 \in 0 .. PROCESS_COUNT_MAX
  BY SlotCountAssumption DEF Slots
<1>2. TypeOK
  BY <1>1 DEF Init, TypeOK, ProcessState, NULL
<1> QED
  BY <1>2 DEF Init, SchedInv, NoOrphanedSleeper, RunningIsScheduled, Running, BypassInv,
              PanicInv, BootInv

\* So does the one with the shell in it, chosen by the first schedule().
LEMMA BootOkInv == SchedInv /\ BootOk => SchedInv'
<1> SUFFICES ASSUME SchedInv, BootOk PROVE SchedInv'
  OBVIOUS
<1>1. 0 \in Slots /\ 1 \in Slots /\ -1 \in -1 .. PROCESS_COUNT_MAX
  BY SlotCountAssumption DEF Slots
<1>2. /\ state' \in [Slots -> ProcessState]
      /\ wait_pid' \in [Slots -> -1 .. PROCESS_COUNT_MAX]
  BY <1>1 DEF BootOk, SchedInv, TypeOK, ProcessState, NoPid
<1>3. ScheduleResult
  BY <1>2, ScheduleSound DEF BootOk, SchedInv, TypeOK
<1>4. \A q \in Slots : state'[q] \in {"UNUSED", "READY"}
  BY <1>1 DEF BootOk, SchedInv, BootInv, TypeOK
<1> QED
  BY <1>2, <1>3, <1>4 DEF ScheduleResult, SchedInv, TypeOK, NoOrphanedSleeper, RunningIsScheduled, Running,
                          PanicInv, BootInv

\* Booting that fails leaves nothing that runs.
LEMMA BootFailsInv ==
    SchedInv /\ (BootNoDisk \/ \E staged \in BOOLEAN : BootNoShell(staged)) => SchedInv'
<1> SUFFICES ASSUME SchedInv, BootNoDisk \/ \E staged \in BOOLEAN : BootNoShell(staged)
             PROVE  SchedInv'
  OBVIOUS
<1>1. 0 \in Slots /\ 1 \in Slots /\ -1 \in -1 .. PROCESS_COUNT_MAX
  BY SlotCountAssumption DEF Slots
<1>2. \A q \in Slots : state[q] = "UNUSED"
  BY DEF SchedInv, BootInv, BootNoDisk, BootNoShell
<1>3. CASE BootNoDisk
  BY <1>2, <1>3 DEF BootNoDisk, SchedInv, TypeOK, NoOrphanedSleeper, RunningIsScheduled, Running,
                    BypassInv, PanicInv, BootInv
<1>4. ASSUME NEW staged \in BOOLEAN, BootNoShell(staged)
      PROVE  SchedInv'
  <2>1. TypeOK'
    BY <1>1, <1>4 DEF BootNoShell, SchedInv, TypeOK, ProcessState, NoPid
  <2>2. \A q \in Slots : state'[q] \in {"UNUSED", "CREATED"}
    BY <1>1, <1>2, <1>4 DEF BootNoShell, SchedInv, TypeOK
  <2> QED
    BY <1>4, <2>1, <2>2 DEF BootNoShell, SchedInv, NoOrphanedSleeper, RunningIsScheduled, Running,
                            BypassInv, PanicInv, BootInv
<1> QED
  BY <1>3, <1>4

\* fork: the child was UNUSED, so nobody waits for it yet.
LEMMA ForkInv ==
    ASSUME SchedInv, NEW child \in Slots, ForkOk(child)
    PROVE  SchedInv'
<1>1. state[child] = "UNUSED"
  BY DEF ForkOk, FirstUnused, UnusedSlots
<1>2. TypeOK'
  BY SlotCountAssumption DEF ForkOk, SchedInv, TypeOK, ProcessState, NoPid
<1>3. NoOrphanedSleeper'
  <2> SUFFICES ASSUME NEW q \in Slots, state'[q] = "SLEEPING"
               PROVE  wait_pid'[q] \in 1 .. PROCESS_COUNT_MAX /\ state'[wait_pid'[q] - 1] # "UNUSED"
    BY DEF NoOrphanedSleeper
  <2>1. q # child /\ state[q] = "SLEEPING" /\ wait_pid'[q] = wait_pid[q]
    BY DEF ForkOk, SchedInv, TypeOK
  <2>2. wait_pid[q] \in 1 .. PROCESS_COUNT_MAX /\ state[wait_pid[q] - 1] # "UNUSED"
    BY <2>1 DEF SchedInv, NoOrphanedSleeper
  <2>3. wait_pid[q] - 1 \in Slots /\ wait_pid[q] - 1 # child
    BY <1>1, <2>2, SlotCountAssumption DEF Slots
  <2> QED
    BY <2>1, <2>2, <2>3 DEF ForkOk, SchedInv, TypeOK
<1>4. RunningIsScheduled'
  BY DEF ForkOk, SchedInv, RunningIsScheduled, Running, TypeOK
<1>5. BypassInv'
  <2> SUFFICES ASSUME NEW q \in Slots, state'[q] = "READY"
               PROVE  bypassed'[q] + Dist(round_robin_index, q) <= PROCESS_COUNT_MAX
    BY DEF ForkOk, BypassInv
  <2>1. CASE q = child
    <3>1. bypassed'[q] = 0
      BY <2>1 DEF ForkOk, SchedInv, TypeOK
    <3> QED
      BY <3>1, AdvanceReaches, SlotCountAssumption DEF SchedInv, TypeOK
  <2>2. CASE q # child
    BY <2>2 DEF ForkOk, SchedInv, TypeOK, BypassInv
  <2> QED
    BY <2>1, <2>2
<1> QED
  BY <1>2, <1>3, <1>4, <1>5 DEF ForkOk, Running, SchedInv, PanicInv, BootInv

\* exec: the image slot is UNUSED before and after.
LEMMA ExecInv ==
    ASSUME SchedInv, NEW image \in Slots, ExecStaged(image)
    PROVE  SchedInv'
<1>1. state[image] = "UNUSED"
  BY DEF ExecStaged, FirstUnused, UnusedSlots
<1>2. TypeOK'
  BY SlotCountAssumption DEF ExecStaged, SchedInv, TypeOK, NoPid
<1>3. NoOrphanedSleeper'
  BY <1>1 DEF ExecStaged, SchedInv, NoOrphanedSleeper, TypeOK
<1> QED
  BY <1>2, <1>3 DEF ExecStaged, SchedInv, RunningIsScheduled, Running, BypassInv, PanicInv, BootInv

\* wait: the process goes to sleep on a slot it has just seen in use (its own
\* slot included, which is then SLEEPING and so still in use).
LEMMA WaitInv ==
    ASSUME SchedInv, NEW pid \in WaitArgs, WaitSleeps(pid)
    PROVE  SchedInv'
<1>1. /\ current_process \in Slots
      /\ state[current_process] = "READY"
      /\ \A q \in Slots : state[q] # "CREATED"
  BY DEF WaitSleeps, SchedInv, RunningIsScheduled
<1>2. /\ pid \in 1 .. PROCESS_COUNT_MAX
      /\ pid - 1 \in Slots
      /\ state[pid - 1] # "UNUSED"
  BY SlotCountAssumption DEF WaitSleeps, InUse, proc_get, WaitArgs, NULL, Slots
<1>3. /\ state' \in [Slots -> ProcessState]
      /\ wait_pid' \in [Slots -> -1 .. PROCESS_COUNT_MAX]
  BY <1>1, <1>2, SlotCountAssumption DEF WaitSleeps, SchedInv, TypeOK, ProcessState
<1>4. ScheduleResult
  BY <1>1, <1>3, ScheduleSound DEF WaitSleeps, SchedInv
<1>5. NoOrphanedSleeper'
  <2> SUFFICES ASSUME NEW q \in Slots, state'[q] = "SLEEPING"
               PROVE  /\ wait_pid'[q] \in 1 .. PROCESS_COUNT_MAX
                      /\ state'[wait_pid'[q] - 1] # "UNUSED"
    BY DEF NoOrphanedSleeper
  <2>1. \A r \in Slots : state[r] # "UNUSED" => state'[r] # "UNUSED"
    BY <1>1 DEF WaitSleeps, SchedInv, TypeOK
  <2>2. CASE q = current_process
    BY <1>1, <1>2, <2>1, <2>2 DEF WaitSleeps, SchedInv, TypeOK
  <2>3. CASE q # current_process
    <3>1. state[q] = "SLEEPING" /\ wait_pid'[q] = wait_pid[q]
      BY <1>1, <2>3 DEF WaitSleeps, SchedInv, TypeOK
    <3>2. wait_pid[q] \in 1 .. PROCESS_COUNT_MAX /\ state[wait_pid[q] - 1] # "UNUSED"
      BY <3>1 DEF SchedInv, NoOrphanedSleeper
    <3>3. wait_pid[q] - 1 \in Slots
      BY <3>2, SlotCountAssumption DEF Slots
    <3> QED
      BY <2>1, <3>1, <3>2, <3>3
  <2> QED
    BY <2>2, <2>3
<1>6. \A q \in Slots : state'[q] # "CREATED"
  BY <1>1 DEF WaitSleeps, SchedInv, TypeOK
<1> QED
  BY <1>3, <1>4, <1>5, <1>6 DEF ScheduleResult, SchedInv, TypeOK, RunningIsScheduled, Running,
                                PanicInv, BootInv, ProcessState
\* exit: the waiters of the process are READY before its slot is UNUSED, so
\* nobody is left asleep on it.
LEMMA ExitInv == SchedInv /\ Exit => SchedInv'
<1> SUFFICES ASSUME SchedInv, Exit PROVE SchedInv'
  OBVIOUS
<1>1. /\ current_process \in Slots
      /\ state[current_process] = "READY"
      /\ \A q \in Slots : state[q] # "CREATED"
  BY DEF Exit, SchedInv, RunningIsScheduled
<1>2. /\ state' \in [Slots -> ProcessState]
      /\ wait_pid' \in [Slots -> -1 .. PROCESS_COUNT_MAX]
  BY SlotCountAssumption DEF Exit, SchedInv, TypeOK, ProcessState, NoPid
<1>3. ScheduleResult
  BY <1>2, ScheduleSound DEF Exit, SchedInv
<1>4. NoOrphanedSleeper'
  <2> SUFFICES ASSUME NEW q \in Slots, state'[q] = "SLEEPING"
               PROVE  /\ wait_pid'[q] \in 1 .. PROCESS_COUNT_MAX
                      /\ state'[wait_pid'[q] - 1] # "UNUSED"
    BY DEF NoOrphanedSleeper
  <2>1. q \notin Woken /\ q # current_process /\ state[q] = "SLEEPING" /\ wait_pid'[q] = wait_pid[q]
    BY DEF Exit
  <2>2. wait_pid[q] # current_process + 1
    BY <2>1 DEF Woken, Pid
  <2>3. wait_pid[q] \in 1 .. PROCESS_COUNT_MAX /\ state[wait_pid[q] - 1] # "UNUSED"
    BY <2>1 DEF SchedInv, NoOrphanedSleeper
  <2>4. wait_pid[q] - 1 \in Slots /\ wait_pid[q] - 1 # current_process
    BY <1>1, <2>2, <2>3, SlotCountAssumption DEF Slots
  <2>5. state'[wait_pid[q] - 1] # "UNUSED"
    BY <2>3, <2>4 DEF Exit
  <2> QED
    BY <2>1, <2>3, <2>5
<1>5. \A q \in Slots : state'[q] # "CREATED"
  BY <1>1 DEF Exit
<1> QED
  BY <1>2, <1>3, <1>4, <1>5 DEF ScheduleResult, SchedInv, TypeOK, RunningIsScheduled, Running,
                                PanicInv, BootInv, ProcessState

\* A step that changes nothing keeps the invariant.
LEMMA StutterInv == SchedInv /\ UNCHANGED schedVars => SchedInv'
BY DEF schedVars, SchedInv, TypeOK, NoOrphanedSleeper, RunningIsScheduled, Running, BypassInv,
       PanicInv, BootInv

\* Every handler keeps the invariant.
LEMMA NextInv == SchedInv /\ [Next]_schedVars => SchedInv'
<1> SUFFICES ASSUME SchedInv, [Next]_schedVars PROVE SchedInv'
  OBVIOUS
<1>1. CASE BootOk
  BY <1>1, BootOkInv
<1>2. CASE BootNoDisk \/ \E staged \in BOOLEAN : BootNoShell(staged)
  BY <1>2, BootFailsInv
<1>3. CASE \E child \in Slots : ForkOk(child)
  BY <1>3, ForkInv
<1>4. CASE \E image \in Slots : ExecStaged(image)
  BY <1>4, ExecInv
<1>5. CASE ForkFull \/ ExecRefused \/ (\E pid \in WaitArgs : WaitReturns(pid)) \/ UNCHANGED schedVars
  BY <1>5, StutterInv DEF ForkFull, ExecRefused, WaitReturns
<1>6. CASE Exit
  BY <1>6, ExitInv
<1>7. CASE \E pid \in WaitArgs : WaitSleeps(pid)
  BY <1>7, WaitInv
<1>8. CASE Yield \/ handle_timer
  BY <1>8, RescheduleInv DEF Yield, handle_timer
<1> QED
  BY <1>1, <1>2, <1>3, <1>4, <1>5, <1>6, <1>7, <1>8 DEF Next

-----------------------------------------------------------------------------
\* The inductive invariant of fork, exec, exit, wait, yield and the timer.
THEOREM SchedInvariance == Spec => []SchedInv
<1>1. Init => SchedInv
  BY InitInv
<1>2. SchedInv /\ [Next]_schedVars => SchedInv'
  BY NextInv
<1> QED
  BY <1>1, <1>2, PTL DEF Spec

\* Every slot, cursor and pid the scheduler stores stays in range.
THEOREM TypeCorrect == Spec => []TypeOK
<1>1. SchedInv => TypeOK
  BY DEF SchedInv
<1> QED
  BY <1>1, SchedInvariance, PTL

\* wait() and exit() lose no wakeup, for a table of any size.
THEOREM NoLostWakeup == Spec => []NoOrphanedSleeper
<1>1. SchedInv => NoOrphanedSleeper
  BY DEF SchedInv
<1> QED
  BY <1>1, SchedInvariance, PTL

\* What runs is READY, is where the cursor points, and nothing is half built.
THEOREM CurrentIsScheduled == Spec => []RunningIsScheduled
<1>1. SchedInv => RunningIsScheduled
  BY DEF SchedInv
<1> QED
  BY <1>1, SchedInvariance, PTL

\* schedule() panics only when all processes are gone or a ring of them waits:
\* the set of all sleepers is such a ring, by NoOrphanedSleeper.
THEOREM PanicOnlyOnDeadlock == Spec => []PanicIsJustified
<1>1. SchedInv => PanicIsJustified
  <2> SUFFICES ASSUME SchedInv, status = "panic", \E q \in Slots : state[q] # "UNUSED"
               PROVE  \E S \in SUBSET Slots : S # {} /\ Deadlocked(S)
    BY DEF PanicIsJustified
  <2> DEFINE Sleepers == {q \in Slots : state[q] = "SLEEPING"}
  <2>1. Sleepers \in SUBSET Slots /\ Sleepers # {}
    BY DEF SchedInv, PanicInv
  <2>2. ASSUME NEW q \in Sleepers
        PROVE  \E r \in Sleepers : wait_pid[q] = Pid(r)
    <3>1. wait_pid[q] \in 1 .. PROCESS_COUNT_MAX /\ state[wait_pid[q] - 1] # "UNUSED"
      BY DEF SchedInv, NoOrphanedSleeper
    <3>2. wait_pid[q] - 1 \in Slots
      BY <3>1, SlotCountAssumption DEF Slots
    <3>3. wait_pid[q] - 1 \in Sleepers
      BY <3>1, <3>2 DEF SchedInv, PanicInv
    <3>4. wait_pid[q] = Pid(wait_pid[q] - 1)
      BY <3>1, SlotCountAssumption DEF Pid
    <3> QED
      BY <3>3, <3>4
  <2>3. Deadlocked(Sleepers)
    BY <2>2 DEF Deadlocked
  <2> QED
    BY <2>1, <2>3
<1> QED
  BY <1>1, SchedInvariance, PTL

\* A READY process waits less than one round for the CPU: with the periodic
\* timer this is what starvation freedom rests on.
THEOREM RoundRobinBound == Spec => []BoundedBypass
<1>1. SchedInv => BoundedBypass
  <2> SUFFICES ASSUME SchedInv, NEW q \in Slots, state[q] = "READY"
               PROVE  bypassed[q] < PROCESS_COUNT_MAX
    BY DEF BoundedBypass
  <2>1. bypassed[q] + Dist(round_robin_index, q) <= PROCESS_COUNT_MAX
    BY DEF SchedInv, BypassInv
  <2>2. Dist(round_robin_index, q) \in 1 .. PROCESS_COUNT_MAX /\ bypassed[q] \in 0 .. PROCESS_COUNT_MAX
    BY AdvanceReaches DEF SchedInv, TypeOK
  <2> QED
    BY <2>1, <2>2, SlotCountAssumption
<1> QED
  BY <1>1, SchedInvariance, PTL

\* Only the exit of the process waited for ends a wait().
THEOREM WakeupIsByTarget == Spec => WokenOnlyByTarget
<1> DEFINE Step == \A q \in Slots : state[q] = "SLEEPING" /\ state'[q] # "SLEEPING" =>
                       /\ state'[q] = "READY"
                       /\ wait_pid[q] = Pid(current_process)
                       /\ state'[current_process] = "UNUSED"
<1>1. SchedInv /\ [Next]_schedVars => [Step]_schedVars
  <2> SUFFICES ASSUME SchedInv, Next, NEW q \in Slots, state[q] = "SLEEPING", state'[q] # "SLEEPING"
               PROVE  /\ state'[q] = "READY"
                      /\ wait_pid[q] = Pid(current_process)
                      /\ state'[current_process] = "UNUSED"
    BY DEF schedVars
  <2>1. CASE Exit
    <3>1. current_process \in Slots /\ state[current_process] = "READY"
      BY <2>1 DEF Exit, SchedInv, RunningIsScheduled
    <3>2. q \in Woken /\ current_process \notin Woken
      BY <2>1, <3>1 DEF Exit, Woken
    <3> QED
      BY <2>1, <3>1, <3>2 DEF Exit, Woken
  <2>2. CASE \E pid \in WaitArgs : WaitSleeps(pid)
    BY <2>2 DEF WaitSleeps, SchedInv, TypeOK
  <2>3. CASE \E child \in Slots : ForkOk(child)
    BY <2>3 DEF ForkOk, FirstUnused, UnusedSlots, SchedInv, TypeOK
  <2>4. CASE BootOk \/ BootNoDisk \/ \E staged \in BOOLEAN : BootNoShell(staged)
    BY <2>4 DEF BootOk, BootNoDisk, BootNoShell, SchedInv, BootInv
  <2> QED
    BY <2>1, <2>2, <2>3, <2>4 DEF Next, ForkFull, ExecStaged, ExecRefused, WaitReturns, Yield,
                                  handle_timer, schedVars
<1> QED
  BY <1>1, SchedInvariance, PTL DEF Spec, WokenOnlyByTarget

\* A process in the table leaves it only through its own exit: no other
\* process's fork, exec or exit reclaims its slot.
OnlyExitReclaims ==
    [][\A q \in Slots : state[q] \in {"READY", "SLEEPING"} /\ state'[q] \in {"UNUSED", "CREATED"} =>
          q = current_process /\ current_process' # q]_schedVars

\* A process leaves the table only by its own exit.
THEOREM SlotReclaimedByExit == Spec => OnlyExitReclaims
<1> DEFINE Step == \A q \in Slots : state[q] \in {"READY", "SLEEPING"}
                                    /\ state'[q] \in {"UNUSED", "CREATED"} =>
                       q = current_process /\ current_process' # q
<1>1. SchedInv /\ [Next]_schedVars => [Step]_schedVars
  <2> SUFFICES ASSUME SchedInv, Next, NEW q \in Slots, state[q] \in {"READY", "SLEEPING"},
                      state'[q] \in {"UNUSED", "CREATED"}
               PROVE  q = current_process /\ current_process' # q
    BY DEF schedVars
  <2>1. CASE Exit
    <3>1. q = current_process
      BY <2>1 DEF Exit
    <3>2. state' \in [Slots -> ProcessState]
      BY <2>1 DEF Exit, SchedInv, TypeOK, ProcessState
    <3>3. ScheduleResult
      BY <2>1, <3>2, ScheduleSound DEF Exit, SchedInv
    <3>4. CASE status' = "running"
      BY <3>1, <3>3, <3>4 DEF ScheduleResult
    <3>5. CASE status' = "panic"
      <4>1. current_process' = NULL
        BY <2>1, <3>5 DEF Exit, schedule, Dispatch, NoneReady
      <4>2. NULL \notin Slots
        BY SlotCountAssumption DEF NULL, Slots
      <4> QED
        BY <3>1, <4>1, <4>2
    <3> QED
      BY <3>3, <3>4, <3>5 DEF ScheduleResult
  <2>2. CASE \E pid \in WaitArgs : WaitSleeps(pid)
    BY <2>2 DEF WaitSleeps, SchedInv, TypeOK
  <2>3. CASE \E child \in Slots : ForkOk(child)
    BY <2>3 DEF ForkOk, FirstUnused, UnusedSlots, SchedInv, TypeOK
  <2>4. CASE BootOk \/ BootNoDisk \/ \E staged \in BOOLEAN : BootNoShell(staged)
    BY <2>4 DEF BootOk, BootNoDisk, BootNoShell, SchedInv, BootInv
  <2> QED
    BY <2>1, <2>2, <2>3, <2>4 DEF Next, ForkFull, ExecStaged, ExecRefused, WaitReturns, Yield,
                                  handle_timer, schedVars
<1> QED
  BY <1>1, SchedInvariance, PTL DEF Spec, OnlyExitReclaims

-----------------------------------------------------------------------------
(***************************************************************************)
(* Programs that wait for the pid their last fork returned.                *)
(***************************************************************************)
\* younger is a strict order on the processes in the table, and what a program
\* keeps in child_pid names a free slot or a process younger than itself.
FWInv ==
    /\ SchedInv
    /\ child_pid \in [Slots -> 0 .. PROCESS_COUNT_MAX]
    /\ younger \in [Slots -> SUBSET Slots]
    /\ \A q \in Slots : \A r \in younger[q] : state[q] # "UNUSED" /\ state[r] # "UNUSED"
    /\ \A q \in Slots : q \notin younger[q]
    /\ \A q \in Slots : \A r \in younger[q] : younger[r] \subseteq younger[q]
    /\ \A q \in Slots : child_pid[q] # 0 => state[q] # "UNUSED"
    /\ \A q \in Slots : child_pid[q] # 0 /\ state[child_pid[q] - 1] # "UNUSED" =>
           child_pid[q] - 1 \in younger[q]
    /\ WaitsForYounger
    /\ status \in {"running", "panic"} => state[Shell] # "UNUSED"

\* A step of these programs is a step of the scheduler.
LEMMA FWStepIsStep == ASSUME FWInv, [FWNext]_forkWaitVars PROVE [Next]_schedVars
<1>1. CASE FWWait
  <2>1. current_process \in Slots
    BY <1>1 DEF FWWait, FWInv, SchedInv, RunningIsScheduled
  <2>2. child_pid[current_process] \in WaitArgs
    BY <2>1, SlotCountAssumption DEF FWInv, WaitArgs
  <2> QED
    BY <1>1, <2>2 DEF FWWait, Next
<1>2. CASE FWBoot \/ \E child \in Slots : FWFork(child)
  BY <1>2 DEF FWBoot, FWFork, Next
<1>3. CASE FWForkFull \/ FWExec \/ FWExecFails \/ FWExit \/ FWYield \/ FWTimer
  BY <1>3 DEF FWForkFull, FWExec, FWExecFails, FWExit, FWYield, FWTimer, Next
<1> QED
  BY <1>1, <1>2, <1>3 DEF FWNext, forkWaitVars

\* The table has a slot for the first process.
LEMMA ShellIsSlot == Shell \in Slots
BY SlotCountAssumption DEF Shell, Slots

\* Nothing is younger than anything before the shell runs.
LEMMA FWInitInv == FWInit => FWInv
<1> SUFFICES ASSUME FWInit PROVE FWInv
  OBVIOUS
<1>1. SchedInv
  BY InitInv DEF FWInit
<1>2. 0 \in 0 .. PROCESS_COUNT_MAX
  BY SlotCountAssumption
<1> QED
  BY <1>1, <1>2 DEF FWInit, Init, FWInv, WaitsForYounger

\* The shell enters the table, or the machine halts.
LEMMA FWBootInv == ASSUME FWInv, FWBoot PROVE FWInv'
<1>1. SchedInv'
  BY BootOkInv, BootFailsInv DEF FWInv, FWBoot
<1>2. \A q \in Slots : state[q] = "UNUSED"
  BY DEF FWBoot, BootOk, BootNoDisk, FWInv, SchedInv, BootInv
<1>3. \A q \in Slots : younger[q] = {}
  BY <1>2 DEF FWInv
<1>4. \A q \in Slots : state'[q] # "SLEEPING"
  BY <1>2, ShellIsSlot DEF FWBoot, BootOk, BootNoDisk, FWInv, SchedInv, TypeOK
<1>5. status' \in {"running", "panic"} => state'[Shell] # "UNUSED"
  BY ShellIsSlot DEF FWBoot, BootOk, BootNoDisk, FWInv, SchedInv, TypeOK
<1> QED
  BY <1>1, <1>2, <1>3, <1>4, <1>5 DEF FWBoot, FWInv, WaitsForYounger

\* fork: the child is younger than everybody in the table, nobody younger than it.
LEMMA FWForkInv == ASSUME FWInv, NEW child \in Slots, FWFork(child) PROVE FWInv'
<1>1. SchedInv'
  BY ForkInv DEF FWInv, FWFork
<1>2. current_process \in Slots /\ state[current_process] # "UNUSED"
  BY DEF FWFork, ForkOk, FWInv, SchedInv, RunningIsScheduled
<1>3. state[child] = "UNUSED"
  BY DEF FWFork, ForkOk, FirstUnused, UnusedSlots
<1>4. \A q \in Slots : state'[q] # "UNUSED" <=> state[q] # "UNUSED" \/ q = child
  BY <1>3 DEF FWFork, ForkOk, FWInv, SchedInv, TypeOK
<1>5. \A q \in Slots : \A x : x \in younger'[q] <=> state[q] # "UNUSED" /\ (x \in younger[q] \/ x = child)
  BY DEF FWFork
<1>6. \A q \in Slots : child_pid'[q] = IF q = current_process THEN child + 1
                                       ELSE IF q = child THEN 0 ELSE child_pid[q]
  BY <1>2, <1>3 DEF FWFork, FWInv, Pid
<1>7. child_pid' \in [Slots -> 0 .. PROCESS_COUNT_MAX]
  <2>1. child + 1 \in 0 .. PROCESS_COUNT_MAX /\ 0 \in 0 .. PROCESS_COUNT_MAX
    BY SlotCountAssumption DEF Slots
  <2> QED
    BY <2>1 DEF FWFork, FWInv, Pid
<1>8. younger' \in [Slots -> SUBSET Slots]
  BY DEF FWFork, FWInv
<1>9. ASSUME NEW q \in Slots, NEW r \in younger'[q]
      PROVE  state'[q] # "UNUSED" /\ state'[r] # "UNUSED" /\ younger'[r] \subseteq younger'[q]
  BY <1>3, <1>4, <1>5, <1>9 DEF FWInv
<1>10. \A q \in Slots : q \notin younger'[q]
  BY <1>3, <1>5 DEF FWInv
<1>11. \A q \in Slots : child_pid'[q] # 0 => state'[q] # "UNUSED"
  BY <1>2, <1>4, <1>6 DEF FWInv
<1>12. ASSUME NEW q \in Slots, child_pid'[q] # 0, state'[child_pid'[q] - 1] # "UNUSED"
       PROVE  child_pid'[q] - 1 \in younger'[q]
  <2>1. CASE q = current_process
    BY <1>2, <1>5, <1>6, <2>1 DEF Slots
  <2>2. CASE q # current_process
    <3>1. q # child /\ child_pid'[q] = child_pid[q]
      BY <1>6, <1>12, <2>2
    <3>2. state[q] # "UNUSED" /\ child_pid[q] - 1 \in Slots
      BY <1>12, <3>1, SlotCountAssumption DEF FWInv, Slots
    <3> QED
      BY <1>4, <1>5, <1>12, <3>1, <3>2 DEF FWInv
  <2> QED
    BY <2>1, <2>2
<1>13. WaitsForYounger'
  <2> SUFFICES ASSUME NEW q \in Slots, state'[q] = "SLEEPING" PROVE wait_pid'[q] - 1 \in younger'[q]
    BY DEF WaitsForYounger
  <2>1. state[q] = "SLEEPING" /\ wait_pid'[q] = wait_pid[q]
    BY DEF FWFork, ForkOk, FWInv, SchedInv, TypeOK
  <2> QED
    BY <1>5, <2>1 DEF FWInv, WaitsForYounger
<1>14. state'[Shell] # "UNUSED"
  BY <1>4, ShellIsSlot DEF FWFork, ForkOk, Running, FWInv
<1> QED
  BY <1>1, <1>7, <1>8, <1>9, <1>10, <1>11, <1>12, <1>13, <1>14 DEF FWInv

\* Calls that change no process but the caller, which only forgets its child.
LEMMA FWForgetInv ==
    ASSUME FWInv, SchedInv', Running,
           state' = state, status' \in {"running", "panic"}, younger' = younger,
           \A q \in Slots : state[q] = "SLEEPING" => wait_pid'[q] = wait_pid[q],
           child_pid' \in {child_pid, [child_pid EXCEPT ![current_process] = 0]}
    PROVE  FWInv'
<1>1. 0 \in 0 .. PROCESS_COUNT_MAX
  BY SlotCountAssumption
<1>2. child_pid' \in [Slots -> 0 .. PROCESS_COUNT_MAX]
  BY <1>1 DEF FWInv
<1>3. \A q \in Slots : child_pid'[q] # 0 => child_pid'[q] = child_pid[q]
  BY DEF FWInv
<1> QED
  BY <1>2, <1>3 DEF FWInv, WaitsForYounger, Running

\* exit: the slot given back is younger than nobody any more, and nobody sleeps
\* on it.
LEMMA FWExitInv == ASSUME FWInv, FWExit PROVE FWInv'
<1>1. SchedInv'
  BY ExitInv DEF FWInv, FWExit
<1>2. /\ current_process \in Slots
      /\ state[current_process] = "READY"
  BY DEF FWExit, Exit, FWInv, SchedInv, RunningIsScheduled
<1>3. \A q \in Slots : state'[q] # "UNUSED" <=> state[q] # "UNUSED" /\ q # current_process
  BY <1>2 DEF FWExit, Exit, Woken
<1>4. \A q \in Slots : \A x : x \in younger'[q] <=> /\ q # current_process
                                                  /\ x \in younger[q] /\ x # current_process
  BY DEF FWExit
<1>5. /\ child_pid' \in [Slots -> 0 .. PROCESS_COUNT_MAX]
      /\ \A q \in Slots : child_pid'[q] = IF q = current_process THEN 0 ELSE child_pid[q]
  <2>1. 0 \in 0 .. PROCESS_COUNT_MAX
    BY SlotCountAssumption
  <2> QED
    BY <2>1 DEF FWExit, FWInv
<1>6. younger' \in [Slots -> SUBSET Slots]
  BY DEF FWExit, FWInv
<1>7. ASSUME NEW q \in Slots, NEW r \in younger'[q]
      PROVE  state'[q] # "UNUSED" /\ state'[r] # "UNUSED" /\ younger'[r] \subseteq younger'[q]
  BY <1>3, <1>4, <1>7 DEF FWInv
<1>8. ASSUME NEW q \in Slots, child_pid'[q] # 0
      PROVE  state'[q] # "UNUSED" /\ (state'[child_pid'[q] - 1] # "UNUSED" => child_pid'[q] - 1 \in younger'[q])
  <2>1. q # current_process /\ child_pid'[q] = child_pid[q]
    BY <1>5, <1>8
  <2>2. child_pid[q] - 1 \in Slots
    BY <1>8, <2>1, SlotCountAssumption DEF FWInv, Slots
  <2> QED
    BY <1>3, <1>4, <1>8, <2>1, <2>2 DEF FWInv
<1>9. WaitsForYounger'
  <2> SUFFICES ASSUME NEW q \in Slots, state'[q] = "SLEEPING" PROVE wait_pid'[q] - 1 \in younger'[q]
    BY DEF WaitsForYounger
  <2>1. q \notin Woken /\ q # current_process /\ state[q] = "SLEEPING" /\ wait_pid'[q] = wait_pid[q]
    BY DEF FWExit, Exit
  <2>2. wait_pid[q] # current_process + 1
    BY <2>1 DEF Woken, Pid
  <2>3. wait_pid[q] \in 1 .. PROCESS_COUNT_MAX
    BY <2>1 DEF FWInv, SchedInv, NoOrphanedSleeper
  <2>4. wait_pid[q] - 1 # current_process
    BY <1>2, <2>2, <2>3, SlotCountAssumption DEF Slots
  <2> QED
    BY <1>4, <2>1, <2>4 DEF FWInv, WaitsForYounger
<1>10. state'[Shell] # "UNUSED"
  BY <1>3, ShellIsSlot DEF FWExit, Exit, Running, FWInv
<1>11. \A q \in Slots : q \notin younger'[q]
  BY <1>4 DEF FWInv
<1> QED
  BY <1>1, <1>5, <1>6, <1>7, <1>8, <1>9, <1>10, <1>11 DEF FWInv

\* wait: a pid in the table is a younger process's, whoever that is by now.
LEMMA FWWaitInv == ASSUME FWInv, FWWait PROVE FWInv'
<1>1. /\ current_process \in Slots
      /\ state[current_process] = "READY"
      /\ child_pid[current_process] \in WaitArgs
  BY SlotCountAssumption DEF FWWait, FWInv, SchedInv, RunningIsScheduled, WaitArgs
<1>2. SchedInv'
  BY <1>1, WaitInv, StutterInv DEF FWInv, FWWait, WaitReturns
<1>3. CASE WaitReturns(child_pid[current_process])
  <2>1. UNCHANGED schedVars
    BY <1>3 DEF WaitReturns
  <2> QED
    BY <1>2, <2>1, FWForgetInv DEF FWWait, Running, schedVars
<1>4. CASE WaitSleeps(child_pid[current_process])
  <2> DEFINE pid == child_pid[current_process]
  <2>1. pid \in 1 .. PROCESS_COUNT_MAX /\ pid - 1 \in Slots /\ state[pid - 1] # "UNUSED"
    BY <1>1, <1>4, SlotCountAssumption DEF WaitSleeps, InUse, proc_get, WaitArgs, NULL, Slots
  <2>2. pid - 1 \in younger[current_process]
    BY <1>1, <2>1 DEF FWWait, FWInv
  <2>3. \A q \in Slots : state'[q] # "UNUSED" <=> state[q] # "UNUSED"
    BY <1>1, <1>4 DEF WaitSleeps, FWInv, SchedInv, TypeOK
  <2>4. WaitsForYounger'
    BY <1>1, <1>4, <2>2 DEF WaitSleeps, FWWait, FWInv, SchedInv, TypeOK, WaitsForYounger
  <2>5. /\ child_pid' \in [Slots -> 0 .. PROCESS_COUNT_MAX]
        /\ \A q \in Slots : child_pid'[q] # 0 => child_pid'[q] = child_pid[q]
    <3>1. 0 \in 0 .. PROCESS_COUNT_MAX
      BY SlotCountAssumption
    <3> QED
      BY <3>1 DEF FWWait, FWInv
  <2>6. ASSUME NEW q \in Slots, child_pid'[q] # 0
        PROVE  state'[q] # "UNUSED" /\ (state'[child_pid'[q] - 1] # "UNUSED" => child_pid'[q] - 1 \in younger'[q])
    <3>1. child_pid[q] - 1 \in Slots
      BY <2>5, <2>6, SlotCountAssumption DEF FWInv, Slots
    <3> QED
      BY <2>3, <2>5, <2>6, <3>1 DEF FWWait, FWInv
  <2>7. state'[Shell] # "UNUSED"
    BY <2>3, ShellIsSlot DEF FWWait, Running, FWInv
  <2>8. \A q \in Slots : \A r \in younger'[q] : state'[q] # "UNUSED" /\ state'[r] # "UNUSED"
    BY <2>3 DEF FWWait, FWInv
  <2> QED
    BY <1>2, <2>4, <2>5, <2>6, <2>7, <2>8 DEF FWWait, FWInv
<1> QED
  BY <1>3, <1>4 DEF FWWait

\* Every step of these programs keeps younger an order and waits inside it.
LEMMA FWNextInv == FWInv /\ [FWNext]_forkWaitVars => FWInv'
<1> SUFFICES ASSUME FWInv, [FWNext]_forkWaitVars PROVE FWInv'
  OBVIOUS
<1>1. SchedInv'
  BY FWStepIsStep, NextInv DEF FWInv
<1>2. CASE FWBoot
  BY <1>2, FWBootInv
<1>3. CASE \E child \in Slots : FWFork(child)
  BY <1>3, FWForkInv
<1>4. CASE FWForkFull \/ (FWExecFails /\ ExecRefused)
  <2>1. Running /\ UNCHANGED schedVars
    BY <1>4 DEF FWForkFull, ForkFull, FWExecFails, ExecRefused
  <2> QED
    BY <1>1, <1>4, <2>1, FWForgetInv DEF FWForkFull, FWExecFails, schedVars, Running
<1>5. CASE (FWExec \/ FWExecFails) /\ \E image \in Slots : ExecStaged(image)
  <2> PICK image \in Slots : ExecStaged(image)
    BY <1>5
  <2>1. state[image] = "UNUSED"
    BY DEF ExecStaged, FirstUnused, UnusedSlots
  <2>2. \A q \in Slots : state[q] = "SLEEPING" => wait_pid'[q] = wait_pid[q]
    BY <2>1 DEF ExecStaged, FWInv, SchedInv, TypeOK
  <2>3. Running /\ state' = state /\ status' \in {"running", "panic"}
    BY DEF ExecStaged, Running
  <2> QED
    BY <1>1, <1>5, <2>2, <2>3, FWForgetInv DEF FWExec, FWExecFails
<1>6. CASE FWExit
  BY <1>6, FWExitInv
<1>7. CASE FWWait
  BY <1>7, FWWaitInv
<1>8. CASE FWYield \/ FWTimer
  <2>1. Running /\ state' = state /\ wait_pid' = wait_pid /\ schedule(state, current_process)
    BY <1>8 DEF FWYield, FWTimer, Yield, handle_timer
  <2>2. status' \in {"running", "panic"}
    BY <2>1 DEF schedule, Dispatch, NoneReady
  <2> QED
    BY <1>1, <1>8, <2>1, <2>2, FWForgetInv DEF FWYield, FWTimer
<1>9. CASE UNCHANGED forkWaitVars
  BY <1>1, <1>9 DEF forkWaitVars, schedVars, FWInv, WaitsForYounger
<1> QED
  BY <1>2, <1>3, <1>4, <1>5, <1>6, <1>7, <1>8, <1>9 DEF FWNext, FWExec, FWExecFails

\* The inductive invariant of programs that wait for what fork returned.
THEOREM FWInvariance == FWSpec => []FWInv
<1>1. FWInit => FWInv
  BY FWInitInv
<1>2. FWInv /\ [FWNext]_forkWaitVars => FWInv'
  BY FWNextInv
<1> QED
  BY <1>1, <1>2, PTL DEF FWSpec

\* wait(fork()) blocks on a younger process, reused pid or not.
THEOREM WaitIsForYounger == FWSpec => []WaitsForYounger
<1>1. FWInv => WaitsForYounger
  BY DEF FWInv
<1> QED
  BY <1>1, FWInvariance, PTL

\* schedule() always finds a READY process for such programs.  Among the
\* processes in the table, some one has a least set of younger ones; if it
\* slept, it would wait for a process whose set is smaller still.
THEOREM KernelNeverPanics == FWSpec => []NeverPanics
<1>1. FWInv => NeverPanics
  <2> SUFFICES ASSUME FWInv, status = "panic" PROVE FALSE
    BY DEF NeverPanics
  <2> DEFINE Alive == {q \in Slots : state[q] # "UNUSED"}
             T == {younger[q] : q \in Alive}
             R == StrictSubsetOrdering(Slots)
  <2>1. Shell \in Alive
    BY ShellIsSlot DEF FWInv
  <2>2. \A q \in Alive : state[q] = "SLEEPING"
    BY DEF FWInv, SchedInv, PanicInv
  <2>3. FiniteSubsetsOf(Slots) = SUBSET Slots
    <3>1. IsFiniteSet(Slots)
      BY FS_Interval, SlotCountAssumption DEF Slots
    <3> QED
      BY <3>1, FS_FiniteSubsetsOfFinite
  <2>4. IsWellFoundedOn(R, SUBSET Slots)
    BY <2>3, FS_StrictSubsetOrderingWellFounded
  <2>5. T \subseteq SUBSET Slots /\ T # {}
    BY <2>1 DEF FWInv
  <2>6. \E x \in T : \A y \in T : ~ (<<y, x>> \in R)
    BY <2>4, <2>5, WFMin
  <2>7. PICK q \in Alive : \A y \in T : ~ (<<y, younger[q]>> \in R)
    BY <2>6
  <2> DEFINE r == wait_pid[q] - 1
  <2>8. r \in younger[q]
    BY <2>2 DEF FWInv, WaitsForYounger
  <2>9. r \in Alive /\ younger[r] \subseteq younger[q] /\ r \notin younger[r]
    BY <2>8 DEF FWInv
  <2>10. <<younger[r], younger[q]>> \in R
    BY <2>8, <2>9 DEF StrictSubsetOrdering, FWInv
  <2> QED
    BY <2>7, <2>9, <2>10
<1> QED
  BY <1>1, FWInvariance, PTL

-----------------------------------------------------------------------------
(***************************************************************************)
(* The registers: with the scheduler as it is proved above, every process  *)
(* has registers of its own.                                               *)
(***************************************************************************)
Window == {"chosen", "return_loaded", "registers_loaded"}

CpuStates == {"c_entry", "schedule", "user", "panic"} \cup Window

RegisterFile ==
  [pc : {"entry", "code", "dead"} \cup CpuStates,
   r0 : Int,
   rest : {"fresh", "undefined", "dead", "a", "b"}]

Context == [cpsr : {"usr", "svc"}, regs : RegisterFile]

\* Where an interrupted piece of boot code is resumed.
ResumesBoot(c) == c.cpsr = "svc" => c.regs.pc \in Window

ContextsTypeOK ==
  /\ regs \in RegisterFile
  /\ context \in [Slots -> Context]
  /\ svc_return \in Context
  /\ cpu \in CpuStates
  /\ hit \in BOOLEAN

BeforeSchedule ==
  /\ current_process = NULL
  /\ cpu = "c_entry" => /\ status \in {"boot", "halted"}
                        /\ \A q \in Slots : context[q] = InContext("usr", Dead)
  /\ cpu = "schedule" => /\ status = "boot"
                         /\ context[Shell] = InContext("usr", Fresh)

\* The first switch: only the shell is in the table.  What an interrupt saved
\* here leads back to here; without one, the registers of the shell are on
\* their way from its context to the CPU.
Switching ==
  /\ status = "running" /\ current_process = Shell
  /\ \A q \in Slots \ {Shell} : state[q] = "UNUSED"
  /\ ResumesBoot(context[Shell])
  /\ cpu # "chosen" => ResumesBoot(svc_return)
  /\ ~hit => /\ context[Shell] = InContext("usr", Fresh)
             /\ cpu # "chosen" => svc_return = InContext("usr", Fresh)
             /\ cpu = "registers_loaded" => regs.r0 = Fresh.r0 /\ regs.rest = Fresh.rest

\* User code runs: all others will be resumed as user code, and unless the
\* boot was hit, nobody in the table has dead registers.
UserCode ==
  /\ status = "running"
  /\ \A q \in Slots \ {current_process} : state[q] # "UNUSED" =>
       /\ context[q].cpsr = "usr"
       /\ ~hit => context[q].regs.pc # "dead"
  /\ ~hit => regs.pc # "dead"

\* The inductive invariant.
ContextsInv ==
  /\ SchedInv
  /\ ContextsTypeOK
  /\ cpu \in {"c_entry", "schedule"} => BeforeSchedule
  /\ InWindow => Switching
  /\ cpu = "user" => UserCode
  /\ cpu = "panic" => status = "panic"

-----------------------------------------------------------------------------
\* The register files the model names, and where their pc is.
LEMMA FileTypes ==
  /\ Fresh \in RegisterFile /\ Dead \in RegisterFile /\ Undefined \in RegisterFile
  /\ Values \subseteq RegisterFile
  /\ \A r \in RegisterFile : InContext("usr", r) \in Context /\ InContext("svc", r) \in Context
  /\ Fresh.pc = "entry" /\ Dead.pc = "dead" /\ \A r \in Values : r.pc = "code"
<1>1. /\ Fresh \in RegisterFile /\ Dead \in RegisterFile /\ Undefined \in RegisterFile
      /\ Fresh.pc = "entry" /\ Dead.pc = "dead"
  BY DEF Fresh, Dead, Undefined, Registers, RegisterFile
<1>2. \A r \in Values : r \in RegisterFile /\ r.pc = "code"
  BY DEF Values, CODE, Registers, RegisterFile
<1>3. \A r \in RegisterFile : InContext("usr", r) \in Context /\ InContext("svc", r) \in Context
  BY DEF InContext, Context
<1> QED
  BY <1>1, <1>2, <1>3

\* No slot is taken for a null current_process.
LEMMA NoSlotIsNull == NULL \notin Slots
BY SlotCountAssumption DEF NULL, Slots

\* An entry from user code saves the registers into the context of the caller.
LEMMA UserSaves ==
  ASSUME ContextsInv, cpu = "user"
  PROVE  /\ current_process \in Slots /\ state[current_process] = "READY"
         /\ save_context(context) = [context EXCEPT ![current_process] = InContext("usr", regs)]
         /\ save_context(context) \in [Slots -> Context]
<1>1. current_process \in Slots /\ state[current_process] = "READY"
  BY DEF ContextsInv, UserCode, SchedInv, RunningIsScheduled, Running
<1>2. current_process # NULL
  BY <1>1, NoSlotIsNull
<1>3. save_context(context) = [context EXCEPT ![current_process] = InContext("usr", regs)]
  BY <1>2 DEF save_context
<1>4. InContext("usr", regs) \in Context
  BY FileTypes DEF ContextsInv, ContextsTypeOK
<1> QED
  BY <1>1, <1>3, <1>4 DEF ContextsInv, ContextsTypeOK

\* A handler that ends in schedule resumes user code, or panics; each process
\* then has the registers that are in its context.
LEMMA ResumeUser ==
  ASSUME ContextsInv, SchedInv', status' \in {"running", "panic"},
         context' \in [Slots -> Context], svc_return' \in Context, hit' = hit,
         \A q \in Slots : state'[q] # "UNUSED" =>
           context'[q].cpsr = "usr" /\ (~hit => context'[q].regs.pc # "dead"),
         Resume
  PROVE  /\ ContextsInv'
         /\ machine' = [q \in Slots |-> IF state'[q] = "UNUSED" THEN Dead ELSE context'[q].regs]
<1>1. CASE status' = "panic"
  <2>1. cpu' = "panic" /\ regs' = regs
    BY <1>1 DEF Resume
  <2>2. ContextsInv'
    BY <1>1, <2>1 DEF ContextsInv, ContextsTypeOK, CpuStates, InWindow
  <2> QED
    BY <2>1, <2>2 DEF machine
<1>2. CASE status' = "running"
  <2>1. current_process' \in Slots /\ state'[current_process'] = "READY"
    BY <1>2 DEF SchedInv, RunningIsScheduled, Running
  <2>2. cpu' = "user" /\ regs' = context'[current_process'].regs
    BY <1>2, <2>1 DEF Resume, switch_to_context
  <2>3. regs' \in RegisterFile /\ (~hit => regs'.pc # "dead")
    BY <2>1, <2>2 DEF Context
  <2>4. ContextsInv'
    BY <1>2, <2>2, <2>3 DEF ContextsInv, ContextsTypeOK, CpuStates, UserCode, InWindow
  <2> QED
    BY <2>1, <2>2, <2>4 DEF machine
<1> QED
  BY <1>1, <1>2

-----------------------------------------------------------------------------
(***************************************************************************)
(* The steps of the boot code.                                             *)
(***************************************************************************)
LEMMA ContextsInvInit == CInit => ContextsInv /\ Own!MInit
<1> SUFFICES ASSUME CInit PROVE ContextsInv /\ Own!MInit
  OBVIOUS
<1>1. SchedInv
  BY InitInv DEF CInit
<1>2. ContextsTypeOK
  BY FileTypes DEF CInit, ContextsTypeOK, CpuStates
<1>3. BeforeSchedule
  BY DEF CInit, Init, BeforeSchedule
<1>4. Own!MInit
  BY DEF CInit, Init, machine, Own!MInit
<1> QED
  BY <1>1, <1>2, <1>3, <1>4 DEF CInit, ContextsInv, InWindow

\* A slot that is UNUSED has dead registers, so a step that keeps the table and
\* the contexts of the slots in use keeps the machines of waiting processes.
LEMMA LoadShellSteps ==
  ASSUME ContextsInv, LoadShell, hit' = hit
  PROVE  ContextsInv' /\ machine' = machine
<1>1. SchedInv'
  BY StutterInv DEF ContextsInv, LoadShell
<1>2. \A q \in Slots : state[q] = "UNUSED" /\ state'[q] = "UNUSED"
  BY DEF LoadShell, ContextsInv, SchedInv, BootInv, schedVars
<1>3. ContextsTypeOK'
  BY FileTypes, ShellIsSlot DEF LoadShell, ContextsInv, ContextsTypeOK, CpuStates
<1>4. BeforeSchedule'
  BY ShellIsSlot DEF LoadShell, ContextsInv, ContextsTypeOK, BeforeSchedule, schedVars
<1>5. machine' = machine
  BY <1>2 DEF machine
<1> QED
  BY <1>1, <1>3, <1>4, <1>5 DEF LoadShell, ContextsInv, InWindow

\* A boot that fails starts no process.
LEMMA BootFailsSteps ==
  ASSUME ContextsInv, BootFails, hit' = hit
  PROVE  ContextsInv' /\ machine' = machine
<1>1. SchedInv'
  BY BootFailsInv DEF ContextsInv, BootFails
<1>2. /\ \A q \in Slots : state[q] = "UNUSED"
      /\ current_process' = current_process /\ status' = "halted"
  BY DEF BootFails, BootNoDisk, BootNoShell, ContextsInv, SchedInv, BootInv
<1>3. BeforeSchedule'
  BY <1>2 DEF BootFails, contextVars, ContextsInv, BeforeSchedule
<1>4. ContextsInv'
  BY <1>1, <1>3 DEF BootFails, contextVars, ContextsInv, ContextsTypeOK, CpuStates, InWindow
<1>5. \A q \in Slots : context'[q].regs = Dead
  BY <1>3 DEF BootFails, contextVars, BeforeSchedule, InContext
<1>6. machine' = [q \in Slots |-> Dead]
  BY <1>3, <1>5, NoSlotIsNull DEF machine, BeforeSchedule
<1>7. machine = [q \in Slots |-> Dead]
  BY <1>2 DEF machine
<1> QED
  BY <1>4, <1>6, <1>7

\* BootOk leaves the shell as the only process, and schedule finds it.
LEMMA BootOkResult ==
  ASSUME SchedInv, BootOk
  PROVE  /\ SchedInv'
         /\ status' = "running" /\ current_process' = Shell
         /\ \A q \in Slots : state[q] = "UNUSED"
         /\ state'[Shell] = "READY"
         /\ \A q \in Slots \ {Shell} : state'[q] = "UNUSED"
<1>1. SchedInv'
  BY BootOkInv
<1>2. \A q \in Slots : state[q] = "UNUSED"
  BY DEF BootOk, SchedInv, BootInv
<1>3. state'[Shell] = "READY" /\ \A q \in Slots \ {Shell} : state'[q] = "UNUSED"
  BY <1>2, ShellIsSlot DEF BootOk, SchedInv, TypeOK
<1>4. status' \in {"running", "panic"}
  BY DEF BootOk, schedule, Dispatch, NoneReady
<1>5. status' # "panic"
  BY <1>1, <1>3, ShellIsSlot DEF SchedInv, PanicInv
<1>6. current_process' = Shell
  BY <1>1, <1>3, <1>4, <1>5 DEF SchedInv, RunningIsScheduled, Running
<1> QED
  BY <1>1, <1>2, <1>3, <1>4, <1>5, <1>6

\* The step in which the shell enters the table starts its machine.
LEMMA ShellEnters ==
  ASSUME SchedInv, BootOk, machine' = [q \in Slots |-> IF q = Shell THEN Fresh ELSE Dead]
  PROVE  Own!MNext
<1>1. machine = [q \in Slots |-> Dead]
  BY BootOkResult DEF machine
<1>2. machine' = [machine EXCEPT ![0] = Fresh]
  BY <1>1, ShellIsSlot DEF Shell
<1>3. Own!Start
  BY <1>1, <1>2 DEF Own!Start, Own!Alive
<1> QED
  BY <1>3 DEF Own!MNext

\* schedule()'s choice of the shell creates its machine.
LEMMA ChooseShellSteps ==
  ASSUME ContextsInv, ChooseShell, hit' = hit
  PROVE  ContextsInv' /\ Own!MNext
<1>1. /\ SchedInv'
      /\ status' = "running" /\ current_process' = Shell
      /\ state'[Shell] = "READY"
      /\ \A q \in Slots \ {Shell} : state'[q] = "UNUSED"
  BY BootOkResult DEF ChooseShell, ContextsInv
<1>2. context[Shell] = InContext("usr", Fresh)
  BY DEF ChooseShell, ContextsInv, BeforeSchedule
<1>3. ResumesBoot(context[Shell])
  BY <1>2 DEF ResumesBoot, InContext
<1>4. Switching'
  BY <1>1, <1>2, <1>3 DEF ChooseShell, Switching, ResumesBoot
<1>5. ContextsInv'
  BY <1>1, <1>4 DEF ChooseShell, ContextsInv, ContextsTypeOK, CpuStates, InWindow, Window
<1>6. machine' = [q \in Slots |-> IF q = Shell THEN Fresh ELSE Dead]
  BY <1>1, <1>2 DEF ChooseShell, machine, InContext
<1> QED
  BY <1>5, <1>6, ShellEnters DEF ChooseShell, ContextsInv

\* The timer starts the shell itself: the same step of the machines.
LEMMA TimerStartsShellSteps ==
  ASSUME ContextsInv, TimerStartsShell, hit' = hit
  PROVE  ContextsInv' /\ Own!MNext
<1>1. /\ SchedInv'
      /\ status' = "running" /\ current_process' = Shell
      /\ state'[Shell] = "READY"
      /\ \A q \in Slots \ {Shell} : state'[q] = "UNUSED"
  BY BootOkResult DEF TimerStartsShell, ContextsInv
<1>2. context' = context /\ context[Shell] = InContext("usr", Fresh)
  BY DEF TimerStartsShell, save_context, ContextsInv, BeforeSchedule
<1>3. \A q \in Slots : state'[q] # "UNUSED" =>
        context'[q].cpsr = "usr" /\ (~hit => context'[q].regs.pc # "dead")
  BY <1>1, <1>2, FileTypes DEF InContext
<1>4. /\ ContextsInv'
      /\ machine' = [q \in Slots |-> IF state'[q] = "UNUSED" THEN Dead ELSE context'[q].regs]
  BY <1>1, <1>2, <1>3, ResumeUser DEF TimerStartsShell, ContextsInv, ContextsTypeOK
<1>5. machine' = [q \in Slots |-> IF q = Shell THEN Fresh ELSE Dead]
  BY <1>1, <1>2, <1>4 DEF InContext
<1> QED
  BY <1>4, <1>5, ShellEnters DEF TimerStartsShell, ContextsInv

\* The three instructions of the first switch.
LEMMA SwitchSteps ==
  ASSUME ContextsInv, LoadReturn \/ LoadRegisters \/ StartShell, hit' = hit
  PROVE  ContextsInv' /\ (hit \/ machine' = machine)
<1>1. InWindow /\ Switching /\ UNCHANGED schedVars /\ context' = context
  BY DEF LoadReturn, LoadRegisters, StartShell, InWindow, ContextsInv
<1>2. SchedInv'
  BY <1>1, StutterInv DEF ContextsInv
<1>3. /\ state' = state /\ current_process' = current_process /\ status' = status
      /\ context[Shell] \in Context /\ svc_return \in Context /\ regs \in RegisterFile
  BY <1>1, ShellIsSlot DEF schedVars, ContextsInv, ContextsTypeOK
<1>4. CASE LoadReturn
  <2>1. ContextsTypeOK'
    BY <1>3, <1>4, <1>1 DEF LoadReturn, ContextsInv, ContextsTypeOK, CpuStates, Window
  <2>2. Switching'
    BY <1>1, <1>3, <1>4 DEF LoadReturn, Switching, ResumesBoot
  <2>3. ContextsInv'
    BY <1>2, <1>4, <2>1, <2>2 DEF LoadReturn, ContextsInv
  <2> QED
    BY <1>1, <1>3, <1>4, <2>3 DEF LoadReturn, machine
<1>5. CASE LoadRegisters
  <2>1. regs' \in RegisterFile /\ regs'.r0 = context[Shell].regs.r0
                               /\ regs'.rest = context[Shell].regs.rest
    BY <1>3, <1>5 DEF LoadRegisters, Context, RegisterFile
  <2>2. ContextsTypeOK'
    BY <1>1, <1>5, <2>1 DEF LoadRegisters, ContextsInv, ContextsTypeOK, CpuStates, Window
  <2>3. Switching'
    BY <1>1, <1>3, <1>5, <2>1 DEF LoadRegisters, Switching, ResumesBoot, InContext
  <2>4. ContextsInv'
    BY <1>2, <1>5, <2>2, <2>3 DEF LoadRegisters, ContextsInv
  <2> QED
    BY <1>1, <1>3, <1>5, <2>4 DEF LoadRegisters, machine
<1>6. CASE StartShell
  <2> DEFINE c == [svc_return EXCEPT !.regs.r0 = regs.r0, !.regs.rest = regs.rest]
  <2>1. /\ c \in Context /\ c.cpsr = svc_return.cpsr /\ c.regs.pc = svc_return.regs.pc
        /\ c.regs.r0 = regs.r0 /\ c.regs.rest = regs.rest
    BY <1>3 DEF Context, RegisterFile
  <2>2. switch_to_context(c) /\ svc_return' = svc_return /\ cpu = "registers_loaded"
    BY <1>6 DEF StartShell
  <2> HIDE DEF c
  <2>3. CASE svc_return.cpsr = "svc"
    <3>1. cpu' = svc_return.regs.pc /\ svc_return.regs.pc \in Window /\ hit
      BY <1>1, <2>1, <2>2, <2>3 DEF switch_to_context, Switching, ResumesBoot, InContext
    <3>2. regs' \in RegisterFile
      BY <1>3, <2>1, <2>2, <2>3 DEF switch_to_context, Context, RegisterFile
    <3>3. Switching'
      BY <1>1, <1>3, <2>2, <3>1 DEF Switching, ResumesBoot
    <3> QED
      BY <1>1, <1>2, <2>2, <3>1, <3>2, <3>3 DEF ContextsInv, ContextsTypeOK, CpuStates, Window
  <2>4. CASE svc_return.cpsr = "usr"
    <3>1. cpu' = "user" /\ regs' = c.regs
      BY <2>1, <2>2, <2>4 DEF switch_to_context
    <3>2. regs' \in RegisterFile
      BY <2>1, <3>1 DEF Context
    <3>3. ~hit => regs' = Fresh
      BY <1>1, <2>1, <2>2, <3>1 DEF Switching, InContext, Fresh, Registers, Context, RegisterFile
    <3>4. UserCode'
      BY <1>1, <1>3, <3>3, FileTypes DEF Switching, UserCode
    <3>5. ContextsInv'
      BY <1>1, <1>2, <2>2, <3>1, <3>2, <3>4 DEF ContextsInv, ContextsTypeOK, CpuStates, InWindow
    <3>6. ~hit => machine' = machine
      BY <1>1, <1>3, <2>2, <3>1, <3>3 DEF machine, Switching, InContext
    <3> QED
      BY <3>5, <3>6 DEF ContextsInv, ContextsTypeOK
  <2> QED
    BY <1>3, <2>3, <2>4 DEF Context
<1> QED
  BY <1>4, <1>5, <1>6

-----------------------------------------------------------------------------
(***************************************************************************)
(* Interrupts.                                                             *)
(***************************************************************************)
\* An entry from user code that saves the context and schedules changes no
\* machine: everyone in the table has its registers in its context then.
LEMMA UserReschedules ==
  ASSUME ContextsInv, cpu = "user", SchedInv', status' \in {"running", "panic"},
         \A q \in Slots : state'[q] = "UNUSED" <=> state[q] = "UNUSED",
         context' = save_context(context), Resume, svc_return' = svc_return, hit' = hit
  PROVE  ContextsInv' /\ machine' = machine
<1>1. /\ current_process \in Slots /\ state[current_process] = "READY"
      /\ context' = [context EXCEPT ![current_process] = InContext("usr", regs)]
      /\ context' \in [Slots -> Context]
  BY UserSaves
<1>2. \A q \in Slots : context'[q] = IF q = current_process THEN InContext("usr", regs)
                                     ELSE context[q]
  BY <1>1 DEF ContextsInv, ContextsTypeOK
<1>3. \A q \in Slots : state'[q] # "UNUSED" =>
        context'[q].cpsr = "usr" /\ (~hit => context'[q].regs.pc # "dead")
  BY <1>2 DEF ContextsInv, UserCode, InContext
<1>4. /\ ContextsInv'
      /\ machine' = [q \in Slots |-> IF state'[q] = "UNUSED" THEN Dead ELSE context'[q].regs]
  BY <1>1, <1>3, ResumeUser DEF ContextsInv, ContextsTypeOK
<1>5. machine = [q \in Slots |-> IF state[q] = "UNUSED" THEN Dead
                                 ELSE IF q = current_process THEN regs ELSE context[q].regs]
  BY DEF machine
<1> QED
  BY <1>2, <1>4, <1>5 DEF InContext

\* In the window, an interrupt saves the boot code's registers over the shell's.
LEMMA WindowSaves ==
  ASSUME ContextsInv, InWindow
  PROVE  LET saved == InContext("svc", [regs EXCEPT !.pc = cpu])
         IN  /\ save_context(context) = [context EXCEPT ![Shell] = saved]
             /\ save_context(context) \in [Slots -> Context]
             /\ saved \in Context /\ saved.cpsr = "svc" /\ saved.regs.pc = cpu
<1> DEFINE saved == InContext("svc", [regs EXCEPT !.pc = cpu])
<1>1. current_process = Shell /\ current_process # NULL /\ cpu # "user"
  BY ShellIsSlot, NoSlotIsNull DEF ContextsInv, Switching, InWindow
<1>2. saved \in Context /\ saved.cpsr = "svc" /\ saved.regs.pc = cpu
  BY DEF InContext, Context, RegisterFile, ContextsInv, ContextsTypeOK
<1>3. save_context(context) = [context EXCEPT ![Shell] = saved]
  BY <1>1 DEF save_context
<1> HIDE DEF saved
<1>4. save_context(context) \in [Slots -> Context]
  BY <1>2, <1>3 DEF ContextsInv, ContextsTypeOK
<1> QED
  BY <1>2, <1>3, <1>4 DEF saved

\* A byte for the console: the handler returns to what was interrupted.
LEMMA UartSteps ==
  ASSUME ContextsInv, UartInterrupt, hit' = (hit \/ InWindow)
  PROVE  ContextsInv' /\ (hit' \/ machine' = machine)
<1>1. SchedInv'
  BY StutterInv DEF UartInterrupt, ContextsInv
<1>2. /\ state' = state /\ current_process' = current_process /\ status' = status
      /\ regs' = regs /\ cpu' = cpu /\ svc_return' = svc_return
      /\ context' = save_context(context) /\ cpu # "panic"
  BY DEF UartInterrupt, schedVars
<1>3. CASE cpu = "user"
  <2>1. /\ current_process \in Slots /\ context' \in [Slots -> Context]
        /\ context' = [context EXCEPT ![current_process] = InContext("usr", regs)]
    BY <1>2, <1>3, UserSaves
  <2>2. hit' = hit
    BY <1>3 DEF InWindow, ContextsInv, ContextsTypeOK
  <2>3. \A q \in Slots \ {current_process} : context'[q] = context[q]
    BY <2>1 DEF ContextsInv, ContextsTypeOK
  <2>4. ContextsInv'
    BY <1>1, <1>2, <1>3, <2>1, <2>2, <2>3 DEF ContextsInv, ContextsTypeOK, InWindow, UserCode
  <2>5. machine' = machine
    BY <1>2, <1>3, <2>3 DEF machine
  <2> QED
    BY <2>4, <2>5
<1>4. CASE InWindow
  <2>1. /\ context' \in [Slots -> Context] /\ ResumesBoot(context'[Shell])
    BY <1>2, <1>4, WindowSaves, ShellIsSlot DEF ResumesBoot, InWindow, Window, ContextsInv, ContextsTypeOK
  <2>2. hit'
    BY <1>4
  <2>3. Switching'
    BY <1>2, <1>4, <2>1, <2>2 DEF ContextsInv, Switching, ResumesBoot
  <2> QED
    BY <1>1, <1>2, <1>4, <2>1, <2>2, <2>3 DEF ContextsInv, ContextsTypeOK, InWindow
<1>5. CASE cpu \in {"c_entry", "schedule"}
  <2>1. context' = context /\ hit' = hit /\ ~InWindow
    BY <1>2, <1>5 DEF save_context, ContextsInv, ContextsTypeOK, BeforeSchedule, InWindow
  <2>2. ContextsInv'
    BY <1>1, <1>2, <1>5, <2>1 DEF ContextsInv, ContextsTypeOK, BeforeSchedule, InWindow
  <2> QED
    BY <1>2, <2>1, <2>2 DEF machine
<1> QED
  BY <1>2, <1>3, <1>4, <1>5 DEF ContextsInv, ContextsTypeOK, CpuStates, Window, InWindow

\* schedule, called by the timer, finds somebody: the interrupted process is READY.
LEMMA TimerFinds ==
  ASSUME SchedInv, handle_timer
  PROVE  /\ SchedInv' /\ status' = "running" /\ state' = state
         /\ current_process \in Slots /\ state[current_process] = "READY"
<1>1. SchedInv'
  BY RescheduleInv DEF handle_timer
<1>2. current_process \in Slots /\ state[current_process] = "READY" /\ state' = state
  BY DEF handle_timer, SchedInv, RunningIsScheduled
<1>3. status' \in {"running", "panic"}
  BY DEF handle_timer, schedule, Dispatch, NoneReady
<1>4. status' # "panic"
  BY <1>1, <1>2 DEF SchedInv, PanicInv
<1> QED
  BY <1>1, <1>2, <1>3, <1>4

\* A timer interrupt changes the registers of no process.
LEMMA TimerSteps ==
  ASSUME ContextsInv, TimerInterrupt, hit' = (hit \/ InWindow)
  PROVE  ContextsInv' /\ (hit' \/ machine' = machine)
<1>1. /\ SchedInv' /\ status' = "running" /\ state' = state
      /\ context' = save_context(context) /\ svc_return' = svc_return /\ Resume
  BY TimerFinds DEF TimerInterrupt, ContextsInv
<1>2. CASE cpu = "user"
  <2>1. hit' = hit
    BY <1>2 DEF InWindow, ContextsInv, ContextsTypeOK
  <2> QED
    BY <1>1, <1>2, <2>1, UserReschedules
<1>3. CASE InWindow
  <2> DEFINE saved == InContext("svc", [regs EXCEPT !.pc = cpu])
  <2>1. /\ context' = [context EXCEPT ![Shell] = saved] /\ context' \in [Slots -> Context]
        /\ saved \in Context /\ saved.cpsr = "svc" /\ saved.regs.pc = cpu
    BY <1>1, <1>3, WindowSaves
  <2> HIDE DEF saved
  <2>2. current_process' = Shell
    BY <1>1, <1>3 DEF ContextsInv, Switching, SchedInv, RunningIsScheduled, Running
  <2>3. context'[Shell] = saved
    BY <2>1, ShellIsSlot DEF ContextsInv, ContextsTypeOK
  <2>4. cpu' = cpu /\ regs' = [saved.regs EXCEPT !.pc = regs.pc]
    BY <1>1, <2>1, <2>2, <2>3 DEF Resume, switch_to_context
  <2>5. regs' \in RegisterFile
    BY <2>1, <2>4 DEF Context, RegisterFile, ContextsInv, ContextsTypeOK
  <2>6. hit' /\ ResumesBoot(context'[Shell])
    BY <1>3, <2>1, <2>3 DEF ResumesBoot, InWindow, Window
  <2>7. Switching'
    BY <1>1, <1>3, <2>2, <2>4, <2>6 DEF ContextsInv, Switching, ResumesBoot
  <2> QED
    BY <1>1, <1>3, <2>1, <2>4, <2>5, <2>6, <2>7 DEF ContextsInv, ContextsTypeOK, InWindow
<1> QED
  BY <1>2, <1>3 DEF TimerInterrupt

-----------------------------------------------------------------------------
(***************************************************************************)
(* User code and system calls.                                             *)
(***************************************************************************)
\* The machine of the process that runs is in the CPU, and it is alive.
LEMMA CurrentMachine ==
  ASSUME ContextsInv, cpu = "user"
  PROVE  /\ current_process \in Slots /\ state[current_process] = "READY"
         /\ machine[current_process] = regs
         /\ ~hit => Own!Alive(current_process)
<1>1. current_process \in Slots /\ state[current_process] = "READY"
  BY UserSaves
<1>2. machine[current_process] = regs
  BY <1>1 DEF machine
<1>3. ~hit => regs # Dead
  BY FileTypes DEF ContextsInv, UserCode
<1> QED
  BY <1>1, <1>2, <1>3 DEF Own!Alive

\* A step of user code, or a call that returns to its caller, changes at most
\* the caller's registers and its context.
LEMMA UserContinues ==
  ASSUME ContextsInv, cpu = "user", cpu' = "user", SchedInv',
         state' = state, current_process' = current_process, status' = status,
         context' \in [Slots -> Context], svc_return' = svc_return, hit' = hit,
         \A q \in Slots \ {current_process} : context'[q] = context[q],
         regs' \in RegisterFile, ~hit => regs'.pc # "dead"
  PROVE  ContextsInv' /\ machine' = [machine EXCEPT ![current_process] = regs']
<1>1. ContextsInv'
  BY DEF ContextsInv, ContextsTypeOK, InWindow, UserCode
<1>2. current_process \in Slots /\ state[current_process] = "READY"
  BY UserSaves
<1>3. machine' = [machine EXCEPT ![current_process] = regs']
  BY <1>2 DEF machine
<1> QED
  BY <1>1, <1>3

\* User code changes the registers of the current process only.
LEMMA ComputeSteps ==
  ASSUME ContextsInv, ComputeStep, hit' = hit
  PROVE  ContextsInv' /\ (hit' \/ Own!MNext)
<1>1. SchedInv'
  BY StutterInv DEF ComputeStep, ContextsInv
<1>2. regs' \in RegisterFile /\ regs' \in Values /\ regs'.pc # "dead"
  BY FileTypes DEF ComputeStep
<1>3. ContextsInv' /\ machine' = [machine EXCEPT ![current_process] = regs']
  BY <1>1, <1>2, UserContinues DEF ComputeStep, schedVars, ContextsInv, ContextsTypeOK
<1>4. current_process \in Slots /\ (~hit => Own!Alive(current_process))
  BY CurrentMachine DEF ComputeStep
<1>5. ~hit => Own!Compute(current_process)
  BY <1>2, <1>3, <1>4 DEF Own!Compute
<1> QED
  BY <1>3, <1>4, <1>5 DEF Own!MNext, ContextsInv, ContextsTypeOK

\* A call that returns a number leaves it in the caller's r0.
LEMMA ReturnSteps ==
  ASSUME ContextsInv, cpu = "user", SchedInv', hit' = hit,
         state' = state, current_process' = current_process, status' = status,
         NEW result \in Results \cup {Pid(current_process)}, Returns(result)
  PROVE  ContextsInv' /\ (hit' \/ Own!MNext)
<1>1. /\ current_process \in Slots
      /\ machine[current_process] = regs /\ (~hit => Own!Alive(current_process))
  BY CurrentMachine
<1>2. /\ context' = [context EXCEPT ![current_process] = InContext("usr", regs)]
      /\ context' \in [Slots -> Context]
      /\ regs' = [regs EXCEPT !.r0 = result] /\ cpu' = "user" /\ svc_return' = svc_return
  BY UserSaves DEF Returns
<1>3. result \in Int
  BY <1>1 DEF Results, KEY, Pid, Slots
<1>4. regs' \in RegisterFile /\ regs'.pc = regs.pc
  BY <1>2, <1>3 DEF RegisterFile, ContextsInv, ContextsTypeOK
<1>5. \A q \in Slots \ {current_process} : context'[q] = context[q]
  BY <1>2 DEF ContextsInv, ContextsTypeOK
<1>6. ContextsInv' /\ machine' = [machine EXCEPT ![current_process] = regs']
  BY <1>2, <1>4, <1>5, UserContinues DEF ContextsInv, UserCode
<1>7. machine' = [machine EXCEPT ![current_process].r0 = result]
  BY <1>1, <1>2, <1>6
<1>8. ~hit => Own!Return(current_process, result)
  BY <1>1, <1>7 DEF Own!Return
<1>9. result \in Results \cup {current_process + 1}
  BY DEF Pid
<1> QED
  BY <1>1, <1>6, <1>8, <1>9 DEF Own!MNext, ContextsInv, ContextsTypeOK

\* fork: the child's context is the one this call has just saved, with 0 in r0.
LEMMA ForkSteps ==
  ASSUME ContextsInv, cpu = "user", hit' = hit, NEW child \in Slots, ForkOk(child),
         context' = [save_context(context) EXCEPT
                        ![child] = ChildContext(context[current_process])],
         regs' = [regs EXCEPT !.r0 = Pid(child)], cpu' = cpu, svc_return' = svc_return
  PROVE  ContextsInv' /\ (hit' \/ Own!MNext)
<1>1. /\ current_process \in Slots /\ state[current_process] = "READY"
      /\ machine[current_process] = regs /\ (~hit => Own!Alive(current_process))
  BY CurrentMachine
<1>2. state[child] = "UNUSED" /\ child # current_process
  BY <1>1 DEF ForkOk, FirstUnused, UnusedSlots
<1>3. SchedInv'
  BY ForkInv DEF ContextsInv
<1>4. /\ current_process' = current_process /\ status' = status
      /\ \A q \in Slots : state'[q] = IF q = child THEN "READY" ELSE state[q]
  BY DEF ForkOk, ContextsInv, SchedInv, TypeOK
<1> DEFINE copy == [regs EXCEPT !.r0 = 0]
<1>5. regs \in RegisterFile /\ copy \in RegisterFile /\ copy.pc = regs.pc
  BY DEF RegisterFile, ContextsInv, ContextsTypeOK
<1>6. ChildContext(context[current_process]) = InContext("usr", copy)
  <2>1. save_context(context)[current_process] = InContext("usr", regs)
    BY <1>1, UserSaves DEF ContextsInv, ContextsTypeOK
  <2> QED
    BY <2>1 DEF ChildContext, InContext
<1> HIDE DEF copy
<1>7. /\ context' \in [Slots -> Context]
      /\ context'[child] = InContext("usr", copy)
      /\ \A q \in Slots \ {child, current_process} : context'[q] = context[q]
  BY <1>1, <1>2, <1>5, <1>6, UserSaves, FileTypes DEF ContextsInv, ContextsTypeOK
<1>8. regs' \in RegisterFile /\ regs'.pc = regs.pc
  BY <1>5 DEF RegisterFile, Pid, Slots
<1>9. UserCode'
  BY <1>4, <1>5, <1>7, <1>8 DEF ContextsInv, UserCode, InContext
<1>10. ContextsInv'
  BY <1>3, <1>7, <1>8, <1>9 DEF ContextsInv, ContextsTypeOK, InWindow
<1>11. \A q \in Slots : machine'[q] = IF q = current_process THEN regs'
                                      ELSE IF q = child THEN copy ELSE machine[q]
  BY <1>1, <1>2, <1>4, <1>7 DEF machine, InContext
<1>12. machine' = [machine EXCEPT ![current_process].r0 = child + 1,
                                  ![child] = [machine[current_process] EXCEPT !.r0 = 0]]
  <2>1. machine \in [Slots -> {machine[q] : q \in Slots}] /\ machine' = [q \in Slots |-> machine'[q]]
    BY DEF machine
  <2> QED
    BY <1>1, <1>2, <1>11, <2>1 DEF copy, Pid
<1>13. ~Own!Alive(child)
  BY <1>2 DEF Own!Alive, machine
<1>14. ~hit => Own!Fork(current_process, child)
  BY <1>1, <1>12, <1>13 DEF Own!Fork
<1> QED
  BY <1>1, <1>10, <1>14 DEF Own!MNext, ContextsInv, ContextsTypeOK

\* exec of an image that loads: fresh registers.
LEMMA ExecSteps ==
  ASSUME ContextsInv, cpu = "user", hit' = hit, NEW image \in Slots, ExecStaged(image),
         context' = [context EXCEPT ![current_process] = InContext("usr", Fresh)],
         switch_to_context(context'[current_process]), svc_return' = svc_return
  PROVE  ContextsInv' /\ (hit' \/ Own!MNext)
<1>1. current_process \in Slots /\ (~hit => Own!Alive(current_process))
  BY CurrentMachine
<1>2. SchedInv'
  BY ExecInv DEF ContextsInv
<1>3. state' = state /\ current_process' = current_process /\ status' = status
  BY DEF ExecStaged
<1>4. /\ context' \in [Slots -> Context] /\ context'[current_process] = InContext("usr", Fresh)
      /\ \A q \in Slots \ {current_process} : context'[q] = context[q]
  BY <1>1, FileTypes DEF ContextsInv, ContextsTypeOK
<1>5. regs' = Fresh /\ cpu' = "user"
  BY <1>4 DEF switch_to_context, InContext
<1>6. ContextsInv' /\ machine' = [machine EXCEPT ![current_process] = Fresh]
  BY <1>2, <1>3, <1>4, <1>5, FileTypes, UserContinues
<1>7. ~hit => Own!Load(current_process)
  BY <1>1, <1>6 DEF Own!Load
<1> QED
  BY <1>1, <1>6, <1>7 DEF Own!MNext, ContextsInv, ContextsTypeOK

\* exit: the machine ends, and the next one gets the CPU, if there is one.
LEMMA ExitSteps ==
  ASSUME ContextsInv, cpu = "user", hit' = hit, syscall_exit
  PROVE  ContextsInv' /\ (hit' \/ Own!MNext)
<1>1. /\ current_process \in Slots /\ state[current_process] = "READY"
      /\ ~hit => Own!Alive(current_process)
  BY CurrentMachine
<1>2. SchedInv'
  BY ExitInv DEF syscall_exit, ContextsInv
<1>3. status' \in {"running", "panic"}
  BY DEF syscall_exit, Exit, schedule, Dispatch, NoneReady
<1>4. \A q \in Slots : state'[q] = "UNUSED" <=> q = current_process \/ state[q] = "UNUSED"
  BY <1>1 DEF syscall_exit, Exit, Woken
<1>5. /\ context' \in [Slots -> Context]
      /\ \A q \in Slots \ {current_process} : context'[q] = context[q]
  BY FileTypes DEF syscall_exit, ContextsInv, ContextsTypeOK
<1>6. \A q \in Slots : state'[q] # "UNUSED" =>
        context'[q].cpsr = "usr" /\ (~hit => context'[q].regs.pc # "dead")
  BY <1>4, <1>5 DEF ContextsInv, UserCode
<1>7. /\ ContextsInv'
      /\ machine' = [q \in Slots |-> IF state'[q] = "UNUSED" THEN Dead ELSE context'[q].regs]
  BY <1>2, <1>3, <1>5, <1>6, ResumeUser DEF syscall_exit, ContextsInv, ContextsTypeOK
<1>8. machine' = [machine EXCEPT ![current_process] = Dead]
  BY <1>1, <1>4, <1>5, <1>7 DEF machine
<1>9. ~hit => Own!End(current_process)
  BY <1>1, <1>8 DEF Own!End
<1> QED
  BY <1>1, <1>7, <1>9 DEF Own!MNext, ContextsInv, ContextsTypeOK

\* wait for a process in the table, and yield: the caller is resumed later.
LEMMA BlockingSteps ==
  ASSUME ContextsInv, cpu = "user", hit' = hit,
         context' = save_context(context), Resume, svc_return' = svc_return,
         Yield \/ \E pid \in WaitArgs : WaitSleeps(pid)
  PROVE  ContextsInv' /\ machine' = machine
<1>1. SchedInv'
  BY WaitInv, RescheduleInv DEF Yield, ContextsInv
<1>2. status' \in {"running", "panic"}
  BY DEF Yield, WaitSleeps, schedule, Dispatch, NoneReady
<1>3. current_process \in Slots /\ state[current_process] = "READY"
  BY CurrentMachine
<1>4. \A q \in Slots : state'[q] = "UNUSED" <=> state[q] = "UNUSED"
  BY <1>3 DEF Yield, WaitSleeps, ContextsInv, SchedInv, TypeOK
<1> QED
  BY <1>1, <1>2, <1>4, UserReschedules

\* Every system call is a step of the caller's machine, or of none.
LEMMA SyscallSteps ==
  ASSUME ContextsInv, handle_syscall, hit' = hit
  PROVE  ContextsInv' /\ (hit' \/ [Own!MNext]_machine)
<1>1. cpu = "user"
  BY DEF handle_syscall
<1>2. ASSUME NEW result \in Results \cup {Pid(current_process)}, UNCHANGED schedVars, Returns(result)
      PROVE  ContextsInv' /\ (hit' \/ Own!MNext)
  <2>1. SchedInv'
    BY <1>2, StutterInv DEF ContextsInv
  <2> QED
    BY <1>1, <1>2, <2>1, ReturnSteps DEF schedVars
<1>3. -1 \in Results /\ 0 \in Results
  BY DEF Results
<1>4. CASE syscall_getpid \/ ReturningCall
  BY <1>2, <1>4 DEF syscall_getpid, ReturningCall
<1>5. CASE syscall_fork
  <2>1. CASE ForkFull /\ Returns(-1)
    BY <1>2, <1>3, <2>1 DEF ForkFull
  <2>2. CASE ~(ForkFull /\ Returns(-1))
    BY <1>1, <1>5, <2>2, ForkSteps DEF syscall_fork
  <2> QED
    BY <2>1, <2>2
<1>6. CASE syscall_exec
  <2>1. CASE ExecRefused /\ Returns(-1)
    BY <1>2, <1>3, <2>1 DEF ExecRefused
  <2>2. ASSUME NEW image \in Slots, ExecStaged(image), Returns(-1)
        PROVE  ContextsInv' /\ (hit' \/ Own!MNext)
    <3>1. SchedInv'
      BY <2>2, ExecInv DEF ContextsInv
    <3> QED
      BY <1>1, <1>3, <2>2, <3>1, ReturnSteps DEF ExecStaged
  <2>3. CASE /\ \E image \in Slots : ExecStaged(image)
             /\ context' = [context EXCEPT ![current_process] = InContext("usr", Fresh)]
             /\ switch_to_context(context'[current_process])
             /\ UNCHANGED svc_return
    BY <1>1, <2>3, ExecSteps
  <2> QED
    BY <1>6, <2>1, <2>2, <2>3 DEF syscall_exec
<1>7. CASE syscall_exit
  BY <1>1, <1>7, ExitSteps
<1>8. CASE syscall_wait
  <2>1. PICK pid \in WaitArgs :
          \/ WaitSleeps(pid) /\ context' = save_context(context) /\ Resume /\ UNCHANGED svc_return
          \/ WaitReturns(pid) /\ Returns(0)
    BY <1>8 DEF syscall_wait
  <2>2. CASE WaitReturns(pid) /\ Returns(0)
    BY <1>2, <1>3, <2>2 DEF WaitReturns
  <2>3. CASE WaitSleeps(pid) /\ context' = save_context(context) /\ Resume /\ UNCHANGED svc_return
    BY <1>1, <2>3, BlockingSteps
  <2> QED
    BY <2>1, <2>2, <2>3
<1>9. CASE syscall_yield
  BY <1>1, <1>9, BlockingSteps DEF syscall_yield
<1> QED
  BY <1>4, <1>5, <1>6, <1>7, <1>8, <1>9 DEF handle_syscall

-----------------------------------------------------------------------------
\* Every step of the kernel and of user code.
LEMMA ContextsStep ==
  ContextsInv /\ [CNext]_vars => ContextsInv' /\ [hit' \/ Own!MNext]_machine
<1> SUFFICES ASSUME ContextsInv, [CNext]_vars
             PROVE  ContextsInv' /\ [hit' \/ Own!MNext]_machine
  OBVIOUS
<1>1. CASE BootStep
  BY <1>1, LoadShellSteps, ChooseShellSteps, SwitchSteps DEF BootStep
<1>2. CASE (UartInterrupt \/ TimerInterrupt) /\ hit' = (hit \/ InWindow)
  BY <1>2, UartSteps, TimerSteps
<1>3. CASE BootFails /\ UNCHANGED hit
  BY <1>3, BootFailsSteps
<1>4. CASE TimerStartsShell /\ UNCHANGED hit
  BY <1>4, TimerStartsShellSteps
<1>5. CASE ComputeStep /\ UNCHANGED hit
  BY <1>5, ComputeSteps
<1>6. CASE handle_syscall /\ UNCHANGED hit
  BY <1>6, SyscallSteps
<1>7. CASE UNCHANGED vars
  <2>1. SchedInv'
    BY <1>7, StutterInv DEF vars, ContextsInv
  <2>2. ContextsInv'
    BY <1>7, <2>1 DEF vars, contextVars, schedVars, ContextsInv, ContextsTypeOK, BeforeSchedule,
                      InWindow, Switching, ResumesBoot, UserCode
  <2>3. machine' = machine
    BY <1>7 DEF vars, contextVars, schedVars, machine
  <2> QED
    BY <2>2, <2>3
<1> QED
  BY <1>1, <1>2, <1>3, <1>4, <1>5, <1>6, <1>7 DEF CNext

\* The inductive invariant of contexts and scheduler together.
THEOREM ContextsInvariance == BootSpec => []ContextsInv
<1>1. CInit => ContextsInv
  BY ContextsInvInit
<1>2. ContextsInv /\ [CNext]_vars => ContextsInv'
  BY ContextsStep
<1> QED
  BY <1>1, <1>2, PTL DEF BootSpec

\* A kernel context saved while the kernel boots never spreads: once user code
\* runs, all other processes are resumed as user code.
THEOREM OthersResumeAsUser == BootSpec => []ResumedAsUser
<1>1. ContextsInv => ResumedAsUser
  BY DEF ContextsInv, UserCode, ResumedAsUser
<1> QED
  BY <1>1, ContextsInvariance, PTL

\* Saving, switching and the system calls implement one register file for each
\* process, for every size of the table, unless the first switch is hit.
THEOREM RegistersAreOwn == BootSpec => OwnRegisters
<1>1. CInit => Own!MInit
  BY ContextsInvInit
<1>2. ContextsInv /\ [CNext]_vars => [hit' \/ Own!MNext]_machine
  BY ContextsStep
<1> QED
  BY <1>1, <1>2, ContextsInvariance, PTL DEF BootSpec, OwnRegisters
==============================================================================
