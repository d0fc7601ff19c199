# Verification of ArunOS

TLA+ models of the ArunOS kernel and of the library code it shares with its
user programs, with TLC configurations that check them on small instances and
TLAPS proofs for every instance: of the process table and the contexts, the
page allocator, the console's ring buffer, the disk driver, the file system, the
program loader and the library code under them.

## The system

ArunOS is a teaching kernel for one ARM926 CPU. `c_entry` sets up memory,
console and disk, loads the program `SHELL` and schedules. From then on the
kernel runs only in system calls and interrupt handlers, with interrupts
masked; between them user code runs and may be preempted by the timer anywhere.

| Part | Source | Modules | State |
|---|---|---|---|
| process table, scheduler, system calls | `kernel/proc/`, `kernel/init.c` | `Scheduler`, `SchedulerProofs` | modelled, proved |
| programs that fork and wait | `user/` | `ForkWait`, `SchedulerProofs` | their use of the calls, proved |
| page allocator | `kernel/memory/kalloc.c` | `Kalloc`, `Allocator`, `AbstractAllocator`, `Pool`, `AllocatorProofs` | modelled, proved |
| page tables | `kernel/memory/vm.c` | `VirtualMemory` | modelled |
| memory of processes | `kernel/proc/`, `kernel/init.c` | `ProcMemory`, `AddressSpaces` | modelled |
| contexts, traps, end of the boot | `startup.S`, `save_context.S`, `system.S` | `Contexts`, `Machines`, `SchedulerProofs` | modelled, proved |
| interrupts, console | `kernel/irq.c`, `kernel/console.c`, `arch/versatilepb/` | `Console`, `Keys`, `Hextee`, `ByteQueue`, `ConsoleProofs`, `LibraryProofs` | modelled, proved |
| line input | `lib/stdio/gets.c` | `Gets`, `LibraryProofs` | modelled, proved |
| disk | `arch/versatilepb/virtio.c` | `Virtio`, `VirtioProofs` | modelled, proved |
| FAT16 | `kernel/fs/fat.c` | `FatVolume`, `ShortNames`, `FatDir`, `Fat`, `FatProofs`, `FatDirProofs` | modelled, proved up to the names |
| ELF loader | `kernel/proc/syscall_exec.c` | `Elf`, `ProcMemory`, `LibraryProofs` | modelled, loading proved |
| strings, division, formatting | `lib/string.c`, `lib/math.c`, `lib/stdio/` | `Strings`, `Divmod`, `Printf`, `LibraryProofs` | what has more to it than a copy; division and comparisons proved |
| monitor | `kernel/monitor/` | `Monitor`, `Hextee` | command line and `hextee` |
| boot page directory, boot assembly | `startup_pagedir.c`, `startup.S` | `VirtualMemory`, `ProcMemory` | the directory; the rest is the initial states |
| debugging aids | `kernel/debug.c` | - | not modelled |
| (arithmetic for the proofs) | - | `Numbers` | lemmas on division, least elements, iteration |

`PROJECT.json` maps every definition to the lines it models, and lists the
hazards of the code with the properties that watch them.

## How the models correspond to the code

**Scheduler.** `state` and `wait_pid` are the fields of `process_table`,
`current_process` and `round_robin_index` the variables of the same names;
`status` says whether the machine boots, runs user code, has panicked or has
halted. A handler is one action together with the `schedule()` it ends in,
because interrupts are masked. A pid is a slot number plus one, so pids are
reused. `bypassed` is a history variable: how often a READY slot was passed
over. The argument of `wait` is any number; those outside the pid range behave
alike, so one on each side is enough.

**ForkWait** restricts the scheduler to programs that behave as those in
`user/` do: wait once, and only for what the last fork returned. `own` and
`younger` are history.

**Kalloc, Allocator.** An address is a page number, or a page and a quarter;
sizes are in KB, so unaligned regions show. `Kalloc` translates the functions
as operators on the two lists, `Allocator` makes them a state machine with
clients that give back what they hold. `AbstractAllocator` is the promise: a
set of pages and a set of chunks.

**Pool, VirtualMemory, ProcMemory.** `Pool` offers the operations of that
promise as operators. It takes *some* free page by CHOOSE. This loses nothing:
no operation compares page numbers, so another choice renames pages in the rest
of the behaviour, and no property tells free pages apart. A section table maps
a section to the chunk that holds its page table; entries keep their frame
number when they are unmapped, as in the code. `ProcMemory` composes the two
with the boot, `fork`, `exec` and `exit`; any process may call next, which
includes every order the scheduler can produce. With a full table `fork` and
`exec` fail in `proc_create` (`TableFull`). No caller checks for NULL: using it sets
`null_used`, and `NeverOutOfMemory` says it never happens. `boot` follows
`c_entry`: the first region, the kernel's page tables, the second region with
the first process, then `"up"` or, without a shell, `"stopped"`. Until
`"paging"` the kernel sees memory through `startup_sectiontable`.
`AddressSpaces` is the promise to user code. The contents of a page are which image page it holds,
zero, something stored, or scrap.

**Contexts** composes saving and restoring of registers with `Scheduler`. A
register file is pc, r0 and the rest. `putch`, `getch`, `dir` and unknown calls
are one action, `ReturningCall`: they change no more than r0. The end of the
boot, which runs with interrupts enabled, is split where an interrupt can come
between; `cpu` says where it is. `schedule()`'s search of the table is one of its
steps, see *Not modelled*. `Machines` is the promise: registers of one's own.
Interrupts may arrive anywhere; `hit` is a history variable that records one in
the window described under *Findings*.

**Console.** It starts with `c_entry`: no line is enabled, a byte may already be
waiting; `handlers` are the lines enabled so far. The interrupt handler's loop
is interleaved with arriving bytes; `kgetch`, which runs with interrupts masked,
is one step. The timer's line comes first and its handler does not return. The
UART's FIFO is never enabled, so it holds one byte. What `kgetch` does to its
own stack is left to `Hextee`. `ByteQueue` is the promise
of the ring buffer: a queue and the byte offered to it, which is put into the
queue or, only when that is full, ignored.

**Keys, Hextee.** `Keys` has the key table both for input and output, and the
loop of `kgetch` as operators on the waiting bytes. `Hextee` calls it while the
bytes of whole, split and broken keys arrive. What bytes written behind
`kgetch`'s array would destroy is not modelled, only that there are such.

**Gets, Monitor, Strings.** `Gets` models the terminal as well: a row of cells
and a cursor, written with the bytes `kputch` sends. `Monitor` goes on with the
line: `strtok` cuts it in place, the first word is looked up, the loop prompts
again with buffer, `argv` and `strtok`'s position as they were left. A command
that itself uses `strtok` (`backtrace`) may leave the position in a dead frame.

**Divmod, Printf.** One step per turn of the division loop, in words of `BITS`
bits; `Bit[k]` is `1u << k`. The recursion of `number`, which prints the higher digits first, is the
sequence of digits still to be printed. A directive carries its argument;
`"end"` is a `%` that ends the format.

**Elf** is `load_elf` turn by turn: the checks in word arithmetic, then one step
per chunk copied. A byte is known by its place in the file, 0 is a cleared one.
Any read may fail.

**Virtio.** The device (external) fetches the request and writes data, status
and used index in separate steps, or stops at any of them. `TimeOut` is the
last poll, `GiveUp` the reset; an answer may come between the two. `Publish` is
one step: the device looks at the ring only after its index has moved, which
the barriers in the code put last.

**FatVolume, FatDir, Fat.** The disk is arbitrary. `FatVolume` is `fat_init`,
with the limits of FAT16 as constants; `ShortNames` has the two conversions of
names, for any length of the two parts; `FatDir` composes both with the turns of
`root_entry` under `syscall_dir` and `fat_open`; `Fat` is the loops of
`fat_open` and `fat_read`, in which any sector may be unreadable.

## What the runs check

| Run | Properties | Bounds |
|---|---|---|
| `scheduler` | `NoOrphanedSleeper`, `PanicIsJustified`, `BoundedBypass`, `WokenOnlyByTarget`, `EveryReadyRuns` | 4 slots: rings of waiting processes, a full table, a spare slot for exec |
| `fork_wait` | `WaitsForYounger`, `NeverPanics` | 4 slots: shell, child, grandchild, reused slot |
| `proc_memory` | `NeverOutOfMemory`, `KernelSeesAllMemory`, `AllMemoryOwnedOnce`, `RecordsMatchTables`, `PrivateMemory` | 3 slots; a shell of 1 page and a program of 2, so exec exchanges images of different sizes; stores to heap and stack; memory for exactly 3 large processes, of which the startup table maps the first region; the table fills up |
| `contexts` | `ResumedAsUser`, `OwnRegisters` | 3 slots, interrupts anywhere |
| `console` | `ImplementsQueue`, `UartServed` | ring of 4, which holds one arrow key; whole, split and broken keys, NUL |
| `library` | `ScreenShowsBuffer`, `ReturnsLine`, `RunsCommandTyped` | buffer of 6; lines with leading, double and trailing blanks, more words than `argv` holds, two commands of which one begins the other |
| | `KeysDecoded` | as many bytes as the array of 6, in every split between calls |
| | `DivisionExact`, `PrintsArguments` | words of 7 bits: every number with every conversion, divisors up to the largest, so that the top bit matters |
| | `LoadsImage`, `WritesInsideFrame` | pages of 4 bytes, images of 2 pages, words of 4 bits; header fields on both sides of every bound, and so large that sums wrap around |
| | `NothingShared`, `NothingLost`, `FreeSizeAccounts`, `ImplementsPool` | one whole page in each region, unaligned ends |
| `virtio` | `QueueFits`, `NoLiveDMA`, `RightSector`, `AnswerNoticed`, `ReadReturns` | disks of 0, 1, 3 sectors; indices wrap after 4; queue sizes at the limits |
| `fat` | `OpenedIsSound`, `ReadsFile`, `NoSurprises`, `CallsReturn` | every table of 4 clusters, one with a reserved number; 2 sectors of 2 bytes each |
| `fat_dir` | `AreasDisjoint`, `ListsEachOnce`, `OpenResult` | every boot sector with small fields, around each limit; every directory of up to 3 entries, 2 to a sector; names of 2 and 1 characters, with and without a dot |

`library` runs one of five sequential parts at a time (`MCLibrary`): they share
no state, so their interleavings say nothing.

Every property has a mutant, a plausible error in one definition, under which
TLC finds it violated. Deadlock is checked except where the system really may
stop: a machine that has panicked or halted, or whose last process has exited.

`ShellStarts`, `ShellWaitsForItsChild` and `KeyFitsArray` are violated, in the
runs `early_input`, `fork_wait_reuse` and `long_key` (a full ring of 15 bytes and
the array of 6, as in the code), see *Findings*.

`OwnRegisters` is the specification of `Machines` up to an interrupt in the
boot window; without one it holds for the whole behaviour.

### Fairness

* `scheduler`: weak fairness of `handle_timer`. The hardware timer is
  periodic (`timer_set_interval` sets 0xe2), and IRQs are enabled in user code.
* `console`: `c_entry` goes on until both lines are enabled, the CPU takes a
  pending interrupt whenever they are unmasked, and handlers run to their end. The timer does not tick again before a pending
  UART interrupt is taken: a period is 200000 ticks, a handler far less.
* `virtio`: polling, which the code bounds, makes progress. Nothing is assumed
  of the device.
* `fat`: the loops run. `early_input`: the boot code runs.

## What is proved

All proofs are for every value of the constants under the named assumptions,
which TLC evaluates on its instances. `PROJECT.json` lists the theorems.

*Scheduler* (`SlotCountAssumption`: at least two slots). `SchedInv` is
inductive: types; `NoOrphanedSleeper`; `RunningIsScheduled`; after a panic
nothing is READY; while booting the table is empty; and `BypassInv`, which
strengthens `BoundedBypass`: how often a READY slot was passed over plus its
distance ahead of the cursor never exceed the table size. `BoundedBypass` by itself is not
inductive: a slot passed over often must also be close. Each dispatch moves the
cursor k slots on and so brings every slot it does not reach k slots closer
(`AdvanceCloser`, `DispatchKeepsBypass`). `ScheduleSound` says what `schedule()`
leaves behind, and each handler has a lemma. `PanicOnlyOnDeadlock` exhibits the
set of all sleepers as the ring. `SlotReclaimedByExit` adds that a process leaves
the table only by its own exit. `TypeCorrect` and `CurrentIsScheduled` state
the parts of `SchedInv` that no run repeats.

*Programs that wait for what fork returned.* `FWInv` adds to `SchedInv` that
"younger" is a strict order on the processes in the table, and that a pid a
program keeps names a free slot or a process younger than its holder. The
second half is what reuse of pids could break: it holds because a slot is free
only after the exit of its process, and a new process is younger than all.
`KernelNeverPanics` follows from it: of the processes in the table one has the
fewest younger ones, and if it slept it would wait for one with fewer still.

*Contexts.* `ContextsInv` says for each place of `cpu` what is saved where: in
user code the context of every *other* process in the table resumes it as user
code, while that of the current one is out of date. From it, and `SchedInv`,
each step is shown to be a step of `Machines` or to leave it alone
(`RegistersAreOwn`), except after an interrupt in the boot window, where `hit`
is set. The window is not assumed away: the invariant holds in it and after it.

*Allocator* (`RegionAssumption`: the regions are not empty the wrong way round,
and page 0 is in neither). `AllocInv` is types, `NothingShared`, `NothingLost`,
finiteness of what is held, and `FreeSizeAccounts`. The lemma of each operation
shows as well that it is a step of the pool or leaves it alone, so invariant
and refinement (`ListsImplementPool`) are proved together. Lists are handled by lemmas on
popping, prepending and joining lists without repetitions.

*Console* (`SizesAssumption`: a ring of at least two slots). The contents of the
ring as a sequence are shown to gain and lose bytes as the queue does, with the
wrap of both indices spelled out (`RingAppend`, `RingDrop`). `kgetch` takes
several bytes in one step of the queue.

*Virtio* (`IndexAssumption`: the indices have at least two values;
`HardwareAssumption`: there is a largest capacity). `VirtioInv` lists what the
pair of driver and device can be in: quiet, or busy with the one request, at one
of the device's steps, with the place of `avail`, `used`, `seen` and `completed`
relative to each other. Since at most one request is open, two values of an
index are enough to tell "answered" from "not answered": that is why wrapping
does no harm. `RightSector` alone would allow every read to fail;
`AnswersAreNoticed` says that a read is given up only if the device has not
answered. `RingsFit` is the arithmetic of `block_init`.

*Fat* (`GeometryAssumption`). `FatInv` relates `cluster` to the chain from the
first cluster on: at the turn of the loop, so many links have been followed.
`OpenedIsSound` needs more than the loop tests, since the loop does not look for
repetitions: two places of a chain with the same cluster go on alike
(`NoCycle`, with the least place at which they would not), so where the later one
meets the end mark the earlier one would too, inside the chain.
`Copying` says that `cluster` and `within` are quotient and remainder of the
place reached, and that this survives the end of a sector and of a cluster.

*FatDir* (`FormatAssumption`, `KeysAssumption`: a key is told from an end mark,
a deleted entry and other kinds of entries by its first byte and attributes).
`AreasDisjoint` is the arithmetic of `fat_init`. `Search` says which sector the
buffer of `root_entry` holds: the one before the entry looked at, unless the
entry begins a sector or the search. `OpenFindsFirst` is proved without more;
`OpenResult` speaks of names as they are shown, so `OpenFindsListed` has the
hypothesis `NamesAgree`: on the names and keys in question `short_name` and the
name `fat_next` shows agree. Both are recursions over characters. TLC evaluates
the hypothesis for the names of the run (`MCNamesAgree`).

*Library.* `Elf`, `Divmod`, `Gets` and `Hextee` have specifications of their own
(`ElfSpec`, `DivSpec`, `GetsSpec`, `HexSpec`), which allow at least what
`MCLibrary` lets them do: division of any word by any other, and a caller of
`gets_base` that writes anything to its buffer between two calls, as the
monitor's `strtok` does.
  * `ElfInv` (`ElfAssumption`: header fields are numbers, and the limit of images
    is a word): in the first loop the headers seen have passed every test, in
    exact arithmetic (`SegmentFitsIs`: the tests of the code say this without
    overflow), in the second every byte of the heap is what the segments so far
    have put there. The last segment that covers a byte gives it its value.
  * `DivInv` is `DivisionExact` with types. A turn doubles quotient and
    remainder; the shifted remainder fits a word because it is not larger than
    the bits of the numerator seen so far.
  * `GetsInv` (`SizeAssumption`; `PrintableAssumption`: a printable character is no
    control byte and no code of a key): the characters in the buffer are the line
    typed, and the row shows them. `StringIs` reads the line back through the NUL.
  * `KeysAreDecoded` (`KeyTableAssumption`: every sequence of the table is shorter
    than the array, and no byte is a key's code) rests on what `strcmp` and `strncmp`
    compute (`StrcmpIs`, `StrncmpIs`) and on where the loop stops (`ConsumedIs`): at the
    least number of bytes that are no proper beginning of a key. Conversely a code
    is returned only for bytes that `strcmp` finds equal to a sequence, which are
    then the bytes taken (`KeyComplete`).

*How loops and recursive functions are handled.* `Numbers` proves that a
nonempty set of numbers has a least element, and from it that a recursion over
numbers has a function (`Iteration`). The proofs about `Bit`, `Chain` and
`Listing` take the least number where a claim fails. Division by a symbolic
number is beyond the arithmetic of the solvers, so `Numbers` also has the few facts
about quotients and remainders that the disk and the pages need.

The invariants are conjunctions of properties the runs check with what links
them to the place in the loop; TLC confirms them on the instances of the runs.

### Only model-checked

* Liveness, out of the prover's reach as `ENABLED` is: `EveryReadyRuns`,
  `UartServed`, `ReadReturns`, `CallsReturn`.
* `NeverOutOfMemory`, `KernelSeesAllMemory`, `AllMemoryOwnedOnce`,
  `RecordsMatchTables`, `PrivateMemory`: `ProcMemory` maps and copies pages with
  folds over sequences, whose results for every length need an induction with an
  operator as its parameter.
* `RunsCommandTyped` and `PrintsArguments`: reference definitions by recursion over
  text and over digits.
* `NamesAgree`, on the names of the run.

## Findings

* **Interrupts during the first switch to user code** (`early_input`).
  `c_entry` runs with interrupts enabled. Between `current_process = proc` in
  `schedule()` and the end of `switch_to_context` an interrupt saves the boot
  code's context as the shell's. Afterwards `switch_to_context` leads back into
  the kernel. The window is a few instructions long. `tests/regressions.py:23`
  reports "early input: boot and subsequent syscalls pass".
* **The shell may wait for a stranger** (`fork_wait_reuse`). A child that has
  exited may have left its pid to a process its own child forked.
  `tests/boot.py:48` says that the shell waits for its child only. Such waits
  end, and `NeverPanics` shows that they cannot form a ring.
* **A key may take more bytes than its array holds** (`long_key`). `kgetch` stores
  each byte at `sequence[sequence_length]` (`console.c:77`) and leaves it to
  `is_special_key_sequence_prefix` to end the loop. That function is said to
  return false for what is no prefix of a key (`console.c:125`), but it compares
  the string up to its NUL only: after a NUL byte among the input the loop takes
  all that is waiting, up to 15 bytes, for an array of 6. Input without NUL takes
  at most three.

`kgetch` also drops an Escape, and what follows it, of a sequence that turns
out to be no key: it takes bytes while they may still become a key and returns
the last one. `KeysDecoded` says what is decoded; nothing in the repository
promises more.

The comment on `monitor()` says that it starts when the system boots; `c_entry`
starts the shell instead, and only kernel code that calls `monitor()` enters it.

## Not modelled

* `kernel/debug.c`, `include/system.h` and the commands `backtrace`, `kerninfo`,
  `status` and `help`: they print what is in registers, symbols and lists. They
  keep no state of their own; a property of them would be about the wording of
  their output. `execute` creates and loads a process and schedules, as `c_entry`
  does for the shell.
* `lib/base16.c`, which nothing calls; `memcpy`, `memset`: plain copies, which
  appear as assignments where they are used; `strcpy` and `strlcpy`, which only
  `kernel/debug.c` calls.
* The privileged instructions of `startup.S` and `system.S` around the switch of
  page tables and CPU modes, caches and the TLB: they run in a straight line and
  their effect is the initial state of the modules.
* The mappings of devices and interrupt vectors, made by the same `map_pages`.
* Finding the disk on the PCI bus: present or not, a choice of `Virtio`.
* A tick inside the loop of the first `schedule()`, the only one that runs with
  interrupts enabled. It would have to come within some hundred instructions of
  the start of a period of 200000 ticks. Between `round_robin_index++` and its
  reset at the end of the table it would lead the handler's own `schedule()`
  behind the table; in the model the loop is one step.
* Early returns no caller in the repository meets: `gets_base` without a buffer
  (excluded by `SizeAssumption`), `root_entry` on a volume that is not mounted or
  with a cursor behind the directory (`FatDir.Turn`).

## Plan

1. Proofs: `ProcMemory`, beginning with `RecordsMatchTables` and
   `AllMemoryOwnedOnce`, for which `map_pages` would be described by what it leaves
   in the tables; `NamesAgree` for the real lengths of names.
2. Compose `Scheduler` and `ProcMemory` into one machine.
