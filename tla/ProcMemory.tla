----------------------------- MODULE ProcMemory -----------------------------
(***************************************************************************)
(* The memory of processes: what fork, exec and exit do to physical memory *)
(* and page tables (proc.c, syscall_fork.c, syscall_exec.c,                *)
(* syscall_exit.c, init.c).  Scheduling is left to module Scheduler: here  *)
(* any process in the table may make the next system call.                 *)
(***************************************************************************)
EXTENDS VirtualMemory, SequencesExt

CONSTANTS
    PROCESS_COUNT_MAX,  \* process table slots
    SHELL,       \* the program c_entry loads
    Programs,    \* the programs user code executes
    ImagePages,  \* program -> pages its segments span, at most IMAGE_LIMIT
    StoreAddresses  \* the addresses user code stores to

VARIABLES
    boot,   \* how far c_entry is: "entry", "initial", "paging", "up" or "stopped"
    used,   \* the slots whose state is not UNUSED
    mem    (* a record: the free pool, section and page tables of module      *)
           (* VirtualMemory, the contents of pages, and of struct Process the *)
           (* fields heap_size (in pages), kernel_stack and user_stack        *)

procVars == <<boot, used, mem>>

Slots == 0 .. PROCESS_COUNT_MAX - 1
KERNEL_VM == -1

\* Contents of a page, as far as anybody can tell them apart.
Zero == <<"zero", 0>>
Stored == <<"stored", 0>>
Scrap == <<"scrap", 0>>   \* a page on the free list: its first word is a link
ImagePage(prog, i) == <<prog, i>>

-----------------------------------------------------------------------------
(***************************************************************************)
(* proc.c.  NULL from kalloc is used unchecked, see UseOf.                 *)
(***************************************************************************)
Cleared(a) ==
    IF a.ret = NO_PAGE THEN [ret |-> NO_PAGE, mem |-> UseOf(a.mem, a.ret, NO_PAGE)]
    ELSE [ret |-> a.ret, mem |-> [a.mem EXCEPT !.content[a.ret] = Zero]]

\* kalloc a page and clear it.
kallocCleared(m) == Cleared(kalloc(m))

kfreePage(m, page) == [kfree(m, page) EXCEPT !.content[page] = Scrap]

proc_create(m, slot) ==
    LET ks == kallocCleared(m)
        us == kallocCleared(ks.mem)
        kernel_part == setup_kernel_vm(us.mem, slot)
        with_ks == map_page(kernel_part, slot, ks.ret, KERNEL_STACK_BOTTOM, "AP_RW_R")
        with_us == map_page(with_ks, slot, us.ret, USER_STACK_BOTTOM, "AP_RW_RW")
    IN  [with_us EXCEPT !.heap_size[slot] = 0,
                        !.kernel_stack[slot] = ks.ret,
                        !.user_stack[slot] = us.ret]

\* Mutant: the stacks are taken before a slot is looked for.
StacksFirst(m) == kallocCleared(kallocCleared(m).mem).mem

\* proc_create when every slot is in use: it returns before it allocates.
NoSlot(m) == m

\* A page a that was just allocated becomes the last of the heap.
AddHeapPage(a, slot) ==
    IF a.ret = NO_PAGE THEN a.mem
    ELSE [map_page(a.mem, slot, a.ret, 4 * a.mem.heap_size[slot], "AP_RW_RW")
              EXCEPT !.heap_size[slot] = @ + 1]

proc_expand_memory(m, slot, page_count) ==
    FoldLeft(LAMBDA acc, i : AddHeapPage(kallocCleared(acc), slot),
             m, [i \in 1 .. page_count |-> i])

\* Stops when the heap is used up.
proc_shrink_memory(m, slot, page_count) ==
    LET ShrinkOne(acc, i) ==
            LET va == 4 * (acc.heap_size[slot] - 1) IN
            IF i > 1 /\ acc.heap_size[slot] = 0 THEN acc
            ELSE [unmap_page(kfreePage(acc, resolve_physical_address(acc, slot, va)), slot, va)
                      EXCEPT !.heap_size[slot] = @ - 1]
    IN  FoldLeft(ShrinkOne, m, [i \in 1 .. page_count |-> i])

\* Mutant: the page tables are not given back.
ProcFreeKeepsTables(m, slot) ==
    LET stacks_freed == kfreePage(kfreePage(m, m.kernel_stack[slot]), m.user_stack[slot])
    IN  proc_shrink_memory(stacks_freed, slot, m.heap_size[slot])

\* The slot's pointers dangle from here on; what they were is forgotten.
proc_free(m, slot) ==
    LET stacks_freed == kfreePage(kfreePage(m, m.kernel_stack[slot]), m.user_stack[slot])
        heap_freed == proc_shrink_memory(stacks_freed, slot, m.heap_size[slot])
    IN  [free_vm_page_tables(heap_freed, slot) EXCEPT
            !.section[slot] = DeadSections,
            !.kernel_stack[slot] = NO_PAGE,
            !.user_stack[slot] = NO_PAGE]

-----------------------------------------------------------------------------
(***************************************************************************)
(* syscall_exec.c.                                                         *)
(***************************************************************************)
\* The pages of an image are read into the heap, if there was room for it.
ReadImage(room, slot, prog) ==
    IF room.null_used THEN room
    ELSE FoldLeft(LAMBDA acc, i :
                      [acc EXCEPT !.content[resolve_physical_address(acc, slot, 4 * i)] =
                                      ImagePage(prog, i)],
                  room, [i \in 1 .. ImagePages[prog] |-> i - 1])

\* The second half of load_elf.
load_elf(m, slot, prog) ==
    ReadImage(proc_expand_memory(m, slot, ImagePages[prog]), slot, prog)

\* Mutant: the user stacks are not exchanged.
SwapKeepsUserStack(m, a, b) ==
    LET Swap(f) == [f EXCEPT ![a] = f[b], ![b] = f[a]] IN
    [m EXCEPT !.section = Swap(@), !.heap_size = Swap(@), !.kernel_stack = Swap(@)]

\* Exchange everything two slots own.
SwapImages(m, a, b) ==
    LET Swap(f) == [f EXCEPT ![a] = f[b], ![b] = f[a]] IN
    [m EXCEPT !.section = Swap(@), !.heap_size = Swap(@),
              !.kernel_stack = Swap(@), !.user_stack = Swap(@)]

\* The new image was loaded: the caller takes it over and gives up its own.
TakeOver(loaded, slot, image) ==
    IF loaded.null_used THEN loaded ELSE proc_free(SwapImages(loaded, slot, image), image)

LoadOk(m, slot, image, prog) ==
    TakeOver(load_elf(proc_create(m, image), image, prog), slot, image)

GiveUp(staged, image) == IF staged.null_used THEN staged ELSE proc_free(staged, image)

\* The file is not an executable: nothing has been expanded yet.
LoadBadHeader(m, image) == GiveUp(proc_create(m, image), image)

\* A disk read fails after the room for the image was made.
LoadReadError(m, image, prog) ==
    GiveUp(proc_expand_memory(proc_create(m, image), image, ImagePages[prog]), image)

-----------------------------------------------------------------------------
(***************************************************************************)
(* c_entry up to the first process.                                        *)
(***************************************************************************)
ProcessMemory == Slots \cup {KERNEL_VM}

Uninitialised ==
    [free4k |-> {}, free1k |-> {}, null_used |-> FALSE,
     section |-> [v \in ProcessMemory |-> DeadSections],
     table |-> [c \in {} |-> EmptyTable],
     content |-> [p \in Pages |-> Scrap],
     heap_size |-> [q \in Slots |-> 0],
     kernel_stack |-> [q \in Slots |-> NO_PAGE],
     user_stack |-> [q \in Slots |-> NO_PAGE]]

Init == boot = "entry" /\ used = {} /\ mem = Uninitialised

\* Mutant: all of memory at once, before the kernel's own page table.
AllMemory ==
    /\ boot = "entry" /\ boot' = "initial"
    /\ mem' = kalloc_init(mem, ALLOCATABLE_START, TOTAL_SIZE)
    /\ UNCHANGED used

InitialMemory ==
    /\ boot = "entry" /\ boot' = "initial"
    /\ mem' = kalloc_init(mem, ALLOCATABLE_START, INITIAL_SIZE)
    /\ UNCHANGED used

vm_init ==
    /\ boot = "initial" /\ boot' = "paging"
    /\ mem' = setup_kernel_vm(mem, KERNEL_VM)
    /\ UNCHANGED used

Shell == 0

\* The rest of memory, and the shell's process.
FirstProcess == proc_create(kalloc_init(mem, INITIAL_SIZE, TOTAL_SIZE), Shell)

BootOk ==
    /\ boot = "paging" /\ boot' = "up"
    /\ used' = {Shell}
    /\ mem' = LoadOk(FirstProcess, Shell, 1, SHELL)

\* No SHELL on the disk, or not an executable, or a read error: c_entry stops
\* for ever with an empty process.  (With no usable disk it stops before.)
BootNoShell ==
    /\ boot = "paging" /\ boot' = "stopped"
    /\ used' = {Shell}
    /\ mem' \in {FirstProcess, LoadBadHeader(FirstProcess, 1), LoadReadError(FirstProcess, 1, SHELL)}

-----------------------------------------------------------------------------
(***************************************************************************)
(* System calls, and the stores of user code.                              *)
(***************************************************************************)
\* Mutant: the user stack is not copied.
CopyHeapOnly(m, parent, child) ==
    LET CopyOne(acc, i) ==
            [acc EXCEPT !.content[resolve_physical_address(acc, child, 4 * i)] =
                            acc.content[Entry(acc, parent, 4 * i).base]]
    IN  FoldLeft(CopyOne, m, [i \in 1 .. m.heap_size[parent] |-> i - 1])

\* syscall_fork reads the parent's heap through the parent's own page tables
\* and writes the child's through the kernel's view of physical memory.
CopyMemory(m, parent, child) ==
    LET CopyOne(acc, i) ==
            [acc EXCEPT !.content[resolve_physical_address(acc, child, 4 * i)] =
                            acc.content[Entry(acc, parent, 4 * i).base]]
        heap_copied == FoldLeft(CopyOne, m, [i \in 1 .. m.heap_size[parent] |-> i - 1])
    IN  [heap_copied EXCEPT
            !.content[m.kernel_stack[child]] = heap_copied.content[m.kernel_stack[parent]],
            !.content[m.user_stack[child]] = heap_copied.content[m.user_stack[parent]]]

\* The child's memory is there, if there was room.
CopyInto(room, parent, child) ==
    IF room.null_used THEN room ELSE CopyMemory(room, parent, child)

syscall_fork(m, parent, child) ==
    CopyInto(proc_expand_memory(proc_create(m, child), child, m.heap_size[parent]), parent, child)

FirstUnused(i) == i \in Slots \ used /\ \A j \in Slots \ used : i <= j

Fork(parent, child) ==
    /\ FirstUnused(child)
    /\ used' = used \cup {child}
    /\ mem' = syscall_fork(mem, parent, child)
    /\ UNCHANGED boot

Exec(proc, image, prog) ==
    /\ FirstUnused(image)
    /\ mem' = LoadOk(mem, proc, image, prog)
    /\ UNCHANGED <<boot, used>>

\* With a full table fork and exec return -1.
TableFull ==
    /\ used = Slots
    /\ mem' = NoSlot(mem)
    /\ UNCHANGED <<boot, used>>

\* The caller of an exec that fails keeps everything it has.
ExecBadHeader(image) ==
    /\ used # {}
    /\ FirstUnused(image)
    /\ mem' = LoadBadHeader(mem, image)
    /\ UNCHANGED <<boot, used>>

ExecReadError(image, prog) ==
    /\ used # {}
    /\ FirstUnused(image)
    /\ mem' = LoadReadError(mem, image, prog)
    /\ UNCHANGED <<boot, used>>

Exit(proc) ==
    /\ used' = used \ {proc}
    /\ mem' = proc_free(mem, proc)
    /\ UNCHANGED boot

\* User code stores into a page the MMU lets it write.
Store(proc, va) ==
    /\ UserAccess(mem, proc, va) = "AP_RW_RW"
    /\ mem' = [mem EXCEPT !.content[Entry(mem, proc, va).base] = Stored]
    /\ UNCHANGED <<boot, used>>

SystemCall ==
    \/ \E proc \in used, child \in Slots : Fork(proc, child)
    \/ \E proc \in used, image \in Slots, prog \in Programs : Exec(proc, image, prog)
    \/ TableFull
    \/ \E image \in Slots : ExecBadHeader(image)
    \/ \E image \in Slots, prog \in Programs : ExecReadError(image, prog)
    \/ \E proc \in used : Exit(proc)
    \/ \E proc \in used, va \in StoreAddresses : Store(proc, va)

Next ==
    /\ ~mem.null_used
    /\ \/ InitialMemory \/ vm_init \/ BootOk \/ BootNoShell
       \/ boot = "up" /\ SystemCall

Spec == Init /\ [][Next]_procVars

-----------------------------------------------------------------------------
(***************************************************************************)
(* Properties.                                                             *)
(***************************************************************************)
FrameAt(q, va) == Entry(mem, q, va).base

HeapAddresses(q) == {4 * i : i \in 0 .. mem.heap_size[q] - 1}

OwnedPages(q) == {mem.kernel_stack[q], mem.user_stack[q]} \cup {FrameAt(q, va) : va \in HeapAddresses(q)}

\* The section tables that have been set up, and the pages given to kalloc.
Tables == used \cup (IF boot \in {"entry", "initial"} THEN {} ELSE {KERNEL_VM})

TableSlots == {s \in Tables \X Sections : mem.section[s[1]][s[2]] # NO_CHUNK}

GivenPages ==
    CASE boot = "entry" -> {}
      [] boot \in {"initial", "paging"} -> Pages \cap (0 .. RoundDownToPage(INITIAL_SIZE) - 1)
      [] OTHER -> Pages

\* No page or page table is lost or has two owners, through the boot and every
\* fork, exec (loaded, malformed or cut short by a read error) and exit: the
\* pages of the processes in the table, the free pages and the pages cut into
\* chunks are all the pages and overlap nowhere; so are the tables in use and
\* the free chunks all the chunks.
AllMemoryOwnedOnce ==
    LET chunks == {mem.section[s[1]][s[2]] : s \in TableSlots} \cup mem.free1k
        split == {c[1] : c \in chunks}
    IN  /\ chunks = split \X Quarters
        /\ Cardinality(TableSlots) + Cardinality(mem.free1k) = 4 * Cardinality(split)
        /\ UNION {OwnedPages(q) : q \in used} \cup mem.free4k \cup split = GivenPages
        /\ MapThenSumSet(LAMBDA q : mem.heap_size[q] + 2, used)
             + Cardinality(mem.free4k) + Cardinality(split) = Cardinality(GivenPages)

RAMPages ==
    (0 .. RoundUpToPage(KERNEL_END) - 1) \cup
    (RoundDownToPage(ALLOCATABLE_START) .. RoundUpToPage(TOTAL_SIZE) - 1)

\* Whichever section table is active, the kernel finds all of its memory at
\* P2V, and user code can reach none of it there: the kernel part of every
\* address space survives the exchange of tables in exec.  While c_entry still
\* runs on startup_sectiontable, that table maps every page kalloc may hand
\* out, whose links kalloc_init writes and whose tables vm_init fills.
KernelSeesAllMemory ==
    /\ boot \in {"entry", "initial"} =>
         \A page \in mem.free4k :
             LET va == KERNEL_BASE + 4 * page
             IN  va \in DOMAIN startup_sectiontable /\ startup_sectiontable[va] = page
    /\ \A vm \in Tables : \A page \in RAMPages :
         Entry(mem, vm, KERNEL_BASE + 4 * page) =
             [desc_type |-> PAGE_DESC, ap |-> "AP_RW_D", base |-> page]

\* heap_size and the stack pointers of struct Process agree with the page
\* tables, so the bounds check of syscall_exec accepts exactly the addresses
\* user code could read itself (its kernel stack page aside), and the pages
\* proc_free gives back are the ones that were mapped.
RecordsMatchTables ==
    \A q \in used :
        /\ \A va \in VirtualPages :
             UserAccess(mem, q, va) = IF va \in HeapAddresses(q) \cup {USER_STACK_BOTTOM} THEN "AP_RW_RW"
                                      ELSE IF va = KERNEL_STACK_BOTTOM THEN "AP_RW_R"
                                      ELSE "none"
        /\ FrameAt(q, USER_STACK_BOTTOM) = mem.user_stack[q]
        /\ FrameAt(q, KERNEL_STACK_BOTTOM) = mem.kernel_stack[q]

\* syscall_exec.c: "Bound sparse/malformed images before they can exhaust kernel
\* memory."  With memory for PROCESS_COUNT_MAX processes of the largest image,
\* no allocation fails, the staging copy of exec included.
NeverOutOfMemory == ~mem.null_used

FreshMemory(prog) ==
    [va \in {4 * i : i \in 0 .. ImagePages[prog] - 1} \cup {USER_STACK_BOTTOM} |->
        IF va = USER_STACK_BOTTOM THEN Zero ELSE ImagePage(prog, va \div 4)]

Private == INSTANCE AddressSpaces WITH
    Programs <- Programs \cup {SHELL},
    Fresh <- FreshMemory,
    StoreValues <- {Stored},
    space <- [q \in Slots |->
                IF q \notin used \/ boot # "up" THEN [va \in {} |-> 0]
                ELSE [va \in HeapAddresses(q) \cup {USER_STACK_BOTTOM} |-> mem.content[FrameAt(q, va)]]]

\* Every process has a memory of its own, whatever the others do.
PrivateMemory == Private!ASSpec
=============================================================================
