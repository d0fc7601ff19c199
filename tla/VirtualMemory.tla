---------------------------- MODULE VirtualMemory ----------------------------
(***************************************************************************)
(* Two-level page tables (kernel/memory/vm.c), as operators on a record m  *)
(* that extends the allocator's: m.section[vm] is the section table vm, a  *)
(* function from section index to the page table it points to (NO_CHUNK    *)
(* for desc_type 0), and m.table[chunk] the page table kept in a chunk,    *)
(* for the chunks in use as one.                                           *)
(*                                                                         *)
(* Addresses, virtual and physical, are in KB; a physical page is named by *)
(* its number, as in module Pool.                                          *)
(***************************************************************************)
EXTENDS Pool, Functions, TLC

CONSTANTS
    PAGES_PER_TABLE,    \* 256 in the code: PAGE_INDEX masks with 255
    SECTION_COUNT,      \* 4096 in the code
    KERNEL_BASE,        \* virtual address of physical address 0
    KERNEL_END,         \* physical end of the kernel image
    ALLOCATABLE_START,  \* KERNEL_END plus the gap that holds kernel_vm
    STARTUP_SIZE,       \* the memory startup_sectiontable maps: 32 sections
    INITIAL_SIZE,       \* end of the memory given out before vm_init
    TOTAL_SIZE          \* end of memory

Pages == RoundUpToPage(ALLOCATABLE_START) .. RoundDownToPage(TOTAL_SIZE) - 1
Chunks == Pages \X Quarters

SECTION_INDEX(va) == (va \div 4) \div PAGES_PER_TABLE
PAGE_INDEX(va) == (va \div 4) % PAGES_PER_TABLE

KERNEL_STACK_BOTTOM == KERNEL_BASE - 8
USER_STACK_BOTTOM == KERNEL_BASE - 12

\* The table entry.S turns paging on with: pages at 0 and at KERNEL_BASE.
startup_sectiontable ==
    [va \in {4 * i + start : i \in 0 .. RoundDownToPage(STARTUP_SIZE) - 1, start \in {0, KERNEL_BASE}} |->
        (va \div 4) % (KERNEL_BASE \div 4)]

PAGE_DESC == 2

Sections == 0 .. SECTION_COUNT - 1
PageIndexes == 0 .. PAGES_PER_TABLE - 1

EmptySections == [i \in Sections |-> NO_CHUNK]
\* A section table nobody has cleared: following an entry of it is an error.
DANGLING == <<0, 1>>
DeadSections == [i \in Sections |-> DANGLING]

EmptyTable == [i \in PageIndexes |-> [desc_type |-> 0, ap |-> "none", base |-> 0]]

-----------------------------------------------------------------------------
\* NULL from kalloc or kalloc1k is not checked by any caller: what follows is
\* undefined, which m.null_used records.
UseOf(m, ret, null) == [m EXCEPT !.null_used = @ \/ ret = null]

\* A chunk a that was just allocated becomes the page table of a section.
AddTable(a, vm, section_index) ==
    IF a.ret = NO_CHUNK THEN UseOf(a.mem, a.ret, NO_CHUNK)
    ELSE [a.mem EXCEPT !.section[vm][section_index] = a.ret,
                       !.table = a.ret :> EmptyTable @@ @]

\* The page table of a section, allocated and cleared when it has none.
WithTable(m, vm, section_index) ==
    IF m.section[vm][section_index] # NO_CHUNK THEN m
    ELSE AddTable(kalloc1k(m), vm, section_index)

\* The same for the sections from first to last, in ascending order.
WithTables(m, vm, first, last) ==
    LET upto[i \in first - 1 .. last] ==
            IF i < first THEN m ELSE WithTable(upto[i - 1], vm, i)
    IN  upto[last]

\* Map the virtual page at an address, whose section has a table, to a page.
SetEntry(m, vm, physical, virtual_addr, access_permissions) ==
    IF m.null_used THEN m
    ELSE [m EXCEPT !.table[m.section[vm][SECTION_INDEX(virtual_addr)]][PAGE_INDEX(virtual_addr)] =
            [desc_type |-> PAGE_DESC, ap |-> access_permissions, base |-> physical]]

\* Map count virtual pages from first on to the physical pages from base on;
\* their sections have tables.
SetEntries(m, vm, first, count, base, access_permissions) ==
    LET sections == SECTION_INDEX(4 * first) .. SECTION_INDEX(4 * (first + count) - 4)
        SetIn(chunk, i) ==
            [k \in PageIndexes |->
                LET n == i * PAGES_PER_TABLE + k - first IN
                IF n \in 0 .. count - 1
                THEN [desc_type |-> PAGE_DESC, ap |-> access_permissions, base |-> base + n]
                ELSE m.table[chunk][k]]
    IN  IF m.null_used THEN m
        ELSE [m EXCEPT !.table =
                [chunk \in DOMAIN @ |->
                    IF \E i \in sections : m.section[vm][i] = chunk
                    THEN SetIn(chunk, CHOOSE i \in sections : m.section[vm][i] = chunk)
                    ELSE @[chunk]]]

\* mapping is a struct MemoryMapping.  map_page, called for one page after the
\* other, allocates a table when it meets a new section and sets one entry.
map_pages(m, vm, mapping) ==
    LET base == RoundDownToPage(mapping.physical_start)
        count == RoundUpToPage(mapping.physical_end) - base
        first == RoundDownToPage(mapping.virtual_address)
    IN  SetEntries(
            WithTables(m, vm, SECTION_INDEX(4 * first), SECTION_INDEX(4 * (first + count) - 4)),
            vm, first, count, base, mapping.access_permissions)

\* map_pages of a single page.
map_page(m, vm, physical, virtual_addr, access_permissions) ==
    SetEntry(WithTable(m, vm, SECTION_INDEX(virtual_addr)),
             vm, physical, virtual_addr, access_permissions)

\* The mappings of RAM; devices and the interrupt vectors, which are mapped the
\* same way, are left out.
kernel_mappings ==
    << [virtual_address |-> KERNEL_BASE, physical_start |-> 0,
        physical_end |-> KERNEL_END, access_permissions |-> "AP_RW_D"],
       [virtual_address |-> KERNEL_BASE + ALLOCATABLE_START, physical_start |-> ALLOCATABLE_START,
        physical_end |-> TOTAL_SIZE, access_permissions |-> "AP_RW_D"] >>

setup_kernel_vm(m, vm) ==
    LET cleared == [m EXCEPT !.section[vm] = EmptySections] IN
    map_pages(map_pages(cleared, vm, kernel_mappings[1]), vm, kernel_mappings[2])

-----------------------------------------------------------------------------
\* Clears the entry's type only: the frame number stays behind.
unmap_page(m, vm, va) ==
    [m EXCEPT !.table[m.section[vm][SECTION_INDEX(va)]][PAGE_INDEX(va)].desc_type = 0]

\* Looks at frame numbers only, never at the type of an entry.
resolve_physical_address(m, vm, va) ==
    m.table[m.section[vm][SECTION_INDEX(va)]][PAGE_INDEX(va)].base

\* kfree1k for every table; the section table itself is left as it is.
free_vm_page_tables(m, vm) ==
    LET tables == {m.section[vm][i] : i \in Sections} \ {NO_CHUNK} IN
    [m EXCEPT !.free1k = @ \cup tables,
              !.table = Restrict(@, DOMAIN @ \ tables)]

-----------------------------------------------------------------------------
(***************************************************************************)
(* What the MMU (external) does with these tables.                         *)
(***************************************************************************)
VirtualPages == {4 * i : i \in 0 .. SECTION_COUNT * PAGES_PER_TABLE - 1}

Entry(m, vm, va) ==
    IF m.section[vm][SECTION_INDEX(va)] = NO_CHUNK THEN EmptyTable[PAGE_INDEX(va)]
    ELSE m.table[m.section[vm][SECTION_INDEX(va)]][PAGE_INDEX(va)]

\* What user code may do at va: write ("AP_RW_RW"), read ("AP_RW_R") or nothing.
UserAccess(m, vm, va) ==
    LET e == Entry(m, vm, va) IN
    IF e.desc_type = PAGE_DESC /\ e.ap \in {"AP_RW_RW", "AP_RW_R"} THEN e.ap ELSE "none"
=============================================================================
