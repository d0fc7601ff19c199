------------------------------ MODULE Allocator ------------------------------
(***************************************************************************)
(* The allocator as a state machine, used by clients that give back only   *)
(* what they hold.  (That the kernel's own code is such a client is what   *)
(* module ProcMemory checks.)  c_entry hands memory over in two regions:   *)
(* the part the boot page table maps, and after vm_init the rest.          *)
(***************************************************************************)
EXTENDS Kalloc, FiniteSets

CONSTANTS
    ALLOCATABLE_START,  \* in KB; need not be page aligned (it follows kernel_end)
    INITIAL_SIZE,       \* end of the memory mapped at boot
    TOTAL_SIZE          \* end of memory

\* kalloc_init counts up to the rounded end with !=, so the rounded start must
\* not be past it; page 0 holds the interrupt vectors.
ASSUME RegionAssumption ==
    /\ ALLOCATABLE_START \in Nat \ {0} /\ INITIAL_SIZE \in Nat /\ TOTAL_SIZE \in Nat
    /\ RoundUpToPage(ALLOCATABLE_START) <= RoundDownToPage(INITIAL_SIZE)
    /\ RoundUpToPage(INITIAL_SIZE) <= RoundDownToPage(TOTAL_SIZE)

VARIABLES
    m,        \* the two free lists
    regions,  \* how many of the two regions have been handed over
    held4k,   \* pages kalloc returned and kfree has not taken back
    held1k    \* chunks kalloc1k returned and kfree1k has not taken back

allocVars == <<m, regions, held4k, held1k>>

-----------------------------------------------------------------------------
Region1 == RoundUpToPage(ALLOCATABLE_START) .. RoundDownToPage(INITIAL_SIZE) - 1
Region2 == RoundUpToPage(INITIAL_SIZE) .. RoundDownToPage(TOTAL_SIZE) - 1

\* The pages handed over so far.
Managed == IF regions = 1 THEN Region1 ELSE Region1 \cup Region2

EmptyLists == [free_list_4k |-> <<>>, free_list_1k |-> <<>>]

AllocInit ==
    /\ m = kalloc_init(EmptyLists, ALLOCATABLE_START, INITIAL_SIZE)
    /\ regions = 1
    /\ held4k = {}
    /\ held1k = {}

AddRegion ==
    /\ regions = 1
    /\ regions' = 2
    /\ m' = kalloc_init(m, INITIAL_SIZE, TOTAL_SIZE)
    /\ UNCHANGED <<held4k, held1k>>

Kalloc4k ==
    /\ m' = kalloc(m).mem
    /\ held4k' = IF kalloc(m).ret = NO_PAGE THEN held4k ELSE held4k \cup {kalloc(m).ret}
    /\ UNCHANGED <<regions, held1k>>

Kfree4k(page) ==
    /\ m' = kfree(m, page)
    /\ held4k' = held4k \ {page}
    /\ UNCHANGED <<regions, held1k>>

Kalloc1k ==
    /\ m' = kalloc1k(m).mem
    /\ held1k' = IF kalloc1k(m).ret = NO_CHUNK THEN held1k ELSE held1k \cup {kalloc1k(m).ret}
    /\ UNCHANGED <<regions, held4k>>

Kfree1k(chunk) ==
    /\ m' = kfree1k(m, chunk)
    /\ held1k' = held1k \ {chunk}
    /\ UNCHANGED <<regions, held4k>>

AllocNext ==
    \/ AddRegion
    \/ Kalloc4k
    \/ \E page \in held4k : Kfree4k(page)
    \/ Kalloc1k
    \/ \E chunk \in held1k : Kfree1k(chunk)

AllocSpec == AllocInit /\ [][AllocNext]_allocVars

-----------------------------------------------------------------------------
FreePages == Range(m.free_list_4k)
FreeChunks == Range(m.free_list_1k)
SplitPages == Managed \ (FreePages \cup held4k)

\* The lists of kalloc.c hold pages and quarters of pages handed to kalloc_init.
AllocTypeOK ==
    /\ m \in [free_list_4k : Seq(Managed), free_list_1k : Seq(Managed \X Quarters)]
    /\ regions \in {1, 2}
    /\ held4k \in SUBSET Managed
    /\ held1k \in SUBSET (Managed \X Quarters)

\* No memory is given out twice: the lists repeat nothing, nothing free is held,
\* and no chunk, free or held, lies in a page that is itself free or held.
NothingShared ==
    /\ IsInjective(m.free_list_4k) /\ IsInjective(m.free_list_1k)
    /\ FreePages \cap held4k = {}
    /\ FreeChunks \cap held1k = {}
    /\ \A chunk \in FreeChunks \cup held1k : chunk[1] \in SplitPages

\* No memory is lost: a page that is neither free nor held has been cut up, and
\* all four of its quarters are accounted for.
NothingLost ==
    \A page \in SplitPages : ChunksOf(page) \subseteq FreeChunks \cup held1k

\* get_free_memory_size() is what was handed over less what is held.
FreeSizeAccounts ==
    get_free_memory_size(m) + 4 * Cardinality(held4k) + Cardinality(held1k)
        = 4 * Cardinality(Managed)

Abs == INSTANCE AbstractAllocator WITH
    FirstRegion <- Region1,
    SecondRegion <- Region2,
    free4k <- FreePages,
    free1k <- FreeChunks

\* The free lists implement the pool of module AbstractAllocator, on which the
\* rest of the kernel is modelled.
ImplementsPool == Abs!ASpec
=============================================================================
