------------------------------- MODULE Kalloc -------------------------------
(***************************************************************************)
(* The kernel's physical memory allocator (kernel/memory/kalloc.c): a free *)
(* list of 4 KB pages and a free list of 1 KB chunks, refilled by cutting  *)
(* up a page.  The operations are operators on a record m with the fields  *)
(* free_list_4k and free_list_1k, so that other modules can compose them.  *)
(*                                                                         *)
(* An address is abstracted to a page number, and within a page to a       *)
(* quarter: <<page, i>> is the chunk at page + i * 1024.                   *)
(***************************************************************************)
EXTENDS Integers, Sequences, Functions

NO_PAGE == 0          \* NULL as a page
NO_CHUNK == <<0, 0>>  \* NULL as a chunk

Quarters == 0 .. 3

ChunksOf(page) == {<<page, i>> : i \in Quarters}

-----------------------------------------------------------------------------
page_list_prepend(page_list, page) == <<page>> \o page_list

kfree(m, page) == [m EXCEPT !.free_list_4k = page_list_prepend(@, page)]

kfree1k(m, page) == [m EXCEPT !.free_list_1k = page_list_prepend(@, page)]

\* Mutant: the list is not advanced past the page returned.
KallocKeepsHead(m) ==
    [ret |-> IF m.free_list_4k # <<>> THEN Head(m.free_list_4k) ELSE NO_PAGE, mem |-> m]

\* kalloc returns a page (ret) and leaves the lists in mem.
kalloc(m) ==
    IF m.free_list_4k # <<>>
    THEN [ret |-> Head(m.free_list_4k), mem |-> [m EXCEPT !.free_list_4k = Tail(@)]]
    ELSE [ret |-> NO_PAGE, mem |-> m]

\* Mutant: the last quarter is forgotten.
CutThree(m, page) == kfree1k(kfree1k(kfree1k(m, <<page, 0>>), <<page, 1>>), <<page, 2>>)

\* The four kfree1k calls on the quarters of a page.
CutPage(m, page) ==
    kfree1k(kfree1k(kfree1k(kfree1k(m, <<page, 0>>), <<page, 1>>), <<page, 2>>), <<page, 3>>)

\* Mutant: a page is cut up although there are free chunks.
RefillAlways(m) ==
    IF kalloc(m).ret # NO_PAGE THEN CutPage(kalloc(m).mem, kalloc(m).ret) ELSE m

\* With no free chunk, convert a page into four, if there is one.
Refill(m) ==
    IF m.free_list_1k = <<>> /\ kalloc(m).ret # NO_PAGE
    THEN CutPage(kalloc(m).mem, kalloc(m).ret)
    ELSE m

kalloc1k(m) ==
    LET filled == Refill(m) IN
    IF filled.free_list_1k # <<>>
    THEN [ret |-> Head(filled.free_list_1k), mem |-> [filled EXCEPT !.free_list_1k = Tail(@)]]
    ELSE [ret |-> NO_CHUNK, mem |-> filled]

-----------------------------------------------------------------------------
\* kalloc_init rounds the region, given in KB, to whole pages and prepends them
\* in ascending order.
RoundUpToPage(kb) == (kb + 3) \div 4

RoundDownToPage(kb) == kb \div 4

PageCount(start, end) == RoundDownToPage(end) - RoundUpToPage(start)

kalloc_init(m, start, end) ==
    [m EXCEPT !.free_list_4k =
        [i \in 1 .. PageCount(start, end) |-> RoundDownToPage(end) - i] \o @]

\* Mutant: a page counts as much as a chunk.
SizeOfUnits(m) == Len(m.free_list_1k) + Len(m.free_list_4k)

\* In KB.
get_free_memory_size(m) == Len(m.free_list_1k) + 4 * Len(m.free_list_4k)
=============================================================================
