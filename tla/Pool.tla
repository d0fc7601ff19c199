-------------------------------- MODULE Pool --------------------------------
(***************************************************************************)
(* The allocator as its clients see it: a set of free pages and a set of   *)
(* free chunks, from which an allocation takes some element.  Module       *)
(* AbstractAllocator states this as a specification that the free lists of *)
(* kalloc.c implement; here are the same operations as operators on a      *)
(* record m with the fields free4k and free1k, for the modules that use    *)
(* them.  CHOOSE stands for "some": no client can tell free pages apart,   *)
(* so the list order of kalloc.c only renames the pages it gets.           *)
(***************************************************************************)
EXTENDS Integers

NO_PAGE == 0          \* NULL as a page
NO_CHUNK == <<0, 0>>  \* NULL as a chunk

Quarters == 0 .. 3

RoundUpToPage(kb) == (kb + 3) \div 4
RoundDownToPage(kb) == kb \div 4

Some(S) == CHOOSE x \in S : TRUE

-----------------------------------------------------------------------------
kfree(m, page) == [m EXCEPT !.free4k = @ \cup {page}]

kfree1k(m, chunk) == [m EXCEPT !.free1k = @ \cup {chunk}]

\* kalloc returns a page (ret) and leaves the pool in mem.
kalloc(m) ==
    IF m.free4k = {} THEN [ret |-> NO_PAGE, mem |-> m]
    ELSE [ret |-> Some(m.free4k), mem |-> [m EXCEPT !.free4k = @ \ {Some(@)}]]

\* Cut an allocated page into four chunks.
CutPage(a) == [a.mem EXCEPT !.free1k = {a.ret} \X Quarters]

\* With no free chunk, cut a page, if there is one.
Refill(m) == IF m.free1k # {} \/ m.free4k = {} THEN m ELSE CutPage(kalloc(m))

TakeChunk(m) ==
    IF m.free1k = {} THEN [ret |-> NO_CHUNK, mem |-> m]
    ELSE [ret |-> Some(m.free1k), mem |-> [m EXCEPT !.free1k = @ \ {Some(@)}]]

kalloc1k(m) == TakeChunk(Refill(m))

\* The whole pages between two addresses in KB.
kalloc_init(m, start, end) ==
    [m EXCEPT !.free4k = @ \cup (RoundUpToPage(start) .. RoundDownToPage(end) - 1)]
=============================================================================
