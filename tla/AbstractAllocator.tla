-------------------------- MODULE AbstractAllocator --------------------------
(***************************************************************************)
(* What the allocator promises: memory handed over is free, held as a      *)
(* page, or held or free as the quarters of a page that was cut up; an     *)
(* allocation takes some free page or chunk, and cuts a page only when no  *)
(* chunk is free.                                                          *)
(***************************************************************************)
EXTENDS Integers

CONSTANTS
    FirstRegion,  \* the pages handed over at the start
    SecondRegion  \* the pages handed over later

VARIABLES free4k, free1k, held4k, held1k

abstractVars == <<free4k, free1k, held4k, held1k>>

QuartersOf(page) == {page} \X (0 .. 3)

AInit ==
    /\ free4k = FirstRegion
    /\ free1k = {} /\ held4k = {} /\ held1k = {}

\* Only once: nothing of the region is known yet.
HandOver ==
    /\ SecondRegion \cap (free4k \cup held4k \cup {chunk[1] : chunk \in free1k \cup held1k}) = {}
    /\ free4k' = free4k \cup SecondRegion
    /\ UNCHANGED <<free1k, held4k, held1k>>

GivePage(page) ==
    /\ free4k' = free4k \ {page}
    /\ held4k' = held4k \cup {page}
    /\ UNCHANGED <<free1k, held1k>>

TakePage(page) ==
    /\ free4k' = free4k \cup {page}
    /\ held4k' = held4k \ {page}
    /\ UNCHANGED <<free1k, held1k>>

GiveChunk(chunk) ==
    /\ free1k' = free1k \ {chunk}
    /\ held1k' = held1k \cup {chunk}
    /\ UNCHANGED <<free4k, held4k>>

CutPageAndGive(page, chunk) ==
    /\ free1k = {}
    /\ free4k' = free4k \ {page}
    /\ free1k' = QuartersOf(page) \ {chunk}
    /\ held1k' = held1k \cup {chunk}
    /\ UNCHANGED held4k

TakeChunk(chunk) ==
    /\ free1k' = free1k \cup {chunk}
    /\ held1k' = held1k \ {chunk}
    /\ UNCHANGED <<free4k, held4k>>

ANext ==
    \/ HandOver
    \/ \E page \in free4k : GivePage(page) \/ \E chunk \in QuartersOf(page) : CutPageAndGive(page, chunk)
    \/ \E page \in held4k : TakePage(page)
    \/ \E chunk \in free1k : GiveChunk(chunk)
    \/ \E chunk \in held1k : TakeChunk(chunk)

ASpec == AInit /\ [][ANext]_abstractVars
=============================================================================
