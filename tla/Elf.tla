--------------------------------- MODULE Elf --------------------------------
(***************************************************************************)
(* load_elf: the checks of the program headers, and the copy of each       *)
(* segment page by page, through the kernel's view of the frames behind    *)
(* the new heap.  Sizes and addresses are words; the byte at offset n of   *)
(* the file is n + 1, so that a cleared byte, 0, is told from all of them. *)
(***************************************************************************)
EXTENDS Integers, Sequences, FiniteSets, FiniteSetsExt

CONSTANTS
  Files,           \* [valid, entry, ph, size]: the fixed fields of the ELF header
                   \* are right, the entry point, the program headers, the size
  WORD,            \* the number of values of a uint32_t
  PAGE_SIZE, IMAGE_LIMIT, HEADER_LIMIT

Headers ==
  [type : Nat, vaddr : Nat, memsz : Nat, filesz : Nat, off : Nat, exec : BOOLEAN]

ASSUME ElfAssumption ==
  /\ Files \subseteq [valid : BOOLEAN, entry : Nat, ph : Seq(Headers), size : Nat]
  /\ PAGE_SIZE \in Nat \ {0} /\ HEADER_LIMIT \in Nat
  /\ WORD \in Nat /\ IMAGE_LIMIT \in 0 .. WORD - 1

VARIABLES
  file, at,        \* at: "idle", "header", "check", "copy", "true" or "false"
  n,               \* the program header of the loop's turn
  end, entry_found,
  heap,            \* bytes of the heap, from address 0
  offset,          \* the bytes of the segment already copied
  readFailed       \* fat_read reported an error

elfVars == <<file, at, n, end, entry_found, heap, offset, readFailed>>

PT_LOAD == 1

NoFile == [valid |-> FALSE, entry |-> 0, ph |-> <<>>, size |-> 0]
Empty == [a \in {} |-> 0]

ElfInit ==
  /\ file = NoFile /\ at = "idle" /\ n = 1
  /\ end = 0 /\ entry_found = FALSE /\ heap = Empty
  /\ offset = 0 /\ readFailed = FALSE

segment == file.ph[n]

LoadFile ==
  /\ at = "idle"
  /\ file' \in Files /\ at' = "header"
  /\ UNCHANGED <<n, end, entry_found, heap, offset, readFailed>>

HeaderFits ==
  file.valid /\ Len(file.ph) \in 1 .. HEADER_LIMIT /\ file.entry % 4 = 0

\* The two reads of headers, either of which may fail.
ReadHeaders ==
  /\ at = "header"
  /\ \/ HeaderFits /\ at' = "check" /\ UNCHANGED readFailed
     \/ ~HeaderFits /\ at' = "false" /\ UNCHANGED readFailed
     \/ at' = "false" /\ readFailed' = TRUE
  /\ UNCHANGED <<file, n, end, entry_found, heap, offset>>

\* The memory test on the sum, which may wrap around.
FitsBySum ==
  /\ segment.filesz <= segment.memsz
  /\ (segment.vaddr + segment.memsz) % WORD <= IMAGE_LIMIT
  /\ segment.off <= file.size /\ segment.filesz <= file.size - segment.off

SegmentFits ==
  /\ segment.filesz <= segment.memsz
  /\ segment.vaddr <= IMAGE_LIMIT /\ segment.memsz <= IMAGE_LIMIT - segment.vaddr
  /\ segment.off <= file.size /\ segment.filesz <= file.size - segment.off

EntryInside ==
  segment.exec /\ file.entry >= segment.vaddr /\ file.entry - segment.vaddr < segment.filesz

CheckSegment ==
  /\ at = "check" /\ n <= Len(file.ph)
  /\ \/ /\ segment.type \in {2, 3} \/ (segment.type = PT_LOAD /\ ~SegmentFits)
        /\ at' = "false" /\ UNCHANGED <<n, end, entry_found>>
     \/ /\ segment.type = PT_LOAD /\ SegmentFits
        /\ end' = Max({end, (segment.vaddr + segment.memsz) % WORD})
        /\ entry_found' = (entry_found \/ EntryInside)
        /\ n' = n + 1 /\ UNCHANGED at
     \/ /\ segment.type \notin {PT_LOAD, 2, 3}
        /\ n' = n + 1 /\ UNCHANGED <<at, end, entry_found>>
  /\ UNCHANGED <<file, heap, offset, readFailed>>

ROUND_UP(x) == ((x + PAGE_SIZE - 1) \div PAGE_SIZE) * PAGE_SIZE

\* proc_expand_memory: cleared pages up to the end of the last segment.
Expand ==
  /\ at = "check" /\ n > Len(file.ph)
  /\ IF entry_found
     THEN at' = "copy" /\ heap' = [a \in 0 .. ROUND_UP(end) - 1 |-> 0]
     ELSE at' = "false" /\ UNCHANGED heap
  /\ n' = 1
  /\ UNCHANGED <<file, end, entry_found, offset, readFailed>>

NextSegment ==
  /\ at = "copy" /\ n <= Len(file.ph)
  /\ segment.type # PT_LOAD \/ offset >= segment.memsz
  /\ n' = n + 1 /\ offset' = 0
  /\ UNCHANGED <<file, at, end, entry_found, heap, readFailed>>

address == segment.vaddr + offset

\* The part that is in the file is not cut where the file's part ends.
ChunkToMemoryEnd ==
  Min({PAGE_SIZE - (address % PAGE_SIZE), segment.memsz - offset})

\* A chunk ends with the page, with the segment, and with the file's part.
Chunk ==
  Min({PAGE_SIZE - (address % PAGE_SIZE), segment.memsz - offset}
        \union (IF offset < segment.filesz THEN {segment.filesz - offset} ELSE {}))

\* fat_read or memset of one chunk.
CopyChunk ==
  /\ at = "copy" /\ n <= Len(file.ph)
  /\ segment.type = PT_LOAD /\ offset < segment.memsz
  /\ heap' = [a \in DOMAIN heap |->
                IF a \in address .. address + Chunk - 1
                THEN IF offset < segment.filesz
                     THEN segment.off + (a - segment.vaddr) + 1 ELSE 0
                ELSE heap[a]]
  /\ offset' = offset + Chunk
  /\ UNCHANGED <<file, at, n, end, entry_found, readFailed>>

ReadError ==
  /\ at = "copy" /\ n <= Len(file.ph)
  /\ segment.type = PT_LOAD /\ offset < segment.filesz
  /\ at' = "false" /\ readFailed' = TRUE
  /\ UNCHANGED <<file, n, end, entry_found, heap, offset>>

Loaded ==
  /\ at = "copy" /\ n > Len(file.ph)
  /\ at' = "true"
  /\ UNCHANGED <<file, n, end, entry_found, heap, offset, readFailed>>

\* proc_load_program takes the image over, or frees it.
LoadReturns ==
  /\ at \in {"true", "false"}
  /\ file' = NoFile /\ at' = "idle" /\ n' = 1
  /\ end' = 0 /\ entry_found' = FALSE /\ heap' = Empty
  /\ offset' = 0 /\ readFailed' = FALSE

ElfNext ==
  \/ LoadFile \/ ReadHeaders \/ CheckSegment \/ Expand \/ NextSegment
  \/ CopyChunk \/ ReadError \/ Loaded \/ LoadReturns

ElfSpec == ElfInit /\ [][ElfNext]_elfVars

-----------------------------------------------------------------------------
\* A file as the loader should see it, in unbounded arithmetic: the segments
\* to load, whether it can be executed, and the memory it describes, where a
\* later segment covers an earlier one.
Segments(f) == {k \in DOMAIN f.ph : f.ph[k].type = PT_LOAD}

Executable(f) ==
  /\ f.valid /\ Len(f.ph) \in 1 .. HEADER_LIMIT /\ f.entry % 4 = 0
  /\ \A k \in DOMAIN f.ph : f.ph[k].type \notin {2, 3}
  /\ \A k \in Segments(f) :
       /\ f.ph[k].filesz <= f.ph[k].memsz
       /\ f.ph[k].vaddr + f.ph[k].memsz <= IMAGE_LIMIT
       /\ f.ph[k].off + f.ph[k].filesz <= f.size
  /\ \E k \in Segments(f) :
       f.ph[k].exec /\ f.entry \in f.ph[k].vaddr .. f.ph[k].vaddr + f.ph[k].filesz - 1

ByteOf(s, a) == IF a - s.vaddr < s.filesz THEN s.off + (a - s.vaddr) + 1 ELSE 0

ImageByte(f, a) ==
  LET covering == {k \in Segments(f) :
                     a \in f.ph[k].vaddr .. f.ph[k].vaddr + f.ph[k].memsz - 1}
  IN  IF covering = {} THEN 0 ELSE ByteOf(f.ph[Max(covering)], a)

\* load_elf (syscall_exec.c:9): it succeeds on exactly the files that describe
\* a program within IMAGE_LIMIT with its entry in loaded code, unless a read
\* fails, and then the heap holds exactly that program: every byte of every
\* segment, also of one that starts or ends inside a page, and zeros elsewhere.
LoadsImage ==
  /\ at = "true" => /\ Executable(file)
                    /\ \A a \in DOMAIN heap : heap[a] = ImageByte(file, a)
  /\ at = "false" => readFailed \/ ~Executable(file)

\* load_elf writes through P2V of one frame at a time: every chunk lies in one
\* page, and that page belongs to the new heap, which stays within IMAGE_LIMIT
\* rounded up to a page.
WritesInsideFrame ==
  at = "copy" /\ n <= Len(file.ph) /\ segment.type = PT_LOAD /\ offset < segment.memsz =>
    /\ (address % PAGE_SIZE) + Chunk <= PAGE_SIZE /\ Chunk > 0
    /\ address .. address + Chunk - 1 \subseteq DOMAIN heap
    /\ Cardinality(DOMAIN heap) <= ROUND_UP(IMAGE_LIMIT)
=============================================================================
