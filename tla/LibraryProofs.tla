--------------------------- MODULE LibraryProofs ----------------------------
(***************************************************************************)
(* Proofs about the sequential parts that MCLibrary puts side by side: the *)
(* program loader, the division, the keys and the line editor, for every   *)
(* file, word, table and buffer.                                           *)
(***************************************************************************)
EXTENDS Gets, Hextee, Elf, Divmod, FiniteSetTheorems, Numbers, TLAPS

FileType == [valid : BOOLEAN, entry : Nat, ph : Seq(Headers), size : Nat]

ElfTypeOK ==
  /\ file \in FileType
  /\ at \in {"idle", "header", "check", "copy", "true", "false"}
  /\ n \in Nat \ {0} /\ end \in Nat /\ offset \in Nat
  /\ entry_found \in BOOLEAN /\ readFailed \in BOOLEAN

\* Header k of f describes a segment that lies in its file and in the image.
Fits(f, k) ==
  /\ f.ph[k].filesz <= f.ph[k].memsz
  /\ f.ph[k].vaddr + f.ph[k].memsz <= IMAGE_LIMIT
  /\ f.ph[k].off + f.ph[k].filesz <= f.size

EntryIn(f, k) ==
  f.ph[k].exec /\ f.entry \in f.ph[k].vaddr .. f.ph[k].vaddr + f.ph[k].filesz - 1

\* What the first loop knows before its turn m, when it has come to the end e
\* and has found the entry point or not.
Checked(f, m, e, found) ==
  /\ \A k \in DOMAIN f.ph : k < m => f.ph[k].type \notin {2, 3}
  /\ \A k \in Segments(f) : k < m => Fits(f, k) /\ f.ph[k].vaddr + f.ph[k].memsz <= e
  /\ e <= IMAGE_LIMIT
  /\ found <=> \E k \in Segments(f) : k < m /\ EntryIn(f, k)

HeaderOK(f) == f.valid /\ Len(f.ph) \in 1 .. HEADER_LIMIT /\ f.entry % 4 = 0

\* The segments copied to address a when the second loop is at byte o of
\* segment m, and the byte they leave there.
Reach(f, k, m, o) == IF k < m THEN f.ph[k].memsz ELSE IF k = m THEN o ELSE 0

Covering(f, m, o, a) ==
  {k \in Segments(f) : a \in f.ph[k].vaddr .. f.ph[k].vaddr + Reach(f, k, m, o) - 1}

Copied(f, m, o, a) ==
  IF Covering(f, m, o, a) = {} THEN 0
  ELSE ByteOf(f.ph[Max(Covering(f, m, o, a))], a)

Checking == HeaderOK(file) /\ offset = 0 /\ Checked(file, n, end, entry_found)

\* Outside a segment to load there is nothing to copy.
Within ==
  \/ offset = 0
  \/ n <= Len(file.ph) /\ segment.type = PT_LOAD /\ offset <= segment.memsz

CopyingImage ==
  /\ HeaderOK(file) /\ Checked(file, Len(file.ph) + 1, end, TRUE)
  /\ Within
  /\ DOMAIN heap = 0 .. ROUND_UP(end) - 1
  /\ \A a \in DOMAIN heap : heap[a] = Copied(file, n, offset, a)

\* The inductive invariant of load_elf: the headers before the first loop's
\* turn have passed every test and end is behind all their segments; in the
\* second loop the heap holds what the segments so far have put there.
ElfInv ==
  /\ ElfTypeOK
  /\ n <= Len(file.ph) + 1
  /\ at \in {"idle", "header"} =>
       n = 1 /\ end = 0 /\ entry_found = FALSE /\ offset = 0
  /\ at = "check" => Checking
  /\ at = "copy" => CopyingImage
  /\ LoadsImage

-----------------------------------------------------------------------------
(***************************************************************************)
(* Greatest and least elements, and rounding to pages.                    *)
(***************************************************************************)
\* The last of a set of headers is one of them.
LEMMA MaxOf ==
  ASSUME NEW N \in Nat, NEW S, S \subseteq 1 .. N, S # {}
  PROVE  Max(S) \in S /\ \A k \in S : k <= Max(S)
<1> DEFINE T == {m \in Nat : N - m \in S}
<1>1. T \subseteq Nat /\ T # {}
  <2>1. PICK k \in S : k \in 1 .. N
    OBVIOUS
  <2>2. N - k \in T
    BY <2>1
  <2> QED
    BY <2>2
<1>2. PICK m \in T : \A k \in T : m <= k
  <2> HIDE DEF T
  <2> QED
    BY <1>1, LeastElement
<1>3. N - m \in S /\ \A k \in S : N - m >= k
  <2>1. ASSUME NEW k \in S PROVE N - m >= k
    <3>1. k \in 1 .. N
      OBVIOUS
    <3>2. N - k \in Nat /\ N - (N - k) = k
      BY <3>1
    <3>3. N - k \in T
      BY <3>2
    <3> QED
      BY <1>2, <3>1, <3>3
  <2> QED
    BY <2>1
<1>4. \E x \in S : \A y \in S : x >= y
  BY <1>3
<1>5. Max(S) \in S /\ \A k \in S : Max(S) >= k
  BY <1>4 DEF Max
<1> QED
  BY <1>5

\* The greater of two numbers.
LEMMA MaxOfTwo ==
  ASSUME NEW x \in Nat, NEW y \in Nat
  PROVE  Max({x, y}) = IF x >= y THEN x ELSE y
<1>1. \E a \in {x, y} : \A b \in {x, y} : a >= b
  OBVIOUS
<1>2. Max({x, y}) \in {x, y} /\ \A b \in {x, y} : Max({x, y}) >= b
  BY <1>1 DEF Max
<1> QED
  BY <1>2

\* The least of two and of three numbers.
LEMMA MinOfTwo ==
  ASSUME NEW x \in Int, NEW y \in Int
  PROVE  Min({x, y}) \in {x, y} /\ Min({x, y}) <= x /\ Min({x, y}) <= y
<1>1. \E a \in {x, y} : \A b \in {x, y} : a =< b
  OBVIOUS
<1> QED
  BY <1>1 DEF Min

\* The least of three numbers.
LEMMA MinOfThree ==
  ASSUME NEW x \in Int, NEW y \in Int, NEW z \in Int
  PROVE  /\ Min({x, y, z}) \in {x, y, z}
         /\ Min({x, y, z}) <= x /\ Min({x, y, z}) <= y /\ Min({x, y, z}) <= z
<1>1. \E a \in {x, y, z} : \A b \in {x, y, z} : a =< b
  OBVIOUS
<1> QED
  BY <1>1 DEF Min

\* Rounding up to a page makes no number smaller.
LEMMA RoundUp ==
  ASSUME NEW x \in Nat
  PROVE  ROUND_UP(x) \in Nat /\ x <= ROUND_UP(x)
<1> DEFINE q == (x + PAGE_SIZE - 1) \div PAGE_SIZE
           r == (x + PAGE_SIZE - 1) % PAGE_SIZE
<1>1. PAGE_SIZE \in Nat \ {0} /\ x + PAGE_SIZE - 1 \in Nat
  BY ElfAssumption
<1>2. /\ q \in Nat /\ r \in 0 .. PAGE_SIZE - 1
      /\ x + PAGE_SIZE - 1 = PAGE_SIZE * q + r
  BY <1>1, Division
<1>3. ROUND_UP(x) = q * PAGE_SIZE
  BY DEF ROUND_UP
<1> HIDE DEF q, r
<1>4. PAGE_SIZE * q \in Nat /\ q * PAGE_SIZE = PAGE_SIZE * q
  BY <1>1, <1>2
<1> QED
  BY <1>1, <1>2, <1>3, <1>4

\* Rounding up keeps the order.
LEMMA RoundUpMonotonic ==
  ASSUME NEW x \in Nat, NEW y \in Nat, x <= y
  PROVE  ROUND_UP(x) <= ROUND_UP(y)
<1> DEFINE p == (x + PAGE_SIZE - 1) \div PAGE_SIZE
           q == (y + PAGE_SIZE - 1) \div PAGE_SIZE
<1>1. /\ PAGE_SIZE \in Nat \ {0}
      /\ x + PAGE_SIZE - 1 \in Nat /\ y + PAGE_SIZE - 1 \in Nat
      /\ x + PAGE_SIZE - 1 <= y + PAGE_SIZE - 1
  BY ElfAssumption
<1>2. p \in Nat /\ q \in Nat /\ p <= q
  BY <1>1, Division, DivisionMonotonic
<1>3. ROUND_UP(x) = p * PAGE_SIZE /\ ROUND_UP(y) = q * PAGE_SIZE
  BY DEF ROUND_UP
<1> HIDE DEF p, q
<1>4. /\ p * PAGE_SIZE \in Nat /\ q * PAGE_SIZE \in Nat
      /\ p * PAGE_SIZE = PAGE_SIZE * p /\ q * PAGE_SIZE = PAGE_SIZE * q
  BY <1>1, <1>2
<1>5. CASE p < q
  BY <1>1, <1>2, <1>3, <1>4, <1>5, Multiples
<1>6. CASE p = q
  BY <1>3, <1>4, <1>6
<1> QED
  BY <1>2, <1>5, <1>6

-----------------------------------------------------------------------------
(***************************************************************************)
(* load_elf.                                                               *)
(***************************************************************************)
LEMMA HeaderTypes ==
  ASSUME NEW f \in FileType
  PROVE  /\ f.valid \in BOOLEAN /\ f.entry \in Nat /\ f.size \in Nat
         /\ Len(f.ph) \in Nat /\ DOMAIN f.ph = 1 .. Len(f.ph)
         /\ \A k \in 1 .. Len(f.ph) :
              /\ f.ph[k].type \in Nat /\ f.ph[k].vaddr \in Nat
              /\ f.ph[k].memsz \in Nat /\ f.ph[k].filesz \in Nat
              /\ f.ph[k].off \in Nat /\ f.ph[k].exec \in BOOLEAN
         /\ Segments(f) = {k \in 1 .. Len(f.ph) : f.ph[k].type = PT_LOAD}
<1>1. f.valid \in BOOLEAN /\ f.entry \in Nat /\ f.size \in Nat /\ f.ph \in Seq(Headers)
  BY DEF FileType
<1>2. Len(f.ph) \in Nat /\ DOMAIN f.ph = 1 .. Len(f.ph)
  BY <1>1
<1>3. ASSUME NEW k \in 1 .. Len(f.ph)
      PROVE  /\ f.ph[k].type \in Nat /\ f.ph[k].vaddr \in Nat
             /\ f.ph[k].memsz \in Nat /\ f.ph[k].filesz \in Nat
             /\ f.ph[k].off \in Nat /\ f.ph[k].exec \in BOOLEAN
  <2>1. f.ph[k] \in Headers
    BY <1>1
  <2> QED
    BY <2>1 DEF Headers
<1> QED
  BY <1>1, <1>2, <1>3 DEF Segments

\* The fields of the segment a turn looks at are numbers.
LEMMA SegmentTypes ==
  ASSUME ElfTypeOK, n <= Len(file.ph)
  PROVE  /\ n \in 1 .. Len(file.ph) /\ segment = file.ph[n]
         /\ file.size \in Nat /\ file.entry \in Nat /\ offset \in Nat
         /\ segment.vaddr \in Nat /\ segment.memsz \in Nat
         /\ segment.filesz \in Nat /\ segment.off \in Nat /\ segment.type \in Nat
<1>1. file \in FileType /\ n \in Nat \ {0} /\ offset \in Nat
  BY DEF ElfTypeOK
<1>2. n \in 1 .. Len(file.ph)
  BY <1>1, HeaderTypes
<1> QED
  BY <1>1, <1>2, HeaderTypes DEF segment

\* A chunk is not empty and ends with the page, with the segment and with the
\* file's part of it.
LEMMA ChunkIs ==
  ASSUME ElfTypeOK, n <= Len(file.ph), offset < segment.memsz
  PROVE  /\ Chunk \in Nat \ {0} /\ address \in Nat
         /\ (address % PAGE_SIZE) + Chunk <= PAGE_SIZE
         /\ offset + Chunk <= segment.memsz
         /\ offset < segment.filesz => offset + Chunk <= segment.filesz
<1>1. /\ offset \in Nat /\ segment.vaddr \in Nat /\ segment.memsz \in Nat
      /\ segment.filesz \in Nat /\ PAGE_SIZE \in Nat \ {0}
  BY SegmentTypes, ElfAssumption
<1>2. address \in Nat /\ address % PAGE_SIZE \in 0 .. PAGE_SIZE - 1
  <2>1. address \in Nat
    BY <1>1 DEF address
  <2> QED
    BY <1>1, <2>1, Division
<1> DEFINE x == PAGE_SIZE - (address % PAGE_SIZE)
           y == segment.memsz - offset
           z == segment.filesz - offset
<1>3. x \in Nat \ {0} /\ y \in Nat \ {0} /\ z \in Int
  BY <1>1, <1>2
<1>4. CASE offset < segment.filesz
  <2>1. Chunk = Min({x, y} \union {z})
    BY <1>4 DEF Chunk
  <2>2. {x, y} \union {z} = {x, y, z}
    OBVIOUS
  <2>3. z \in Nat \ {0}
    BY <1>1, <1>4
  <2>4. Chunk \in {x, y, z} /\ Chunk <= x /\ Chunk <= y /\ Chunk <= z
    <3> HIDE DEF x, y, z
    <3>1. /\ Min({x, y, z}) \in {x, y, z}
          /\ Min({x, y, z}) <= x /\ Min({x, y, z}) <= y /\ Min({x, y, z}) <= z
      <4>1. x \in Int /\ y \in Int /\ z \in Int
        BY <1>3
      <4> QED
        BY <4>1, MinOfThree, Zenon
    <3>2. Chunk = Min({x, y, z})
      BY <2>1, <2>2
    <3> QED
      BY <3>1, <3>2
  <2>5. Chunk \in Nat \ {0}
    BY <1>3, <2>3, <2>4
  <2> QED
    BY <1>1, <1>2, <2>4, <2>5
<1>5. CASE ~(offset < segment.filesz)
  <2>1. Chunk = Min({x, y} \union {})
    BY <1>5 DEF Chunk
  <2>2. {x, y} \union {} = {x, y}
    OBVIOUS
  <2>3. Chunk \in {x, y} /\ Chunk <= x /\ Chunk <= y
    <3> HIDE DEF x, y
    <3>1. Min({x, y}) \in {x, y} /\ Min({x, y}) <= x /\ Min({x, y}) <= y
      <4>1. x \in Int /\ y \in Int
        BY <1>3
      <4> QED
        BY <4>1, MinOfTwo, Zenon
    <3>2. Chunk = Min({x, y})
      BY <2>1, <2>2
    <3> QED
      BY <3>1, <3>2
  <2>4. Chunk \in Nat \ {0}
    BY <1>3, <2>3
  <2> QED
    BY <1>1, <1>2, <1>5, <2>3, <2>4
<1> QED
  BY <1>4, <1>5

\* The tests of the first loop say, without overflow, that the segment fits.
LEMMA SegmentFitsIs ==
  ASSUME ElfTypeOK, n <= Len(file.ph)
  PROVE  SegmentFits <=> Fits(file, n)
<1>1. /\ file.size \in Nat /\ segment.vaddr \in Nat /\ segment.memsz \in Nat
      /\ segment.filesz \in Nat /\ segment.off \in Nat /\ IMAGE_LIMIT \in Nat
  BY SegmentTypes, ElfAssumption
<1>2. segment = file.ph[n]
  BY DEF segment
<1>3. Fits(file, n) <=> /\ segment.filesz <= segment.memsz
                       /\ segment.vaddr + segment.memsz <= IMAGE_LIMIT
                       /\ segment.off + segment.filesz <= file.size
  BY <1>2, Zenon DEF Fits
<1>4. \A a, b, c \in Nat : (a <= c /\ b <= c - a) <=> a + b <= c
  OBVIOUS
<1>5. /\ (segment.vaddr <= IMAGE_LIMIT /\ segment.memsz <= IMAGE_LIMIT - segment.vaddr)
           <=> segment.vaddr + segment.memsz <= IMAGE_LIMIT
      /\ (segment.off <= file.size /\ segment.filesz <= file.size - segment.off)
           <=> segment.off + segment.filesz <= file.size
  BY <1>1, <1>4
<1> QED
  BY <1>3, <1>5, Zenon DEF SegmentFits

\* The test of the entry point says that it lies in the segment.
LEMMA EntryInsideIs ==
  ASSUME ElfTypeOK, n <= Len(file.ph)
  PROVE  EntryInside <=> EntryIn(file, n)
<1>1. file.entry \in Nat /\ segment.vaddr \in Nat /\ segment.filesz \in Nat
  BY SegmentTypes
<1>2. segment = file.ph[n]
  BY DEF segment
<1>3. EntryIn(file, n) <=>
        segment.exec /\ file.entry \in segment.vaddr .. segment.vaddr + segment.filesz - 1
  BY <1>2, Zenon DEF EntryIn
<1> QED
  BY <1>1, <1>3 DEF EntryInside

\* Once all headers are checked, the file can be executed if an entry was found.
LEMMA ExecutableIs ==
  ASSUME NEW f \in FileType
  PROVE  Executable(f) <=>
           /\ HeaderOK(f)
           /\ \A k \in DOMAIN f.ph : f.ph[k].type \notin {2, 3}
           /\ \A k \in Segments(f) : Fits(f, k)
           /\ \E k \in Segments(f) : EntryIn(f, k)
  BY DEF Executable, HeaderOK, Fits, EntryIn

\* Before a load there is no file and no memory.
LEMMA ElfInvInit == ElfInit => ElfInv
<1> SUFFICES ASSUME ElfInit PROVE ElfInv
  OBVIOUS
<1>1. NoFile \in FileType /\ Len(NoFile.ph) = 0
  BY DEF NoFile, FileType, Headers
<1>2. file = NoFile
  BY DEF ElfInit
<1>3. file \in FileType /\ Len(file.ph) = 0
  BY <1>1, <1>2, Zenon
<1> QED
  <2>1. n = 1 /\ n \in Nat \ {0} /\ n <= Len(file.ph) + 1 /\ end \in Nat /\ offset \in Nat
    BY <1>3 DEF ElfInit
  <2>2. at = "idle" /\ entry_found = FALSE /\ readFailed = FALSE /\ end = 0 /\ offset = 0
    BY DEF ElfInit
  <2>3. ElfTypeOK
    BY <1>3, <2>1, <2>2, Zenon DEF ElfTypeOK
  <2> QED
    BY <2>1, <2>2, <2>3 DEF ElfInv, LoadsImage

\* A load begins with no memory and no segment seen.
LEMMA LoadFileInv == ElfInv /\ LoadFile => ElfInv'
<1> SUFFICES ASSUME ElfInv, LoadFile PROVE ElfInv'
  OBVIOUS
<1>1. file' \in FileType
  BY ElfAssumption DEF LoadFile, FileType
<1>2. ElfTypeOK'
  BY <1>1 DEF ElfInv, ElfTypeOK, LoadFile
<1>3. n' <= Len(file'.ph) + 1
  BY <1>1, HeaderTypes DEF ElfInv, LoadFile
<1> QED
  BY <1>2, <1>3 DEF ElfInv, LoadFile, LoadsImage

\* The first loop starts with no header checked.
LEMMA ReadHeadersInv == ElfInv /\ ReadHeaders => ElfInv'
<1> SUFFICES ASSUME ElfInv, ReadHeaders PROVE ElfInv'
  OBVIOUS
<1> USE DEF ReadHeaders
<1>1. ElfTypeOK' /\ n' <= Len(file'.ph) + 1
  BY DEF ElfInv, ElfTypeOK
<1>2. at' = "check" => Checking'
  <2> SUFFICES ASSUME at' = "check" PROVE Checking'
    OBVIOUS
  <2>1. /\ file' = file /\ n' = 1 /\ end' = 0 /\ entry_found' = FALSE
        /\ offset' = 0 /\ HeaderOK(file) /\ file \in FileType
    BY DEF ElfInv, ElfTypeOK, HeaderFits, HeaderOK
  <2>2. Checked(file, 1, 0, FALSE)
    BY <2>1, HeaderTypes, ElfAssumption DEF Checked
  <2> QED
    BY <2>1, <2>2 DEF Checking
<1>3. LoadsImage'
  <2>1. file \in FileType /\ file' = file
    BY DEF ElfInv, ElfTypeOK
  <2>2. Executable(file) => HeaderFits
    BY <2>1, ExecutableIs DEF HeaderOK, HeaderFits
  <2> QED
    BY <2>1, <2>2 DEF LoadsImage
<1> QED
  BY <1>1, <1>2, <1>3 DEF ElfInv

\* A turn of the first loop checks one more header, or finds the reason to
\* refuse the file.
LEMMA CheckSegmentInv == ElfInv /\ CheckSegment => ElfInv'
<1> SUFFICES ASSUME ElfInv, CheckSegment PROVE ElfInv'
  OBVIOUS
<1>1. /\ ElfTypeOK /\ file \in FileType /\ n \in 1 .. Len(file.ph) /\ Len(file.ph) \in Nat
      /\ HeaderOK(file) /\ offset = 0 /\ Checked(file, n, end, entry_found)
      /\ file' = file /\ offset' = offset /\ readFailed' = readFailed
      /\ n <= Len(file.ph) /\ at = "check"
      /\ end \in Nat /\ entry_found \in BOOLEAN
  BY HeaderTypes DEF ElfInv, ElfTypeOK, CheckSegment, Checking
<1>2. /\ segment = file.ph[n] /\ segment.vaddr \in Nat /\ segment.memsz \in Nat
      /\ segment.type \in Nat /\ (segment.type = PT_LOAD <=> n \in Segments(file))
  BY <1>1, SegmentTypes, HeaderTypes
<1>3. CASE /\ segment.type \in {2, 3} \/ (segment.type = PT_LOAD /\ ~SegmentFits)
           /\ at' = "false" /\ UNCHANGED <<n, end, entry_found>>
  <2>1. ~Executable(file)
    <3>1. segment.type = PT_LOAD /\ ~SegmentFits => n \in Segments(file) /\ ~Fits(file, n)
      BY <1>1, <1>2, SegmentFitsIs
    <3>2. segment.type \in {2, 3} => n \in DOMAIN file.ph /\ file.ph[n].type \in {2, 3}
      BY <1>1, <1>2, HeaderTypes
    <3> QED
      BY <1>1, <1>3, <3>1, <3>2, ExecutableIs
  <2>2. LoadsImage'
    BY <1>1, <1>3, <2>1 DEF LoadsImage
  <2>3. ElfTypeOK' /\ n' <= Len(file'.ph) + 1
    BY <1>1, <1>3 DEF ElfTypeOK
  <2> QED
    BY <1>3, <2>2, <2>3 DEF ElfInv
<1>4. CASE /\ segment.type = PT_LOAD /\ SegmentFits
           /\ end' = Max({end, (segment.vaddr + segment.memsz) % WORD})
           /\ entry_found' = (entry_found \/ EntryInside)
           /\ n' = n + 1 /\ UNCHANGED at
  <2>1. n \in Segments(file) /\ Fits(file, n) /\ (EntryInside <=> EntryIn(file, n))
    BY <1>1, <1>2, <1>4, SegmentFitsIs, EntryInsideIs
  <2> DEFINE top == segment.vaddr + segment.memsz
  <2>2. /\ top \in Nat /\ top <= IMAGE_LIMIT
        /\ top = file.ph[n].vaddr + file.ph[n].memsz
    BY <1>2, <2>1 DEF Fits
  <2>3. top % WORD = top
    <3> HIDE DEF top
    <3>1. WORD \in Nat \ {0} /\ top \in 0 .. WORD - 1 /\ top = WORD * 0 + top
      BY <2>2, ElfAssumption
    <3> QED
      BY <3>1, DivisionUnique
  <2>4. end' = IF end >= top THEN end ELSE top
    <3>1. Max({end, top}) = IF end >= top THEN end ELSE top
      BY <1>1, <2>2, MaxOfTwo
    <3>2. end' = Max({end, top})
      BY <1>4, <2>3
    <3> QED
      BY <3>1, <3>2
  <2> HIDE DEF top
  <2>5. end' \in Nat /\ end <= end' /\ top <= end' /\ end' <= IMAGE_LIMIT
    BY <1>1, <2>2, <2>4, ElfAssumption DEF Checked
  <2>6. \A k \in DOMAIN file.ph : k < n + 1 => k < n \/ k = n
    BY <1>1, HeaderTypes
  <2>7. \A k \in DOMAIN file.ph : k < n + 1 => file.ph[k].type \notin {2, 3}
    <3>1. file.ph[n].type \notin {2, 3}
      BY <1>2, <1>4 DEF PT_LOAD
    <3> QED
      BY <1>1, <2>6, <3>1 DEF Checked
  <2>8. ASSUME NEW k \in Segments(file), k < n + 1
        PROVE  Fits(file, k) /\ file.ph[k].vaddr + file.ph[k].memsz <= end'
    <3>1. k \in 1 .. Len(file.ph) /\ file.ph[k].vaddr + file.ph[k].memsz \in Nat
      BY <1>1, HeaderTypes
    <3>2. CASE k = n
      BY <2>1, <2>2, <2>5, <3>2
    <3>3. CASE k < n
      <4>1. Fits(file, k) /\ file.ph[k].vaddr + file.ph[k].memsz <= end
        BY <1>1, <3>3 DEF Checked
      <4> QED
        BY <1>1, <2>5, <3>1, <4>1
    <3> QED
      BY <1>1, <2>8, <3>1, <3>2, <3>3
  <2>9. entry_found' <=> \E k \in Segments(file) : k < n + 1 /\ EntryIn(file, k)
    <3>1. entry_found' <=> entry_found \/ EntryIn(file, n)
      BY <1>4, <2>1
    <3>2. \A k \in Segments(file) : k < n + 1 <=> k < n \/ k = n
      BY <1>1, HeaderTypes
    <3> QED
      BY <1>1, <2>1, <3>1, <3>2 DEF Checked
  <2>10. Checked(file, n + 1, end', entry_found')
    BY <2>5, <2>7, <2>8, <2>9 DEF Checked
  <2>11. entry_found' \in BOOLEAN
    BY <1>4
  <2>12. ElfTypeOK' /\ n' <= Len(file'.ph) + 1
    BY <1>1, <1>4, <2>5, <2>11 DEF ElfTypeOK
  <2> QED
    BY <1>1, <1>4, <2>10, <2>12 DEF ElfInv, Checking, LoadsImage
<1>5. CASE /\ segment.type \notin {PT_LOAD, 2, 3}
           /\ n' = n + 1 /\ UNCHANGED <<at, end, entry_found>>
  <2>1. n \notin Segments(file) /\ file.ph[n].type \notin {2, 3}
    BY <1>2, <1>5
  <2>2. \A k \in DOMAIN file.ph : k < n + 1 <=> k < n \/ k = n
    BY <1>1, HeaderTypes
  <2>3. \A k \in Segments(file) : k < n + 1 <=> k < n
    BY <1>1, <2>1, HeaderTypes
  <2>4. Checked(file, n + 1, end, entry_found)
    BY <1>1, <2>1, <2>2, <2>3 DEF Checked
  <2>5. ElfTypeOK' /\ n' <= Len(file'.ph) + 1
    BY <1>1, <1>5 DEF ElfTypeOK
  <2> QED
    BY <1>1, <1>5, <2>4, <2>5 DEF ElfInv, Checking, LoadsImage
<1> QED
  BY <1>3, <1>4, <1>5 DEF CheckSegment

\* The second loop starts with cleared memory, in which no segment is copied.
LEMMA ExpandInv == ElfInv /\ Expand => ElfInv'
<1> SUFFICES ASSUME ElfInv, Expand PROVE ElfInv'
  OBVIOUS
<1>1. /\ ElfTypeOK /\ file \in FileType /\ Len(file.ph) \in Nat /\ n = Len(file.ph) + 1
      /\ HeaderOK(file) /\ offset = 0 /\ Checked(file, n, end, entry_found)
      /\ file' = file /\ offset' = offset /\ readFailed' = readFailed
      /\ end' = end /\ entry_found' = entry_found
      /\ n' = 1 /\ end \in Nat /\ entry_found \in BOOLEAN
  BY HeaderTypes DEF ElfInv, ElfTypeOK, Expand, Checking
<1>2. ElfTypeOK' /\ n' <= Len(file'.ph) + 1
  BY <1>1 DEF ElfTypeOK, Expand
<1>3. CASE entry_found
  <2>1. at' = "copy" /\ heap' = [a \in 0 .. ROUND_UP(end) - 1 |-> 0]
    BY <1>3 DEF Expand
  <2>2. ASSUME NEW a PROVE Copied(file, 1, 0, a) = 0
    <3>1. ASSUME NEW k \in Segments(file) PROVE k \notin Covering(file, 1, 0, a)
      <4>1. k \in 1 .. Len(file.ph) /\ file.ph[k].vaddr \in Nat
        BY <1>1, HeaderTypes
      <4>2. Reach(file, k, 1, 0) = 0
        BY <4>1 DEF Reach
      <4> QED
        BY <4>1, <4>2 DEF Covering
    <3>2. Covering(file, 1, 0, a) = {}
      BY <3>1 DEF Covering
    <3> QED
      BY <3>2 DEF Copied
  <2>3. Checked(file, Len(file.ph) + 1, end, TRUE)
    BY <1>1, <1>3
  <2>4. CopyingImage'
    BY <1>1, <2>1, <2>2, <2>3 DEF CopyingImage, Within
  <2> QED
    BY <1>2, <2>1, <2>4 DEF ElfInv, LoadsImage
<1>4. CASE ~entry_found
  <2>1. at' = "false"
    BY <1>4 DEF Expand
  <2>2. \A k \in Segments(file) : k < n
    BY <1>1, HeaderTypes
  <2>3. ~Executable(file)
    BY <1>1, <1>4, <2>2, ExecutableIs DEF Checked
  <2> QED
    BY <1>1, <1>2, <2>1, <2>3 DEF ElfInv, LoadsImage
<1> QED
  BY <1>1, <1>3, <1>4

\* What is known of the segment of the second loop's turn.
LEMMA CopyFacts ==
  ASSUME ElfInv, at = "copy", n <= Len(file.ph)
  PROVE  /\ ElfTypeOK /\ file \in FileType /\ n \in 1 .. Len(file.ph) /\ Len(file.ph) \in Nat
         /\ segment = file.ph[n]
         /\ segment.vaddr \in Nat /\ segment.memsz \in Nat /\ segment.filesz \in Nat
         /\ segment.off \in Nat /\ offset \in Nat /\ end \in Nat
         /\ (segment.type = PT_LOAD <=> n \in Segments(file))
         /\ segment.type = PT_LOAD =>
              /\ segment.filesz <= segment.memsz
              /\ segment.vaddr + segment.memsz <= end
              /\ offset <= segment.memsz
         /\ end <= IMAGE_LIMIT
<1>1. /\ ElfTypeOK /\ file \in FileType /\ offset \in Nat /\ end \in Nat /\ CopyingImage
  BY DEF ElfInv, ElfTypeOK
<1>2. /\ n \in 1 .. Len(file.ph) /\ segment = file.ph[n] /\ Len(file.ph) \in Nat
      /\ segment.vaddr \in Nat /\ segment.memsz \in Nat /\ segment.filesz \in Nat
      /\ segment.off \in Nat
  BY <1>1, SegmentTypes, HeaderTypes
<1>3. segment.type = PT_LOAD <=> n \in Segments(file)
  BY <1>1, <1>2, HeaderTypes
<1>4. ASSUME segment.type = PT_LOAD
      PROVE  /\ segment.filesz <= segment.memsz
             /\ segment.vaddr + segment.memsz <= end
  <2>1. Fits(file, n) /\ file.ph[n].vaddr + file.ph[n].memsz <= end
    BY <1>1, <1>2, <1>3, <1>4 DEF CopyingImage, Checked
  <2> QED
    BY <1>2, <2>1, Zenon DEF Fits
<1>5. segment.type = PT_LOAD => offset <= segment.memsz
  BY <1>1, <1>2 DEF CopyingImage, Within
<1> QED
  BY <1>1, <1>2, <1>3, <1>4, <1>5 DEF CopyingImage, Checked

\* A finished segment counts as one before the next.
LEMMA NextSegmentInv == ElfInv /\ NextSegment => ElfInv'
<1> SUFFICES ASSUME ElfInv, NextSegment PROVE ElfInv'
  OBVIOUS
<1>1. /\ at = "copy" /\ n <= Len(file.ph) /\ n' = n + 1 /\ offset' = 0 /\ at' = at
      /\ file' = file /\ end' = end /\ heap' = heap /\ CopyingImage
      /\ segment.type # PT_LOAD \/ offset >= segment.memsz
      /\ entry_found' = entry_found /\ readFailed' = readFailed
  BY DEF NextSegment, ElfInv
<1>2. ElfTypeOK' /\ n' <= Len(file'.ph) + 1
  BY <1>1, CopyFacts DEF ElfTypeOK
<1>3. ASSUME NEW k \in Segments(file)
      PROVE  \/ Reach(file, k, n + 1, 0) = Reach(file, k, n, offset)
             \/ k = n /\ Reach(file, k, n + 1, 0) = segment.memsz
                      /\ Reach(file, k, n, offset) = segment.memsz
  <2>1. k \in 1 .. Len(file.ph) /\ n \in 1 .. Len(file.ph)
    BY <1>1, CopyFacts, HeaderTypes
  <2>2. CASE k = n
    <3>1. offset = segment.memsz /\ segment = file.ph[n]
      BY <1>1, <2>2, CopyFacts
    <3>2. Reach(file, n, n + 1, 0) = segment.memsz /\ Reach(file, n, n, offset) = offset
      BY <2>1, <3>1 DEF Reach
    <3> QED
      BY <2>2, <3>1, <3>2
  <2>3. CASE k # n
    BY <2>1, <2>3 DEF Reach
  <2> QED
    BY <2>2, <2>3
<1>4. ASSUME NEW a PROVE Copied(file, n + 1, 0, a) = Copied(file, n, offset, a)
  <2>1. Covering(file, n + 1, 0, a) = Covering(file, n, offset, a)
    BY <1>3 DEF Covering
  <2> QED
    BY <2>1 DEF Copied
<1>5. CopyingImage'
  BY <1>1, <1>4 DEF CopyingImage, Within
<1> QED
  BY <1>1, <1>2, <1>5 DEF ElfInv, LoadsImage

\* A chunk adds its segment to those that cover its bytes, as the last of them,
\* and it is all from the file, or all cleared.
LEMMA CopyChunkInv == ElfInv /\ CopyChunk => ElfInv'
<1> SUFFICES ASSUME ElfInv, CopyChunk PROVE ElfInv'
  OBVIOUS
<1>1. /\ at = "copy" /\ n <= Len(file.ph) /\ n' = n /\ offset' = offset + Chunk /\ at' = at
      /\ file' = file /\ end' = end /\ CopyingImage
      /\ segment.type = PT_LOAD /\ offset < segment.memsz
      /\ entry_found' = entry_found /\ readFailed' = readFailed
      /\ heap' = [a \in DOMAIN heap |->
                    IF a \in address .. address + Chunk - 1
                    THEN IF offset < segment.filesz
                         THEN segment.off + (a - segment.vaddr) + 1 ELSE 0
                    ELSE heap[a]]
  BY DEF CopyChunk, ElfInv
<1>2. /\ file \in FileType /\ n \in 1 .. Len(file.ph) /\ Len(file.ph) \in Nat
      /\ segment = file.ph[n] /\ n \in Segments(file) /\ offset \in Nat
      /\ segment.vaddr \in Nat /\ segment.memsz \in Nat /\ segment.filesz \in Nat
      /\ segment.off \in Nat /\ ElfTypeOK
  BY <1>1, CopyFacts
<1>3. /\ Chunk \in Nat \ {0} /\ address = segment.vaddr + offset
      /\ offset + Chunk <= segment.memsz
      /\ offset < segment.filesz => offset + Chunk <= segment.filesz
  BY <1>1, <1>2, ChunkIs DEF address
<1>4. ElfTypeOK' /\ n' <= Len(file'.ph) + 1
  BY <1>1, <1>2, <1>3 DEF ElfTypeOK
<1>5. Within'
  <2>1. segment' = segment
    BY <1>1 DEF segment
  <2> QED
    BY <1>1, <1>3, <2>1 DEF Within
<1> DEFINE o == offset + Chunk
<1>6. \A k \in Segments(file) : k # n => Reach(file, k, n, o) = Reach(file, k, n, offset)
  BY DEF Reach
<1>7. Reach(file, n, n, o) = o /\ Reach(file, n, n, offset) = offset
  BY <1>2 DEF Reach
<1>8. ASSUME NEW a \in Nat
      PROVE  Covering(file, n, o, a) =
               IF a \in address .. address + Chunk - 1
               THEN Covering(file, n, offset, a) \union {n} ELSE Covering(file, n, offset, a)
  <2>1. n \in Covering(file, n, o, a) <=>
          n \in Covering(file, n, offset, a) \/ a \in address .. address + Chunk - 1
    <3>1. n \in Covering(file, n, o, a) <=> a \in segment.vaddr .. segment.vaddr + o - 1
      BY <1>2, <1>7, Zenon DEF Covering
    <3>2. n \in Covering(file, n, offset, a) <=>
            a \in segment.vaddr .. segment.vaddr + offset - 1
      BY <1>2, <1>7, Zenon DEF Covering
    <3>3. segment.vaddr \in Nat /\ offset \in Nat
      BY <1>2
    <3> QED
      BY <1>3, <3>1, <3>2, <3>3
  <2>2. \A k : k # n => (k \in Covering(file, n, o, a) <=> k \in Covering(file, n, offset, a))
    BY <1>6 DEF Covering
  <2> HIDE DEF o
  <2> QED
    BY <2>1, <2>2
<1>9. ASSUME NEW a \in DOMAIN heap PROVE heap'[a] = Copied(file, n, o, a)
  <2>1. a \in Nat /\ heap[a] = Copied(file, n, offset, a)
    <3>1. a \in 0 .. ROUND_UP(end) - 1 /\ ROUND_UP(end) \in Nat
      BY <1>1, CopyFacts, RoundUp DEF CopyingImage
    <3> QED
      BY <1>1, <3>1 DEF CopyingImage
  <2>2. CASE a \notin address .. address + Chunk - 1
    <3>1. Covering(file, n, o, a) = Covering(file, n, offset, a)
      BY <1>8, <2>1, <2>2
    <3>2. heap'[a] = heap[a]
      BY <1>1, <2>2
    <3> QED
      BY <2>1, <3>1, <3>2 DEF Copied
  <2>3. CASE a \in address .. address + Chunk - 1
    <3>1. Covering(file, n, o, a) = Covering(file, n, offset, a) \union {n}
      BY <1>8, <2>1, <2>3
    <3> DEFINE C == Covering(file, n, o, a)
    <3>2. C \subseteq 1 .. Len(file.ph) /\ n \in C
      BY <1>2, <3>1, HeaderTypes DEF Covering
    <3>3. ASSUME NEW k \in C PROVE k <= n
      <4>1. k \in Segments(file) /\ a \in file.ph[k].vaddr .. file.ph[k].vaddr + Reach(file, k, n, o) - 1
        BY DEF Covering
      <4>2. k \in 1 .. Len(file.ph) /\ file.ph[k].vaddr \in Nat
        BY <1>2, <4>1, HeaderTypes
      <4>3. k > n => Reach(file, k, n, o) = 0
        BY <1>2, <4>2 DEF Reach
      <4> QED
        BY <1>2, <2>1, <4>1, <4>2, <4>3
    <3>4. Max(C) = n
      <4>1. Max(C) \in C /\ \A k \in C : k <= Max(C)
        <5> HIDE DEF C
        <5> QED
          BY <1>2, <3>2, MaxOf
      <4>2. Max(C) \in 1 .. Len(file.ph) /\ Max(C) <= n /\ n <= Max(C)
        BY <3>2, <3>3, <4>1
      <4> QED
        BY <1>2, <4>2
    <3>5. Copied(file, n, o, a) = ByteOf(segment, a)
      <4>1. Copied(file, n, o, a) = ByteOf(file.ph[n], a)
        BY <3>2, <3>4, Zenon DEF Copied
      <4> QED
        BY <1>2, <4>1, Zenon
    <3>6. ByteOf(segment, a) =
            IF a - segment.vaddr < segment.filesz
            THEN segment.off + (a - segment.vaddr) + 1 ELSE 0
      BY DEF ByteOf
    <3>7. a - segment.vaddr < segment.filesz <=> offset < segment.filesz
      <4>1. segment.vaddr \in Nat /\ offset \in Nat /\ segment.filesz \in Nat
        BY <1>2
      <4> QED
        BY <1>3, <2>1, <2>3, <4>1
    <3>8. heap'[a] = IF offset < segment.filesz
                     THEN segment.off + (a - segment.vaddr) + 1 ELSE 0
      BY <1>1, <2>3
    <3> QED
      BY <3>5, <3>6, <3>7, <3>8
  <2> QED
    BY <2>2, <2>3
<1>10. CopyingImage'
  <2>1. DOMAIN heap' = DOMAIN heap
    BY <1>1
  <2> QED
    BY <1>1, <1>5, <1>9, <2>1 DEF CopyingImage
<1> QED
  BY <1>1, <1>4, <1>10 DEF ElfInv, LoadsImage

\* A load a read error ends has no memory to speak of.
LEMMA ReadErrorInv == ElfInv /\ ReadError => ElfInv'
<1> SUFFICES ASSUME ElfInv, ReadError PROVE ElfInv'
  OBVIOUS
<1>1. ElfTypeOK' /\ n' <= Len(file'.ph) + 1
  BY DEF ElfInv, ElfTypeOK, ReadError
<1> QED
  BY <1>1 DEF ElfInv, ReadError, LoadsImage

\* When the second loop ends all segments are copied: this is the image.
LEMMA LoadedInv == ElfInv /\ Loaded => ElfInv'
<1> SUFFICES ASSUME ElfInv, Loaded PROVE ElfInv'
  OBVIOUS
<1>1. /\ ElfTypeOK /\ CopyingImage /\ file \in FileType
      /\ Len(file.ph) \in Nat /\ n = Len(file.ph) + 1
  BY HeaderTypes DEF ElfInv, ElfTypeOK, Loaded
<1>2. at' = "true" /\ file' = file /\ heap' = heap /\ readFailed' = readFailed
  BY DEF Loaded
<1>3. ElfTypeOK' /\ n' <= Len(file'.ph) + 1
  BY DEF ElfInv, ElfTypeOK, Loaded
<1>4. Executable(file)
  <2>1. \A k \in DOMAIN file.ph : k < Len(file.ph) + 1
    BY <1>1, HeaderTypes
  <2>2. \A k \in Segments(file) : k < Len(file.ph) + 1
    BY <1>1, HeaderTypes
  <2> QED
    BY <1>1, <2>1, <2>2, ExecutableIs DEF CopyingImage, Checked
<1>5. ASSUME NEW a \in DOMAIN heap PROVE heap[a] = ImageByte(file, a)
  <2>1. \A k \in Segments(file) : Reach(file, k, n, offset) = file.ph[k].memsz
    BY <1>1, HeaderTypes DEF Reach
  <2>2. Covering(file, n, offset, a) =
          {k \in Segments(file) :
             a \in file.ph[k].vaddr .. file.ph[k].vaddr + file.ph[k].memsz - 1}
    BY <2>1 DEF Covering
  <2>3. heap[a] = Copied(file, n, offset, a)
    BY <1>1 DEF CopyingImage
  <2> QED
    BY <2>2, <2>3 DEF Copied, ImageByte
<1> QED
  BY <1>2, <1>3, <1>4, <1>5 DEF ElfInv, LoadsImage

\* Every step of load_elf keeps the invariant.
LEMMA ElfInvNext == ElfInv /\ [ElfNext]_elfVars => ElfInv'
<1> SUFFICES ASSUME ElfInv, [ElfNext]_elfVars PROVE ElfInv'
  OBVIOUS
<1>1. CASE LoadReturns
  <2>1. ElfInit'
    BY <1>1 DEF LoadReturns, ElfInit
  <2> QED
    BY <2>1, ElfInvInit, PTL
<1>2. CASE UNCHANGED elfVars
  BY <1>2 DEF elfVars, ElfInv, ElfTypeOK, Checking, CopyingImage, Within, segment, LoadsImage
<1> QED
  BY <1>1, <1>2, LoadFileInv, ReadHeadersInv, CheckSegmentInv, ExpandInv, NextSegmentInv,
     CopyChunkInv, ReadErrorInv, LoadedInv DEF ElfNext

\* load_elf (syscall_exec.c:9), for every file and size of page: the headers
\* before the loop's turn have passed the tests, and the heap holds what the
\* segments so far have put there.
THEOREM ElfInvariance == ElfSpec => []ElfInv
  BY ElfInvInit, ElfInvNext, PTL DEF ElfSpec

\* load_elf succeeds on exactly the files that describe a program within
\* IMAGE_LIMIT, unless a read fails, and then the heap holds that program: the
\* tests of the headers do not overflow, and the chunks leave out nothing.
THEOREM LoaderLoadsImage == ElfSpec => []LoadsImage
<1>1. ElfInv => LoadsImage
  BY DEF ElfInv
<1> QED
  BY <1>1, ElfInvariance, PTL

\* load_elf copies and clears one chunk at a time, each inside one frame of
\* the new heap.
THEOREM LoaderWritesInsideFrame == ElfSpec => []WritesInsideFrame
<1>1. ElfInv => WritesInsideFrame
  <2> SUFFICES ASSUME ElfInv, at = "copy", n <= Len(file.ph),
                      segment.type = PT_LOAD, offset < segment.memsz
               PROVE  /\ (address % PAGE_SIZE) + Chunk <= PAGE_SIZE /\ Chunk > 0
                      /\ address .. address + Chunk - 1 \subseteq DOMAIN heap
                      /\ Cardinality(DOMAIN heap) <= ROUND_UP(IMAGE_LIMIT)
    BY DEF WritesInsideFrame
  <2>1. /\ segment.vaddr \in Nat /\ segment.memsz \in Nat /\ offset \in Nat /\ end \in Nat
        /\ segment.vaddr + segment.memsz <= end /\ end <= IMAGE_LIMIT /\ ElfTypeOK
    BY CopyFacts
  <2>2. /\ Chunk \in Nat \ {0} /\ address = segment.vaddr + offset
        /\ (address % PAGE_SIZE) + Chunk <= PAGE_SIZE /\ offset + Chunk <= segment.memsz
    BY <2>1, ChunkIs DEF address
  <2>3. DOMAIN heap = 0 .. ROUND_UP(end) - 1
    BY DEF ElfInv, CopyingImage
  <2>4. /\ ROUND_UP(end) \in Nat /\ ROUND_UP(IMAGE_LIMIT) \in Nat /\ IMAGE_LIMIT \in Nat
        /\ end <= ROUND_UP(end) /\ ROUND_UP(end) <= ROUND_UP(IMAGE_LIMIT)
    <3>1. IMAGE_LIMIT \in Nat
      BY ElfAssumption
    <3> QED
      BY <2>1, <3>1, RoundUp, RoundUpMonotonic
  <2>5. address .. address + Chunk - 1 \subseteq DOMAIN heap
    <3>1. address \in Nat /\ address + Chunk <= ROUND_UP(end)
      <4>1. \A v, o, c, m, e, r \in Nat :
              o + c <= m /\ v + m <= e /\ e <= r => (v + o) + c <= r
        OBVIOUS
      <4>2. address \in Nat /\ Chunk \in Nat
        BY <2>1, <2>2
      <4> QED
        BY <2>1, <2>2, <2>4, <4>1, <4>2
    <3>2. address .. address + Chunk - 1 \subseteq 0 .. ROUND_UP(end) - 1
      BY <2>2, <2>4, <3>1
    <3> QED
      BY <2>3, <3>2
  <2>6. Cardinality(DOMAIN heap) <= ROUND_UP(IMAGE_LIMIT)
    <3>1. 0 \in Int /\ ROUND_UP(end) - 1 \in Int
      BY <2>4
    <3>2. Cardinality(0 .. ROUND_UP(end) - 1) =
            IF 0 > ROUND_UP(end) - 1 THEN 0 ELSE ROUND_UP(end) - 1 - 0 + 1
      BY <3>1, FS_Interval
    <3> QED
      BY <2>3, <2>4, <3>2
  <2> QED
    BY <2>2, <2>5, <2>6
<1> QED
  BY <1>1, ElfInvariance, PTL

-----------------------------------------------------------------------------
(***************************************************************************)
(* unsigned_divmod.                                                        *)
(***************************************************************************)
\* The powers of two exist, since doubling can be iterated.
LEMMA BitIs ==
  /\ Bit[0] = 1
  /\ \A k \in 1 .. BITS : Bit[k] = 2 * Bit[k - 1]
  /\ \A k \in 0 .. BITS : Bit[k] \in Nat \ {0}
<1> DEFINE g == [x \in Nat |-> 2 * x]
           Is(f) == f = [k \in 0 .. BITS |-> IF k = 0 THEN 1 ELSE 2 * f[k - 1]]
<1>1. BITS \in Nat \ {0}
  BY BitsAssumption
<1>2. \E f : Is(f)
  <2>1. g \in [Nat -> Nat] /\ 1 \in Nat
    OBVIOUS
  <2>2. PICK c \in [0 .. BITS -> Nat] : Iterates(c, 1, g, BITS)
    <3> HIDE DEF g
    <3> QED
      BY <1>1, <2>1, Iteration
  <2>3. ASSUME NEW k \in 0 .. BITS PROVE c[k] = IF k = 0 THEN 1 ELSE 2 * c[k - 1]
    <3>1. CASE k = 0
      BY <2>2, <3>1 DEF Iterates
    <3>2. CASE k # 0
      <4>1. k \in 1 .. BITS /\ k - 1 \in 0 .. BITS
        BY <1>1, <3>2
      <4>2. c[k] = g[c[k - 1]] /\ c[k - 1] \in Nat
        BY <2>2, <4>1 DEF Iterates
      <4> QED
        BY <3>2, <4>2
    <3> QED
      BY <3>1, <3>2
  <2>4. c = [k \in 0 .. BITS |-> c[k]]
    OBVIOUS
  <2>5. Is(c)
    BY <2>3, <2>4
  <2> QED
    BY <2>5
<1>3. Bit = CHOOSE f : Is(f)
  BY DEF Bit
<1>4. Is(Bit)
  <2> HIDE DEF Is
  <2> QED
    BY <1>2, <1>3
<1>5. \A k \in 0 .. BITS : Bit[k] = IF k = 0 THEN 1 ELSE 2 * Bit[k - 1]
  BY <1>4
<1>6. Bit[0] = 1 /\ \A k \in 1 .. BITS : Bit[k] = 2 * Bit[k - 1]
  <2>1. 0 \in 0 .. BITS /\ \A k \in 1 .. BITS : k \in 0 .. BITS /\ k # 0
    BY <1>1
  <2> QED
    BY <1>5, <2>1
<1>7. \A k \in 0 .. BITS : Bit[k] \in Nat \ {0}
  <2> DEFINE T == {k \in 0 .. BITS : Bit[k] \notin Nat \ {0}}
  <2> SUFFICES ASSUME T # {} PROVE FALSE
    OBVIOUS
  <2>1. T \subseteq Nat
    OBVIOUS
  <2>2. PICK k \in T : \A m \in T : k <= m
    <3> HIDE DEF T
    <3> QED
      BY <2>1, LeastElement
  <2>3. k \in 0 .. BITS /\ Bit[k] \notin Nat \ {0} /\ k # 0
    BY <1>6, <2>2
  <2>4. k - 1 \in 0 .. BITS /\ k - 1 \notin T /\ k \in 1 .. BITS
    <3> HIDE DEF T
    <3> QED
      BY <1>1, <2>2, <2>3
  <2>5. Bit[k - 1] \in Nat \ {0}
    BY <2>4
  <2>6. Bit[k] = 2 * Bit[k - 1]
    BY <1>6, <2>4
  <2> QED
    BY <2>3, <2>5, <2>6
<1> QED
  BY <1>6, <1>7

\* The quotient by h is that by 2h with one bit more.
LEMMA HalfDivisor ==
  ASSUME NEW a \in Nat, NEW h \in Nat \ {0}
  PROVE  /\ a \div h \in Nat /\ a \div (2 * h) \in Nat /\ (a \div h) % 2 \in {0, 1}
         /\ a \div h = 2 * (a \div (2 * h)) + ((a \div h) % 2)
<1> DEFINE p == a \div h
           r == a % h
           x == p \div 2
           y == p % 2
<1>1. p \in Nat /\ r \in 0 .. h - 1 /\ a = h * p + r
  BY Division
<1>2. x \in Nat /\ y \in 0 .. 1 /\ p = 2 * x + y
  <2> HIDE DEF p
  <2> QED
    BY <1>1
<1>3. a \div (2 * h) = x
  <2> HIDE DEF p, r, x, y
  <2>1. y \in {0, 1}
    BY <1>2
  <2>2. h * p = h * (2 * x) + h * y
    BY <1>1, <1>2
  <2>3. h * (2 * x) = (2 * h) * x /\ (2 * h) * x \in Nat /\ 2 * h \in Nat \ {0}
    BY <1>2
  <2>4. h * y \in Nat /\ h * y <= h
    BY <2>1
  <2>5. a = (2 * h) * x + (h * y + r) /\ h * y + r \in 0 .. (2 * h) - 1
    BY <1>1, <2>2, <2>3, <2>4
  <2>6. \A d \in Nat \ {0}, e \in Nat : e \in 0 .. d - 1 /\ a = d * x + e => a \div d = x
    BY <1>2, DivisionUnique
  <2>7. h * y + r \in Nat
    BY <1>1, <2>4
  <2> QED
    BY <2>3, <2>5, <2>6, <2>7
<1>4. y \in {0, 1}
  BY <1>2
<1> HIDE DEF x, y
<1>5. p = 2 * (a \div (2 * h)) + y
  BY <1>2, <1>3
<1>6. a \div (2 * h) \in Nat
  BY <1>2, <1>3
<1> QED
  BY <1>1, <1>4, <1>5, <1>6 DEF y

\* The inductive invariant of the division.
DivInv ==
  /\ i \in -1 .. BITS - 1
  /\ numerator \in Uint32 /\ denominator \in Nat \ {0}
  /\ quotient \in Nat /\ remainder \in Nat
  /\ DivisionExact

\* Between calls there is no bit to go.
LEMMA DivInvInit == DivInit => DivInv
<1> SUFFICES ASSUME DivInit PROVE DivInv
  OBVIOUS
<1>1. i + 1 = 0 /\ Bit[i + 1] = 1 /\ Bit[BITS] \in Nat \ {0} /\ BITS \in Nat \ {0}
  BY BitIs, BitsAssumption DEF DivInit
<1>2. DivisionExact
  BY <1>1 DEF DivInit, DivisionExact
<1> QED
  BY <1>1, <1>2 DEF DivInit, DivInv, Uint32

\* At the start no bit of the numerator has been seen.
LEMMA DivCallInv ==
  ASSUME NEW a \in Uint32, NEW d \in Uint32 \ {0}, DivCall(a, d)
  PROVE  DivInv'
<1>1. BITS \in Nat \ {0} /\ Bit[BITS] \in Nat \ {0} /\ a \in 0 .. Bit[BITS] - 1
  BY BitIs, BitsAssumption DEF Uint32
<1>2. d \in Nat \ {0}
  BY <1>1 DEF Uint32
<1>3. /\ numerator' = a /\ denominator' = d /\ i' = BITS - 1
      /\ quotient' = 0 /\ remainder' = 0
  BY DEF DivCall
<1>4. i' + 1 = BITS
  BY <1>1, <1>3
<1>5. a \div Bit[BITS] = 0 /\ 0 \div Bit[BITS] = 0 /\ 0 % Bit[BITS] = 0
  <2>1. a = Bit[BITS] * 0 + a /\ 0 = Bit[BITS] * 0 + 0 /\ 0 \in 0 .. Bit[BITS] - 1
    BY <1>1
  <2> QED
    BY <1>1, <2>1, DivisionUnique
<1>6. DivisionExact'
  BY <1>2, <1>3, <1>4, <1>5 DEF DivisionExact
<1> QED
  BY <1>1, <1>2, <1>3, <1>6 DEF DivInv

\* So it is when the result is used.
LEMMA ForgetInv == DivInv /\ Forget => DivInv'
<1> SUFFICES ASSUME DivInv, Forget PROVE DivInv'
  OBVIOUS
<1>1. i = -1
  BY BitsAssumption DEF Forget, Dividing, DivInv
<1>2. DivInit'
  BY <1>1 DEF Forget, DivInit
<1> QED
  BY <1>2, DivInvInit, PTL

\* A turn brings down one bit: the shifted remainder is at most the bits seen,
\* so it is a word, and it is less than twice the denominator.
LEMMA DivTurnInv == DivInv /\ DivTurn => DivInv'
<1> SUFFICES ASSUME DivInv, DivTurn PROVE DivInv'
  OBVIOUS
<1> DEFINE h == Bit[i]
           s == Bit[i + 1]
           high == numerator \div s
           b == NumeratorBit
           Q == quotient \div s
           shifted == 2 * remainder + b
<1>1. /\ i \in 0 .. BITS - 1 /\ BITS \in Nat \ {0}
      /\ numerator \in Nat /\ numerator < Bit[BITS] /\ Bit[BITS] \in Nat \ {0}
      /\ denominator \in Nat \ {0} /\ quotient \in Nat /\ remainder \in Nat
  <2>1. BITS \in Nat \ {0} /\ Bit[BITS] \in Nat \ {0}
    BY BitIs, BitsAssumption
  <2> QED
    BY <2>1 DEF DivInv, DivTurn, Dividing, Uint32
<1>2. h \in Nat \ {0} /\ s \in Nat \ {0} /\ s = 2 * h
  <2>1. i \in 0 .. BITS /\ i + 1 \in 1 .. BITS /\ i + 1 \in 0 .. BITS /\ (i + 1) - 1 = i
    BY <1>1
  <2> QED
    BY <2>1, BitIs
<1>3. high = Q * denominator + remainder /\ quotient % s = 0 /\ remainder < denominator
  BY DEF DivInv, DivisionExact
<1>4. /\ high \in Nat /\ b \in {0, 1} /\ numerator \div h \in Nat
      /\ numerator \div h = 2 * high + b
  BY <1>1, <1>2, HalfDivisor DEF NumeratorBit
<1>5. Q \in Nat /\ quotient = s * Q
  <2> HIDE DEF s
  <2>1. Q \in Nat /\ quotient % s \in Nat /\ quotient = s * Q + (quotient % s)
    <3>1. quotient \in Nat /\ s \in Nat \ {0}
      BY <1>1, <1>2
    <3> QED
      BY <3>1, Division
  <2> HIDE DEF Q
  <2>2. s * Q \in Nat
    BY <1>2, <2>1
  <2> QED
    BY <1>3, <2>1, <2>2
<1>6. numerator \div h <= numerator
  <2> DEFINE p == numerator \div h
             r == numerator % h
  <2> HIDE DEF h
  <2>1. p \in Nat /\ r \in Nat /\ numerator = h * p + r
    <3>1. numerator \in Nat /\ h \in Nat \ {0}
      BY <1>1, <1>2
    <3> QED
      BY <3>1, Division
  <2> HIDE DEF p, r
  <2>2. h * p >= p /\ h * p \in Nat
    <3>1. PICK j \in Nat : h = 1 + j
      <4>1. h - 1 \in Nat /\ h = 1 + (h - 1)
        BY <1>2
      <4> QED
        BY <4>1
    <3>2. h * p = p + j * p /\ j * p \in Nat
      BY <2>1, <3>1
    <3> QED
      BY <2>1, <3>2
  <2>3. p <= numerator
    BY <1>1, <2>1, <2>2
  <2> QED
    BY <2>3 DEF p
<1> HIDE DEF h, s, high, b, Q
<1>7. Q * denominator \in Nat
  BY <1>1, <1>5
<1>8. shifted \in Nat /\ shifted < Bit[BITS]
  BY <1>1, <1>3, <1>4, <1>6, <1>7
<1>9. Word(shifted) = shifted
  <2> HIDE DEF shifted
  <2>1. shifted \in 0 .. Bit[BITS] - 1 /\ shifted = Bit[BITS] * 0 + shifted
    BY <1>1, <1>8
  <2> QED
    BY <1>1, <2>1, DivisionUnique DEF Word
<1>10. /\ TakeOff(shifted) /\ i' = i - 1
       /\ numerator' = numerator /\ denominator' = denominator
  BY <1>9 DEF DivTurn, b
<1>11. quotient = h * (2 * Q) /\ h * (2 * Q) \in Nat
  BY <1>1, <1>2, <1>5
<1>12. numerator \div h = (2 * Q) * denominator + shifted /\ (2 * Q) * denominator \in Nat
  <2>1. (2 * Q) * denominator = 2 * (Q * denominator)
    BY <1>1, <1>5
  <2> QED
    BY <1>1, <1>3, <1>4, <1>7, <2>1
\* What is to be shown of the new quotient and remainder.
<1>13. SUFFICES ASSUME NEW q \in Nat, quotient' = h * q, remainder' \in Nat,
                       numerator \div h = q * denominator + remainder',
                       remainder' < denominator
                PROVE  DivInv'
  <2>1. CASE shifted >= denominator
    <3>1. remainder' = shifted - denominator /\ quotient' = quotient + h
      BY <1>10, <2>1 DEF TakeOff, h
    <3>2. 2 * Q + 1 \in Nat /\ quotient' = h * (2 * Q + 1)
      <4>1. h * (2 * Q + 1) = h * (2 * Q) + h
        BY <1>2, <1>5
      <4> QED
        BY <1>2, <1>5, <1>11, <3>1, <4>1
    <3>3. (2 * Q + 1) * denominator = (2 * Q) * denominator + denominator
      BY <1>1, <1>5
    <3>4. numerator \div h = (2 * Q + 1) * denominator + remainder'
      BY <1>1, <1>8, <1>12, <3>1, <3>3
    <3>5. remainder' \in Nat /\ remainder' < denominator
      BY <1>1, <1>3, <1>4, <1>8, <2>1, <3>1
    <3> QED
      BY <1>13, <3>2, <3>4, <3>5
  <2>2. CASE ~(shifted >= denominator)
    <3>1. remainder' = shifted /\ quotient' = quotient
      BY <1>10, <2>2 DEF TakeOff
    <3>2. 2 * Q \in Nat /\ shifted < denominator
      BY <1>1, <1>5, <1>8, <2>2
    <3> QED
      BY <1>8, <1>11, <1>12, <1>13, <3>1, <3>2
  <2> QED
    BY <2>1, <2>2
<1>14. quotient' \in Nat /\ quotient' \div h = q /\ quotient' % h = 0
  <2>1. h * q \in Nat /\ h * q = h * q + 0 /\ 0 \in 0 .. h - 1
    BY <1>2
  <2> QED
    BY <1>2, <1>13, <2>1, DivisionUnique
<1>15. Bit[i' + 1] = h
  <2>1. i' + 1 = i
    BY <1>1, <1>10
  <2> QED
    BY <2>1 DEF h
<1>16. DivisionExact'
  BY <1>10, <1>13, <1>14, <1>15 DEF DivisionExact
<1> QED
  BY <1>1, <1>10, <1>13, <1>14, <1>16 DEF DivInv

\* Every turn of the loop of unsigned_divmod keeps the invariant.
LEMMA DivInvNext == DivInv /\ [DivNext]_divVars => DivInv'
<1> SUFFICES ASSUME DivInv, [DivNext]_divVars PROVE DivInv'
  OBVIOUS
<1>1. CASE UNCHANGED divVars
  BY <1>1 DEF divVars, DivInv, DivisionExact
<1> QED
  BY <1>1, DivTurnInv, ForgetInv, DivCallInv DEF DivNext

\* unsigned_divmod (math.c:17), for every width of word and all operands: the
\* loop keeps quotient, remainder and the bits seen in step, and no shift of
\* the remainder loses a bit.
THEOREM DivisionIsExact == DivSpec => []DivisionExact
<1>1. DivInv => DivisionExact
  BY DEF DivInv
<1> QED
  BY <1>1, DivInvInit, DivInvNext, PTL DEF DivSpec

\* What a caller of unsigned_divmod relies on: when the loop has ended the two
\* results are the quotient and the remainder of its operands.
THEOREM DivisionResult ==
  DivSpec => [](~Dividing => /\ quotient = numerator \div denominator
                             /\ remainder = numerator % denominator)
<1>1. DivInv => (~Dividing => /\ quotient = numerator \div denominator
                              /\ remainder = numerator % denominator)
  <2> SUFFICES ASSUME DivInv, ~Dividing
               PROVE  /\ quotient = numerator \div denominator
                      /\ remainder = numerator % denominator
    OBVIOUS
  <2>1. /\ BITS \in Nat \ {0} /\ Bit[0] = 1 /\ Bit[BITS] \in Nat \ {0}
    BY BitIs, BitsAssumption
  <2>2. i + 1 = 0
    BY <2>1 DEF DivInv, Dividing
  <2>3. /\ numerator \in Nat /\ denominator \in Nat \ {0}
        /\ quotient \in Nat /\ remainder \in Nat
    BY <2>1 DEF DivInv, Uint32
  <2>4. /\ numerator \div 1 = (quotient \div 1) * denominator + remainder
        /\ remainder < denominator
    BY <2>1, <2>2 DEF DivInv, DivisionExact
  <2>5. numerator \div 1 = numerator /\ quotient \div 1 = quotient
    BY <2>3
  <2>6. quotient * denominator = denominator * quotient
    BY <2>3
  <2>7. numerator = denominator * quotient + remainder /\ remainder \in 0 .. denominator - 1
    BY <2>3, <2>4, <2>5, <2>6
  <2> QED
    BY <2>3, <2>7, DivisionUnique
<1> QED
  BY <1>1, DivInvInit, DivInvNext, PTL DEF DivSpec

-----------------------------------------------------------------------------
(***************************************************************************)
(* Strings.                                                                *)
(***************************************************************************)
LEMMA SameSequence ==
  ASSUME NEW S, NEW s \in Seq(S), NEW t \in Seq(S),
         Len(s) = Len(t), \A k \in 1 .. Len(s) : s[k] = t[k]
  PROVE  s = t
<1>1. s = [k \in 1 .. Len(s) |-> s[k]] /\ t = [k \in 1 .. Len(t) |-> t[k]]
  OBVIOUS
<1> QED
  BY <1>1

\* A string without a NUL ends behind its characters.
LEMMA StrlenIs ==
  ASSUME NEW C, NUL \notin C, NEW s \in Seq(C)
  PROVE  strlen(s) = Len(s)
<1> DEFINE ends == {k \in 1 .. Len(s) + 1 : At(s, k) = NUL}
<1>1. Len(s) \in Nat
  OBVIOUS
<1>2. Len(s) + 1 \in ends /\ \A k \in ends : k \in Nat /\ Len(s) + 1 <= k
  <2>1. Len(s) + 1 \in ends
    BY <1>1 DEF At
  <2>2. ASSUME NEW k \in ends PROVE k \in Nat /\ Len(s) + 1 <= k
    <3>1. k \in 1 .. Len(s) => At(s, k) \in C
      BY DEF At
    <3> QED
      BY <1>1, <3>1
  <2> QED
    BY <2>1, <2>2
<1>3. Min(ends) = Len(s) + 1
  <2> HIDE DEF ends
  <2>1. \E k \in ends : \A m \in ends : k =< m
    BY <1>1, <1>2
  <2>2. Min(ends) \in ends /\ \A m \in ends : Min(ends) =< m
    BY <2>1 DEF Min
  <2> QED
    BY <1>1, <1>2, <2>2
<1> QED
  BY <1>1, <1>3 DEF strlen

\* Where the comparison of two strings ends, and that its result is what it met
\* there; what follows a NUL of s is never looked at.
LEMMA CompareEnd ==
  ASSUME NEW s, NEW t, NEW N \in Nat \ {0}
  PROVE  \E e \in 1 .. N :
           /\ e = N \/ At(s, e) # At(t, e) \/ At(s, e) = NUL
           /\ \A j \in 1 .. e - 1 : At(s, j) = At(t, j) /\ At(s, j) # NUL
           /\ Compare(s, t, N) = IF At(s, e) = At(t, e) THEN 0 ELSE 1
<1> DEFINE same(k) == At(s, k) = At(t, k)
           Stop(k) == k = N \/ ~same(k) \/ At(s, k) = NUL
           Ends(k) == Stop(k) /\ \A j \in 1 .. k - 1 : same(j) /\ At(s, j) # NUL
           e == CHOOSE k \in 1 .. N : Ends(k)
           T == {k \in 1 .. N : Stop(k)}
<1>2. PICK k0 \in T : \A k \in T : k0 <= k
  <2>1. N \in T
    OBVIOUS
  <2>2. T \subseteq Nat
    OBVIOUS
  <2> HIDE DEF T
  <2> QED
    BY <2>1, <2>2, LeastElement, Zenon
<1>3. k0 \in 1 .. N /\ Ends(k0)
  <2>1. k0 \in 1 .. N /\ Stop(k0)
    BY <1>2
  <2>2. ASSUME NEW j \in 1 .. k0 - 1 PROVE same(j) /\ At(s, j) # NUL
    <3>1. j \in 1 .. N /\ ~(k0 <= j)
      BY <2>1
    <3>2. j \notin T
      <4> HIDE DEF T
      <4> QED
        BY <1>2, <3>1
    <3>3. ~Stop(j)
      BY <3>1, <3>2
    <3> QED
      BY <3>3
  <2> QED
    BY <2>1, <2>2
<1>4. e \in 1 .. N /\ Ends(e)
  <2> HIDE DEF Ends
  <2> QED
    BY <1>3
<1>5. Compare(s, t, N) = IF same(e) THEN 0 ELSE 1
  BY DEF Compare
<1> HIDE DEF e
<1> QED
  BY <1>4, <1>5

\* The first N characters are compared, unless s1 is shorter.
LEMMA CompareIs ==
  ASSUME NEW C, NUL \notin C, NEW s \in Seq(C), NEW t, NEW N \in 1 .. Len(s) + 1
  PROVE  Compare(s, t, N) = 0 <=> \A k \in 1 .. N : At(s, k) = At(t, k)
<1> DEFINE same(k) == At(s, k) = At(t, k)
<1>1. Len(s) \in Nat /\ N \in Nat \ {0} /\ N <= Len(s) + 1
  OBVIOUS
<1>2. PICK e \in 1 .. N :
        /\ e = N \/ ~same(e) \/ At(s, e) = NUL
        /\ \A j \in 1 .. e - 1 : same(j) /\ At(s, j) # NUL
        /\ Compare(s, t, N) = IF same(e) THEN 0 ELSE 1
  BY <1>1, CompareEnd
<1>3. e = N \/ ~same(e)
  <2>1. CASE At(s, e) = NUL
    <3>1. e \notin 1 .. Len(s)
      BY <2>1 DEF At
    <3> QED
      BY <1>1, <1>2, <3>1
  <2> QED
    BY <1>2, <2>1
<1>4. ASSUME e = N, same(e), NEW k \in 1 .. N PROVE same(k)
  <2>1. k = N \/ k \in 1 .. e - 1
    BY <1>1, <1>4
  <2> QED
    BY <1>2, <1>4, <2>1
<1>5. same(e) <=> \A k \in 1 .. N : same(k)
  BY <1>2, <1>3, <1>4
<1> QED
  BY <1>2, <1>5

\* Bytes that strcmp finds the same as a string begin with it; a NUL and
\* anything else may follow.
LEMMA StrcmpBegins ==
  ASSUME NEW B, NEW s \in Seq(B), NEW C, NUL \notin C, NEW t \in Seq(C), strcmp(s, t) = 0
  PROVE  Len(t) <= Len(s) /\ \A j \in 1 .. Len(t) : s[j] = t[j]
<1>1. Len(s) \in Nat /\ Len(t) \in Nat /\ Len(s) + 1 \in Nat \ {0}
  OBVIOUS
<1>2. PICK e \in 1 .. Len(s) + 1 :
        /\ e = Len(s) + 1 \/ At(s, e) # At(t, e) \/ At(s, e) = NUL
        /\ \A j \in 1 .. e - 1 : At(s, j) = At(t, j) /\ At(s, j) # NUL
        /\ Compare(s, t, Len(s) + 1) = IF At(s, e) = At(t, e) THEN 0 ELSE 1
  BY <1>1, CompareEnd
<1>3. At(s, e) = At(t, e)
  BY <1>2 DEF strcmp
<1>4. At(t, e) = NUL
  <2>1. At(s, Len(s) + 1) = NUL
    BY <1>1 DEF At
  <2> QED
    BY <1>2, <1>3, <2>1
<1>5. ~(e <= Len(t))
  <2>1. e \in 1 .. Len(t) => At(t, e) \in C
    BY DEF At
  <2> QED
    BY <1>1, <1>2, <1>4, <2>1
<1>6. ASSUME NEW j \in 1 .. Len(t) PROVE j <= Len(s) /\ s[j] = t[j]
  <2>1. j \in 1 .. e - 1
    BY <1>1, <1>2, <1>5
  <2>2. At(s, j) = At(t, j) /\ At(s, j) # NUL
    BY <1>2, <2>1
  <2>3. At(t, j) = t[j]
    BY DEF At
  <2> QED
    BY <2>2, <2>3 DEF At
<1>7. Len(t) <= Len(s)
  <2>1. CASE Len(t) = 0
    BY <1>1, <2>1
  <2>2. CASE Len(t) # 0
    <3>1. Len(t) \in 1 .. Len(t)
      BY <1>1, <2>2
    <3> QED
      BY <1>6, <3>1
  <2> QED
    BY <2>1, <2>2
<1> QED
  BY <1>6, <1>7

\* strcmp tells whether two strings are the same.
LEMMA StrcmpIs ==
  ASSUME NEW C, NUL \notin C, NEW s \in Seq(C), NEW t \in Seq(C)
  PROVE  strcmp(s, t) = 0 <=> s = t
<1>1. Len(s) \in Nat /\ Len(t) \in Nat /\ Len(s) + 1 \in 1 .. Len(s) + 1
  OBVIOUS
<1>2. strcmp(s, t) = 0 <=> \A k \in 1 .. Len(s) + 1 : At(s, k) = At(t, k)
  BY <1>1, CompareIs DEF strcmp
<1>3. ASSUME \A k \in 1 .. Len(s) + 1 : At(s, k) = At(t, k) PROVE s = t
  <2>1. Len(t) <= Len(s)
    <3>1. At(s, Len(s) + 1) = NUL
      BY <1>1 DEF At
    <3>2. At(t, Len(s) + 1) = NUL
      BY <1>1, <1>3, <3>1
    <3>3. Len(s) + 1 <= Len(t) => At(t, Len(s) + 1) \in C
      BY <1>1 DEF At
    <3> QED
      BY <1>1, <3>2, <3>3
  <2>2. ASSUME NEW k \in 1 .. Len(s) PROVE k <= Len(t) /\ s[k] = t[k]
    <3>1. At(s, k) = s[k] /\ s[k] \in C
      BY <1>1 DEF At
    <3>2. At(t, k) = s[k]
      BY <1>1, <1>3, <3>1
    <3> QED
      BY <3>1, <3>2 DEF At
  <2>3. Len(s) = Len(t)
    <3>1. CASE Len(s) = 0
      BY <1>1, <2>1, <3>1
    <3>2. CASE Len(s) # 0
      BY <1>1, <2>1, <2>2, <3>2
    <3> QED
      BY <3>1, <3>2
  <2> QED
    BY <2>2, <2>3, SameSequence
<1> QED
  BY <1>2, <1>3

\* strncmp with the length of a string tells whether the other one begins with it.
LEMMA StrncmpIs ==
  ASSUME NEW C, NUL \notin C, NEW s \in Seq(C), NEW t \in Seq(C)
  PROVE  strncmp(s, t, strlen(s)) = 0 <=>
           Len(s) <= Len(t) /\ \A k \in 1 .. Len(s) : s[k] = t[k]
<1>1. Len(s) \in Nat /\ Len(t) \in Nat /\ strlen(s) = Len(s)
  BY StrlenIs
<1>2. CASE Len(s) = 0
  BY <1>1, <1>2 DEF strncmp
<1>3. CASE Len(s) # 0
  <2>1. Len(s) \in 1 .. Len(s) + 1
    BY <1>1, <1>3
  <2>2. strncmp(s, t, strlen(s)) = 0 <=> \A k \in 1 .. Len(s) : At(s, k) = At(t, k)
    BY <1>1, <1>3, <2>1, CompareIs DEF strncmp
  <2>3. ASSUME NEW k \in 1 .. Len(s)
        PROVE  At(s, k) = At(t, k) <=> k <= Len(t) /\ s[k] = t[k]
    <3>1. At(s, k) = s[k] /\ s[k] \in C
      BY <1>1 DEF At
    <3> QED
      BY <1>1, <3>1 DEF At
  <2>4. (\A k \in 1 .. Len(s) : k <= Len(t)) <=> Len(s) <= Len(t)
    BY <1>1, <1>3
  <2> QED
    BY <2>2, <2>3, <2>4
<1> QED
  BY <1>2, <1>3

-----------------------------------------------------------------------------
(***************************************************************************)
(* kgetch.                                                                 *)
(***************************************************************************)
KeyBytes == {"ESC", "[", "A", "B", "C", "D", "DEL", "BS"}

\* The table: no sequence is another one or the beginning of one.
LEMMA SpecialKeyFacts ==
  /\ NUL \notin KeyBytes /\ SpecialKeys # {}
  /\ \A k \in SpecialKeys :
       /\ k.sequence \in Seq(KeyBytes) /\ k.code # NUL
       /\ \/ Len(k.sequence) = 3 /\ k.sequence[1] = "ESC"
          \/ Len(k.sequence) = 1 /\ k.sequence[1] \in {"DEL", "BS"}
  /\ \A k, l \in SpecialKeys : k.sequence = l.sequence => k = l
<1> DEFINE K(j) == SPECIAL_KEY_SEQUENCES[j]
<1>1. /\ DOMAIN SPECIAL_KEY_SEQUENCES = 1 .. 6
      /\ K(1) = Key("KEY_ARROW_UP", <<"ESC", "[", "A">>)
      /\ K(2) = Key("KEY_ARROW_DOWN", <<"ESC", "[", "B">>)
      /\ K(3) = Key("KEY_ARROW_RIGHT", <<"ESC", "[", "C">>)
      /\ K(4) = Key("KEY_ARROW_LEFT", <<"ESC", "[", "D">>)
      /\ K(5) = Key("KEY_BACKSPACE", <<"DEL">>)
      /\ K(6) = Key("KEY_BACKSPACE", <<"BS">>)
  BY DEF SPECIAL_KEY_SEQUENCES
<1>2. \A k \in SpecialKeys : \E j \in 1 .. 6 : k = K(j)
  BY <1>1, Zenon DEF SpecialKeys, Range
<1>3. \A j \in 1 .. 6 : j = 1 \/ j = 2 \/ j = 3 \/ j = 4 \/ j = 5 \/ j = 6
  OBVIOUS
<1> HIDE DEF K
<1>4. \A k \in SpecialKeys :
        \/ k = Key("KEY_ARROW_UP", <<"ESC", "[", "A">>)
        \/ k = Key("KEY_ARROW_DOWN", <<"ESC", "[", "B">>)
        \/ k = Key("KEY_ARROW_RIGHT", <<"ESC", "[", "C">>)
        \/ k = Key("KEY_ARROW_LEFT", <<"ESC", "[", "D">>)
        \/ k = Key("KEY_BACKSPACE", <<"DEL">>)
        \/ k = Key("KEY_BACKSPACE", <<"BS">>)
  BY <1>1, <1>2, <1>3, Zenon
<1>5. NUL \notin KeyBytes
  BY DEF NUL, KeyBytes
<1>6. SpecialKeys # {}
  <2>1. 1 \in 1 .. 6
    OBVIOUS
  <2> QED
    BY <1>1, <2>1 DEF SpecialKeys, Range
<1>7. ASSUME NEW k \in SpecialKeys
      PROVE  /\ k.sequence \in Seq(KeyBytes) /\ k.code # NUL
             /\ \/ Len(k.sequence) = 3 /\ k.sequence[1] = "ESC"
                \/ Len(k.sequence) = 1 /\ k.sequence[1] \in {"DEL", "BS"}
  <2>1. \/ \E x \in {"A", "B", "C", "D"} : k.sequence = <<"ESC", "[", x>>
        \/ \E x \in {"DEL", "BS"} : k.sequence = <<x>>
    BY <1>4 DEF Key
  <2>2. k.code # NUL
    BY <1>4 DEF Key, NUL
  <2>3. \A x \in {"A", "B", "C", "D"} :
          /\ <<"ESC", "[", x>> \in Seq(KeyBytes)
          /\ Len(<<"ESC", "[", x>>) = 3 /\ <<"ESC", "[", x>>[1] = "ESC"
    BY DEF KeyBytes
  <2>4. \A x \in {"DEL", "BS"} :
          <<x>> \in Seq(KeyBytes) /\ Len(<<x>>) = 1 /\ <<x>>[1] = x
    BY DEF KeyBytes
  <2> QED
    BY <2>1, <2>2, <2>3, <2>4
<1>8. ASSUME NEW k \in SpecialKeys, NEW l \in SpecialKeys, k.sequence = l.sequence
      PROVE  k = l
  BY <1>4, <1>8 DEF Key
<1> QED
  BY <1>5, <1>6, <1>7, <1>8

\* The bytes s may still become key k, and they are it.
Begins(s, k) == Len(s) <= Len(k.sequence) /\ \A m \in 1 .. Len(s) : s[m] = k.sequence[m]

\* kgetch reads on while the bytes are the beginning of a key and not all of it.
LEMMA KeepReadingIs ==
  ASSUME NEW C, NUL \notin C, NEW s \in Seq(C)
  PROVE  /\ KeepReading(s) <=> /\ \E k \in SpecialKeys : Begins(s, k)
                               /\ \A k \in SpecialKeys : s # k.sequence
         /\ \A k \in SpecialKeys : s = k.sequence => get_special_key_code(s) = k.code
         /\ (\A k \in SpecialKeys : s # k.sequence) => get_special_key_code(s) = NUL
<1> DEFINE D == C \union KeyBytes
           matches == {k \in SpecialKeys : strcmp(s, k.sequence) = 0}
<1>1. NUL \notin D /\ s \in Seq(D) /\ \A k \in SpecialKeys : k.sequence \in Seq(D)
  BY SpecialKeyFacts
<1> HIDE DEF D
<1>2. \A k \in SpecialKeys : strcmp(s, k.sequence) = 0 <=> s = k.sequence
  BY <1>1, StrcmpIs
<1>3. \A k \in SpecialKeys : strncmp(s, k.sequence, strlen(s)) = 0 <=> Begins(s, k)
  BY <1>1, StrncmpIs DEF Begins
<1>4. get_special_key_code(s) =
        IF matches = {} THEN NUL ELSE (CHOOSE k \in matches : TRUE).code
  BY DEF get_special_key_code
<1>5. ASSUME NEW k \in SpecialKeys, s = k.sequence
      PROVE  get_special_key_code(s) = k.code
  <2>1. matches = {k}
    BY <1>2, <1>5, SpecialKeyFacts
  <2>2. (CHOOSE l \in matches : TRUE) = k
    BY <2>1
  <2> QED
    BY <1>4, <2>1, <2>2
<1>6. ASSUME \A k \in SpecialKeys : s # k.sequence
      PROVE  get_special_key_code(s) = NUL
  <2>1. matches = {}
    BY <1>2, <1>6
  <2> QED
    BY <1>4, <2>1
<1>7. get_special_key_code(s) = NUL <=> \A k \in SpecialKeys : s # k.sequence
  BY <1>5, <1>6, SpecialKeyFacts
<1> QED
  BY <1>3, <1>5, <1>6, <1>7 DEF KeepReading, is_special_key_sequence_prefix

\* kgetch takes bytes up to the first point where its loop stops.
LEMMA ConsumedIs ==
  ASSUME NEW B, NEW q \in Seq(B)
  PROVE  /\ Consumed(q) \in 0 .. Len(q)
         /\ Consumed(q) = Len(q) \/ ~KeepReading(SubSeq(q, 1, Consumed(q)))
         /\ \A m \in 0 .. Consumed(q) - 1 : KeepReading(SubSeq(q, 1, m))
<1> DEFINE Stop(m) == m = Len(q) \/ ~KeepReading(SubSeq(q, 1, m))
           T == {m \in 0 .. Len(q) : Stop(m)}
           First(m) == Stop(m) /\ \A j \in 0 .. m - 1 : KeepReading(SubSeq(q, 1, j))
<1>1. Len(q) \in Nat
  OBVIOUS
<1>2. PICK c \in T : \A m \in T : c <= m
  <2>1. T \subseteq Nat /\ Len(q) \in T
    BY <1>1
  <2> HIDE DEF T
  <2> QED
    BY <2>1, LeastElement
<1>3. c \in 0 .. Len(q) /\ First(c)
  <2>1. c \in 0 .. Len(q) /\ Stop(c)
    BY <1>2
  <2>2. ASSUME NEW j \in 0 .. c - 1 PROVE KeepReading(SubSeq(q, 1, j))
    <3>1. j \in 0 .. Len(q) /\ ~(c <= j)
      BY <1>1, <2>1
    <3>2. j \notin T
      <4> HIDE DEF T
      <4> QED
        BY <1>2, <3>1
    <3> QED
      BY <3>1, <3>2
  <2> QED
    BY <2>1, <2>2
<1>4. Consumed(q) = CHOOSE m \in 0 .. Len(q) : First(m)
  BY DEF Consumed
<1>5. Consumed(q) \in 0 .. Len(q) /\ First(Consumed(q))
  <2> HIDE DEF First
  <2> QED
    BY <1>3, <1>4
<1> QED
  BY <1>5

\* The bytes of a key are read as that key, whatever follows them.
LEMMA KeyDecoded ==
  ASSUME NEW B, NEW q \in Seq(B), NEW k \in SpecialKeys, StartsWith(q, k.sequence)
  PROVE  KeyRead(q) = k.code /\ Consumed(q) = Len(k.sequence)
<1> DEFINE c == Consumed(q)
           L == Len(k.sequence)
<1>1. /\ k.sequence \in Seq(KeyBytes) /\ NUL \notin KeyBytes /\ L \in Nat /\ L >= 1
      /\ Len(q) \in Nat /\ L <= Len(q) /\ c \in 0 .. Len(q)
  BY SpecialKeyFacts, ConsumedIs DEF StartsWith
<1>2. \A m \in 1 .. L : q[m] = k.sequence[m]
  <2>1. k.sequence = SubSeq(q, 1, L)
    BY DEF StartsWith
  <2>2. \A m \in 1 .. L : SubSeq(q, 1, L)[m] = q[m]
    BY <1>1
  <2> QED
    BY <2>1, <2>2
<1>3. ASSUME NEW m \in 0 .. L
      PROVE  /\ SubSeq(q, 1, m) \in Seq(KeyBytes) /\ Len(SubSeq(q, 1, m)) = m
             /\ \A j \in 1 .. m : SubSeq(q, 1, m)[j] = k.sequence[j]
  <2>1. SubSeq(q, 1, m) = [j \in 1 .. m |-> q[j]]
    BY <1>1
  <2>2. \A j \in 1 .. m : q[j] = k.sequence[j] /\ k.sequence[j] \in KeyBytes
    BY <1>1, <1>2
  <2> QED
    BY <2>1, <2>2
<1>4. SubSeq(q, 1, L) = k.sequence
  BY DEF StartsWith
<1>5. ASSUME NEW m \in 0 .. L - 1 PROVE KeepReading(SubSeq(q, 1, m))
  <2> DEFINE s == SubSeq(q, 1, m)
  <2>1. /\ s \in Seq(KeyBytes) /\ Len(s) = m /\ m < L /\ m \in Nat
        /\ \A j \in 1 .. m : s[j] = k.sequence[j]
    BY <1>1, <1>3
  <2> HIDE DEF s
  <2>2. Begins(s, k)
    BY <1>1, <2>1 DEF Begins
  <2>3. ASSUME NEW l \in SpecialKeys, s = l.sequence PROVE FALSE
    <3>1. Len(l.sequence) = m
      BY <2>1, <2>3
    <3>2. L = 3 /\ k.sequence[1] = "ESC" /\ m = 1 /\ l.sequence[1] \in {"DEL", "BS"}
      <4>1. \/ L = 3 /\ k.sequence[1] = "ESC"
            \/ L = 1 /\ k.sequence[1] \in {"DEL", "BS"}
        BY SpecialKeyFacts
      <4>2. \/ Len(l.sequence) = 3 /\ l.sequence[1] = "ESC"
            \/ Len(l.sequence) = 1 /\ l.sequence[1] \in {"DEL", "BS"}
        BY SpecialKeyFacts
      <4> HIDE DEF L
      <4> QED
        BY <2>1, <3>1, <4>1, <4>2
    <3>3. l.sequence[1] = "ESC"
      BY <2>1, <2>3, <3>2
    <3> QED
      BY <3>2, <3>3
  <2>4. KeepReading(s)
    BY <1>1, <2>1, <2>2, <2>3, KeepReadingIs
  <2> QED
    BY <2>4 DEF s
<1>6. ~KeepReading(SubSeq(q, 1, L)) /\ get_special_key_code(SubSeq(q, 1, L)) = k.code
  BY <1>1, <1>4, KeepReadingIs
<1>7. c = L
  <2>1. ~(c < L)
    <3>1. c < L => c \in 0 .. L - 1 /\ c # Len(q)
      BY <1>1
    <3> QED
      BY <1>5, <3>1, ConsumedIs
  <2>2. ~(L < c)
    <3>1. L < c => L \in 0 .. c - 1
      BY <1>1
    <3> QED
      BY <1>6, <3>1, ConsumedIs
  <2> QED
    BY <1>1, <2>1, <2>2
<1>8. KeyRead(q) = k.code
  <2>1. k.code # NUL
    BY SpecialKeyFacts
  <2> QED
    BY <1>6, <1>7, <2>1 DEF KeyRead
<1> QED
  BY <1>7, <1>8

\* Only bytes that begin with those of a key are read as that key.
LEMMA KeyComplete ==
  ASSUME NEW B, NEW q \in Seq(B), B \intersect KeyCodes = {}, NUL \notin KeyCodes,
         KeyRead(q) \in KeyCodes
  PROVE  \E k \in SpecialKeys : k.code = KeyRead(q) /\ StartsWith(q, k.sequence)
<1> DEFINE c == Consumed(q)
           s == SubSeq(q, 1, c)
           matches == {k \in SpecialKeys : strcmp(s, k.sequence) = 0}
<1>1. c \in 0 .. Len(q) /\ Len(q) \in Nat
  BY ConsumedIs
<1>2. s \in Seq(B) /\ Len(s) = c /\ \A j \in 1 .. c : s[j] = q[j]
  <2> HIDE DEF c
  <2> QED
    BY <1>1
<1>3. KeyRead(q) = IF get_special_key_code(s) = NUL /\ s # <<>> THEN s[Len(s)]
                   ELSE get_special_key_code(s)
  BY DEF KeyRead
<1> HIDE DEF c, s
<1>4. get_special_key_code(s) # NUL
  <2> SUFFICES ASSUME get_special_key_code(s) = NUL PROVE FALSE
    OBVIOUS
  <2>1. s # <<>> /\ KeyRead(q) = s[Len(s)]
    BY <1>3
  <2>2. s[Len(s)] \in B
    BY <1>2, <2>1
  <2> QED
    BY <2>1, <2>2
<1>5. KeyRead(q) = get_special_key_code(s)
  BY <1>3, <1>4
<1>6. get_special_key_code(s) =
        IF matches = {} THEN NUL ELSE (CHOOSE k \in matches : TRUE).code
  BY DEF get_special_key_code
<1>7. PICK k \in matches : k.code = KeyRead(q)
  <2>1. matches # {}
    BY <1>4, <1>6
  <2>2. (CHOOSE k \in matches : TRUE) \in matches
    BY <2>1
  <2> QED
    BY <1>5, <1>6, <2>1, <2>2
<1>8. k \in SpecialKeys /\ strcmp(s, k.sequence) = 0
  BY <1>7
<1> HIDE DEF matches
<1>9. k.sequence \in Seq(KeyBytes) /\ NUL \notin KeyBytes
  BY <1>8, SpecialKeyFacts
<1>10. Len(k.sequence) <= Len(s) /\ \A j \in 1 .. Len(k.sequence) : s[j] = k.sequence[j]
  BY <1>2, <1>8, <1>9, StrcmpBegins
<1>11. StartsWith(q, k.sequence)
  <2>1. Len(k.sequence) \in Nat /\ Len(k.sequence) <= Len(q)
    BY <1>1, <1>2, <1>9, <1>10
  <2>2. \A j \in 1 .. Len(k.sequence) : q[j] = k.sequence[j]
    BY <1>1, <1>2, <1>9, <1>10
  <2>3. SubSeq(q, 1, Len(k.sequence)) = [j \in 1 .. Len(k.sequence) |-> q[j]]
    BY <2>1
  <2>4. k.sequence = [j \in 1 .. Len(k.sequence) |-> k.sequence[j]]
    BY <1>9
  <2> QED
    BY <2>1, <2>2, <2>3, <2>4 DEF StartsWith
<1> QED
  BY <1>7, <1>8, <1>11

\* The bytes waiting are always bytes.
HexTypeOK == received \in Seq(Bytes)

\* Only bytes are received.
LEMMA ReceivedType == HexSpec => []HexTypeOK
<1> USE DEF HexTypeOK
<1>1. HexInit => HexTypeOK
  BY DEF HexInit
<1>2. HexTypeOK /\ [HexNext]_received => HexTypeOK'
  <2> SUFFICES ASSUME received \in Seq(Bytes), [HexNext]_received
               PROVE  received' \in Seq(Bytes)
    OBVIOUS
  <2>1. CASE Receive
    BY <2>1 DEF Receive
  <2>2. CASE mon_hextee
    <3>1. Consumed(received) \in 0 .. Len(received) /\ Len(received) \in Nat
      BY ConsumedIs
    <3>2. SubSeq(received, Consumed(received) + 1, Len(received)) \in Seq(Bytes)
      BY <3>1
    <3>3. <<>> \in Seq(Bytes)
      OBVIOUS
    <3> QED
      BY <2>2, <3>2, <3>3 DEF mon_hextee
  <2> QED
    BY <2>1, <2>2 DEF HexNext
<1> HIDE DEF HexTypeOK
<1> QED
  BY <1>1, <1>2, PTL DEF HexSpec

\* kgetch returns the code of every key of the table, taking its bytes only, and
\* returns it for nothing but these bytes: a sequence that is broken, or split by
\* a call in between, is never completed to a key.
THEOREM KeysAreDecoded == HexSpec => []KeysDecoded
<1>1. Bytes \intersect KeyCodes = {} /\ NUL \notin KeyCodes
  BY KeyTableAssumption, SpecialKeyFacts DEF KeyCodes
<1>2. HexTypeOK => KeysDecoded
  <2> SUFFICES ASSUME received \in Seq(Bytes) PROVE KeysDecoded
    BY DEF HexTypeOK
  <2>1. ASSUME NEW k \in SpecialKeys, StartsWith(received, k.sequence)
        PROVE  KeyRead(received) = k.code /\ Consumed(received) = Len(k.sequence)
    BY <2>1, KeyDecoded
  <2>2. ASSUME KeyRead(received) \in KeyCodes
        PROVE  \E k \in SpecialKeys :
                 k.code = KeyRead(received) /\ StartsWith(received, k.sequence)
    BY <1>1, <2>2, KeyComplete
  <2> QED
    BY <2>1, <2>2 DEF KeysDecoded
<1> QED
  BY <1>2, ReceivedType, PTL

-----------------------------------------------------------------------------
(***************************************************************************)
(* gets_base.                                                              *)
(***************************************************************************)
\* The inductive invariant of gets_base: while it reads, the characters in the
\* buffer are the line typed, and the terminal shows them.
GetsInv ==
  /\ buffer \in [0 .. SIZE - 1 -> Printable \union {UNSET, NUL}]
  /\ buffer_index \in 0 .. SIZE - 1
  /\ reading \in BOOLEAN
  /\ typed \in Seq(Printable)
  /\ cells \in [0 .. WIDTH -> Printable \union {BLANK}]
  /\ cursor \in Nat
  /\ reading => /\ Len(typed) = buffer_index
                /\ \A k \in 1 .. buffer_index : typed[k] = buffer[k - 1]
  /\ ScreenShowsBuffer

\* What kputch sends for the codes gets_base writes.
LEMMA CodeOf ==
  /\ DOMAIN SPECIAL_KEY_SEQUENCES = 1 .. 6
  /\ SPECIAL_KEY_SEQUENCES[1].code = "KEY_ARROW_UP"
  /\ SPECIAL_KEY_SEQUENCES[2].code = "KEY_ARROW_DOWN"
  /\ SPECIAL_KEY_SEQUENCES[3].code = "KEY_ARROW_RIGHT"
  /\ SPECIAL_KEY_SEQUENCES[4].code = "KEY_ARROW_LEFT"
  /\ SPECIAL_KEY_SEQUENCES[5].code = "KEY_BACKSPACE"
  /\ SPECIAL_KEY_SEQUENCES[6].code = "KEY_BACKSPACE"
  /\ SPECIAL_KEY_SEQUENCES[4].sequence = <<"ESC", "[", "D">>
  BY DEF SPECIAL_KEY_SEQUENCES, Key

\* The codes of the key table.
LEMMA IsSpecial ==
  ASSUME NEW c
  PROVE  (\E k \in SpecialKeys : k.code = c) <=>
           c \in {"KEY_ARROW_UP", "KEY_ARROW_DOWN", "KEY_ARROW_RIGHT",
                  "KEY_ARROW_LEFT", "KEY_BACKSPACE"}
<1>1. (\E k \in SpecialKeys : k.code = c) <=>
        \E j \in 1 .. 6 : SPECIAL_KEY_SEQUENCES[j].code = c
  BY CodeOf, Zenon DEF SpecialKeys, Range
<1>2. \A j \in 1 .. 6 : j = 1 \/ j = 2 \/ j = 3 \/ j = 4 \/ j = 5 \/ j = 6
  OBVIOUS
<1>3. 1 \in 1 .. 6 /\ 2 \in 1 .. 6 /\ 3 \in 1 .. 6 /\ 4 \in 1 .. 6 /\ 5 \in 1 .. 6
  OBVIOUS
<1> QED
  BY <1>1, <1>2, <1>3, CodeOf, Zenon

\* kputch sends the sequence of the table for the arrow.
LEMMA SentForLeft == kputch("KEY_ARROW_LEFT") = <<"ESC", "[", "D">>
<1> DEFINE First(j) == /\ SPECIAL_KEY_SEQUENCES[j].code = "KEY_ARROW_LEFT"
                       /\ \A m \in 1 .. j - 1 : SPECIAL_KEY_SEQUENCES[m].code # "KEY_ARROW_LEFT"
<1>1. \A j \in 1 .. 6 : SPECIAL_KEY_SEQUENCES[j].code = "KEY_ARROW_LEFT" <=> j = 4
  <2>1. \A j \in 1 .. 6 : j = 1 \/ j = 2 \/ j = 3 \/ j = 4 \/ j = 5 \/ j = 6
    OBVIOUS
  <2> QED
    BY <2>1, CodeOf
<1>2. \A j \in 1 .. 6 : First(j) <=> j = 4
  <2>1. \A m \in 1 .. 4 - 1 : m \in 1 .. 6 /\ m # 4
    OBVIOUS
  <2> QED
    BY <1>1, <2>1
<1>3. 4 \in 1 .. 6
  OBVIOUS
<1>4. (CHOOSE j \in 1 .. 6 : First(j)) = 4
  <2> HIDE DEF First
  <2> QED
    BY <1>2, <1>3
<1>5. get_special_key_sequence("KEY_ARROW_LEFT") = SPECIAL_KEY_SEQUENCES[4].sequence
  BY <1>4, CodeOf, Zenon DEF get_special_key_sequence
<1> QED
  BY <1>5, IsSpecial, CodeOf DEF kputch

\* kputch sends a character as it is.
LEMMA SentForCharacter ==
  ASSUME NEW c \in Printable \union {BLANK}
  PROVE  kputch(c) = <<c>>
<1>1. ~ \E k \in SpecialKeys : k.code = c
  <2>1. CASE c \in Printable
    BY <2>1, PrintableAssumption
  <2>2. CASE c = BLANK
    BY <2>2, IsSpecial DEF BLANK
  <2> QED
    BY <2>1, <2>2
<1>2. c # "LF" /\ c # NUL
  BY PrintableAssumption DEF BLANK, NUL
<1> QED
  BY <1>1, <1>2 DEF kputch

\* What these codes do to the screen.
LEMMA ShowLeft ==
  ASSUME NEW cs, NEW p
  PROVE  putch(Screen(cs, p), "KEY_ARROW_LEFT") = Screen(cs, p - 1)
  BY SentForLeft DEF putch, Show, Screen

\* A character is put at the cursor, which moves on.
LEMMA ShowCharacter ==
  ASSUME NEW cs, NEW p, NEW c \in Printable \union {BLANK}
  PROVE  putch(Screen(cs, p), c) = Screen([cs EXCEPT ![p] = c], p + 1)
<1>1. kputch(c) = <<c>>
  BY SentForCharacter
<1>2. <<c>> # <<"ESC", "[", "D">> /\ <<c>> # <<"CR", "LF">> /\ <<c>>[1] = c
  OBVIOUS
<1> QED
  BY <1>1, <1>2 DEF putch, Show, Screen

\* What the terminal is left with.
LEMMA ShowsIs ==
  ASSUME NEW cs, NEW p, Shows(Screen(cs, p))
  PROVE  cells' = cs /\ cursor' = p
  BY DEF Shows, Screen

\* At first nothing is typed and nothing shown.
LEMMA GetsInvInit == Init => GetsInv
<1> SUFFICES ASSUME Init PROVE GetsInv
  OBVIOUS
<1>1. SIZE \in Nat \ {0} /\ WIDTH \in Nat
  BY SizeAssumption
<1>2. /\ buffer = [k \in 0 .. SIZE - 1 |-> UNSET] /\ cells = [k \in 0 .. WIDTH |-> BLANK]
      /\ buffer_index = 0 /\ cursor = 0 /\ typed = <<>> /\ reading = TRUE
  BY DEF Init
<1>3. ScreenShowsBuffer
  BY <1>2 DEF ScreenShowsBuffer
<1>4. reading \in BOOLEAN /\ typed \in Seq(Printable) /\ Len(typed) = 0
  BY <1>2
<1> QED
  BY <1>1, <1>2, <1>3, <1>4 DEF GetsInv

\* Backspace takes back one character, in the buffer and on the screen.
LEMMA BackspaceInv ==
  ASSUME GetsInv, reading, NEW key, Backspace(key)
  PROVE  GetsInv'
<1>1. /\ SIZE \in Nat \ {0} /\ WIDTH \in Nat /\ WIDTH >= SIZE
      /\ buffer_index \in 1 .. SIZE - 1 /\ cursor = buffer_index
      /\ buffer \in [0 .. SIZE - 1 -> Printable \union {UNSET, NUL}]
      /\ cells \in [0 .. WIDTH -> Printable \union {BLANK}]
      /\ typed \in Seq(Printable) /\ Len(typed) = buffer_index
      /\ \A k \in 1 .. buffer_index : typed[k] = buffer[k - 1]
      /\ \A k \in 0 .. WIDTH : cells[k] = IF k < buffer_index THEN buffer[k] ELSE BLANK
  BY SizeAssumption DEF GetsInv, Backspace, ScreenShowsBuffer
<1>2. /\ buffer_index' = buffer_index - 1 /\ typed' = SubSeq(typed, 1, Len(typed) - 1)
      /\ buffer' = buffer /\ reading' = reading
      /\ Shows(Erase(Screen(cells, cursor)))
  BY DEF Backspace
<1>3. cells' = [cells EXCEPT ![cursor - 1] = BLANK] /\ cursor' = cursor - 1
  <2> DEFINE one == Screen(cells, cursor - 1)
             two == Screen([cells EXCEPT ![cursor - 1] = BLANK], (cursor - 1) + 1)
             three == Screen([cells EXCEPT ![cursor - 1] = BLANK], ((cursor - 1) + 1) - 1)
  <2>1. putch(Screen(cells, cursor), "KEY_ARROW_LEFT") = one
    BY ShowLeft
  <2>2. putch(one, BLANK) = two
    BY ShowCharacter
  <2>3. putch(two, "KEY_ARROW_LEFT") = three
    BY ShowLeft
  <2>4. Erase(Screen(cells, cursor)) = three
    BY <2>1, <2>2, <2>3, Zenon DEF Erase
  <2>5. ((cursor - 1) + 1) - 1 = cursor - 1
    BY <1>1
  <2>6. Shows(three)
    BY <1>2, <2>4, Zenon
  <2>7. cells' = [cells EXCEPT ![cursor - 1] = BLANK] /\ cursor' = ((cursor - 1) + 1) - 1
    BY <2>6, ShowsIs, Zenon
  <2> QED
    BY <2>5, <2>7
<1>4. typed' = SubSeq(typed, 1, buffer_index - 1)
  BY <1>1, <1>2
<1>5. /\ typed' \in Seq(Printable) /\ Len(typed') = buffer_index'
      /\ \A k \in 1 .. buffer_index' : typed'[k] = typed[k]
  BY <1>1, <1>2, <1>4
<1>6. \A k \in 1 .. buffer_index' : typed'[k] = buffer'[k - 1]
  BY <1>1, <1>2, <1>5
<1>7. cells' \in [0 .. WIDTH -> Printable \union {BLANK}] /\ cursor' = buffer_index' /\ cursor' \in Nat
  BY <1>1, <1>2, <1>3
<1>8. ASSUME NEW k \in 0 .. WIDTH
      PROVE  cells'[k] = IF k < buffer_index' THEN buffer'[k] ELSE BLANK
  BY <1>1, <1>2, <1>3
<1>9. ScreenShowsBuffer'
  BY <1>7, <1>8 DEF ScreenShowsBuffer
<1>10. buffer_index' \in 0 .. SIZE - 1
  BY <1>1, <1>2
<1> QED
  BY <1>1, <1>2, <1>5, <1>6, <1>7, <1>9, <1>10 DEF GetsInv

\* A character is added to both.
LEMMA CharacterInv ==
  ASSUME GetsInv, reading, NEW key, Character(key)
  PROVE  GetsInv'
<1>1. /\ SIZE \in Nat \ {0} /\ WIDTH \in Nat /\ WIDTH >= SIZE
      /\ buffer_index \in 0 .. SIZE - 1 /\ buffer_index < SIZE - 1 /\ cursor = buffer_index
      /\ buffer \in [0 .. SIZE - 1 -> Printable \union {UNSET, NUL}]
      /\ cells \in [0 .. WIDTH -> Printable \union {BLANK}]
      /\ typed \in Seq(Printable) /\ Len(typed) = buffer_index
      /\ \A k \in 1 .. buffer_index : typed[k] = buffer[k - 1]
      /\ \A k \in 0 .. WIDTH : cells[k] = IF k < buffer_index THEN buffer[k] ELSE BLANK
  BY SizeAssumption DEF GetsInv, Character, Room, ScreenShowsBuffer
<1>2. /\ key \in Printable /\ reading' = reading
      /\ buffer' = [buffer EXCEPT ![buffer_index] = key]
      /\ buffer_index' = buffer_index + 1 /\ typed' = Append(typed, key)
      /\ Shows(putch(Screen(cells, cursor), key))
  BY DEF Character
<1>3. cells' = [cells EXCEPT ![cursor] = key] /\ cursor' = cursor + 1
  <2>1. putch(Screen(cells, cursor), key) = Screen([cells EXCEPT ![cursor] = key], cursor + 1)
    BY <1>2, ShowCharacter
  <2>2. Shows(Screen([cells EXCEPT ![cursor] = key], cursor + 1))
    BY <1>2, <2>1, Zenon
  <2> QED
    BY <2>2, ShowsIs, Zenon
<1>4. /\ typed' \in Seq(Printable) /\ Len(typed') = buffer_index'
      /\ \A k \in 1 .. buffer_index : typed'[k] = typed[k]
      /\ typed'[buffer_index + 1] = key
  BY <1>1, <1>2
<1>5. ASSUME NEW k \in 1 .. buffer_index' PROVE typed'[k] = buffer'[k - 1]
  <2>1. CASE k = buffer_index'
    BY <1>1, <1>2, <1>4, <2>1
  <2>2. CASE k # buffer_index'
    <3>1. k \in 1 .. buffer_index /\ k - 1 \in 0 .. SIZE - 1 /\ k - 1 # buffer_index
      BY <1>1, <1>2, <2>2
    <3> QED
      BY <1>1, <1>2, <1>4, <3>1
  <2> QED
    BY <2>1, <2>2
<1>6. cells' \in [0 .. WIDTH -> Printable \union {BLANK}] /\ cursor' = buffer_index' /\ cursor' \in Nat
  BY <1>1, <1>2, <1>3
<1>7. ASSUME NEW k \in 0 .. WIDTH
      PROVE  cells'[k] = IF k < buffer_index' THEN buffer'[k] ELSE BLANK
  BY <1>1, <1>2, <1>3
<1>8. ScreenShowsBuffer'
  BY <1>6, <1>7 DEF ScreenShowsBuffer
<1>9. buffer_index' \in 0 .. SIZE - 1 /\ buffer' \in [0 .. SIZE - 1 -> Printable \union {UNSET, NUL}]
  BY <1>1, <1>2
<1>10. reading' \in BOOLEAN
  BY <1>2 DEF GetsInv
<1> QED
  BY <1>4, <1>5, <1>6, <1>8, <1>9, <1>10 DEF GetsInv

\* The line feed moves the cursor, and the NUL ends the line typed.
LEMMA EndOfLineInv ==
  ASSUME GetsInv, reading, NEW key, EndOfLine(key)
  PROVE  /\ GetsInv' /\ typed' = typed /\ reading' = FALSE
         /\ buffer' = [buffer EXCEPT ![buffer_index] = NUL]
<1>1. /\ typed' = typed /\ reading' = FALSE /\ buffer_index' = buffer_index
      /\ buffer' = [buffer EXCEPT ![buffer_index] = NUL]
      /\ Shows(putch(Screen(cells, cursor), "LF"))
  BY DEF EndOfLine
<1>2. cells' = cells /\ cursor' = 0
  <2>1. kputch("LF") = <<"CR", "LF">>
    BY IsSpecial DEF kputch
  <2>2. putch(Screen(cells, cursor), "LF") = Screen(cells, 0)
    BY <2>1 DEF putch, Show, Screen
  <2>3. Shows(Screen(cells, 0))
    BY <1>1, <2>2, Zenon
  <2> QED
    BY <2>3, ShowsIs, Zenon
<1>3. buffer' \in [0 .. SIZE - 1 -> Printable \union {UNSET, NUL}]
  BY <1>1 DEF GetsInv
<1>4. ScreenShowsBuffer'
  BY <1>1 DEF ScreenShowsBuffer
<1> QED
  BY <1>1, <1>2, <1>3, <1>4 DEF GetsInv

\* A new call starts with an empty line on a fresh row.
LEMMA CallAgainInv == GetsInv /\ CallAgain => GetsInv'
<1> SUFFICES ASSUME GetsInv, CallAgain PROVE GetsInv'
  OBVIOUS
<1>1. SIZE \in Nat \ {0} /\ WIDTH \in Nat
  BY SizeAssumption
<1>2. /\ buffer' = buffer /\ cells' = [k \in 0 .. WIDTH |-> BLANK]
      /\ buffer_index' = 0 /\ cursor' = 0 /\ typed' = <<>> /\ reading' = TRUE
  BY DEF CallAgain
<1>3. ScreenShowsBuffer'
  BY <1>2 DEF ScreenShowsBuffer
<1>4. reading' \in BOOLEAN /\ typed' \in Seq(Printable) /\ Len(typed') = 0
  BY <1>2
<1> QED
  BY <1>1, <1>2, <1>3, <1>4 DEF GetsInv

\* Every step keeps the invariant.
LEMMA GetsInvNext == GetsInv /\ [GetsNext]_vars => GetsInv'
<1> SUFFICES ASSUME GetsInv, [GetsNext]_vars PROVE GetsInv'
  OBVIOUS
<1>1. CASE UNCHANGED vars
  BY <1>1 DEF vars, GetsInv, ScreenShowsBuffer
<1>2. CASE gets_base
  <2>1. PICK key \in Keys : Ignored(key) \/ Backspace(key) \/ Character(key) \/ EndOfLine(key)
    BY <1>2 DEF gets_base
  <2>2. reading
    BY <1>2 DEF gets_base
  <2> QED
    BY <1>1, <2>1, <2>2, BackspaceInv, CharacterInv, EndOfLineInv DEF Ignored
<1>3. CASE CallerWrites
  BY <1>3 DEF CallerWrites, GetsInv, ScreenShowsBuffer
<1> QED
  BY <1>1, <1>2, <1>3, CallAgainInv DEF GetsNext

\* gets_base (gets.c:11), for every size of the buffer and of the line: what it
\* has read is in the buffer and on the terminal.
THEOREM GetsInvariance == GetsSpec => []GetsInv
  BY GetsInvInit, GetsInvNext, PTL DEF GetsSpec

\* The user sees what the caller of gets_base gets, after any keys.
THEOREM TerminalShowsBuffer == GetsSpec => []ScreenShowsBuffer
<1>1. GetsInv => ScreenShowsBuffer
  BY DEF GetsInv
<1> QED
  BY <1>1, GetsInvariance, PTL

\* A string in an array that starts with the characters of s and a NUL is s.
LEMMA StringIs ==
  ASSUME NEW N \in Nat \ {0}, NEW C, NUL \notin C, NEW s \in Seq(C), Len(s) < N,
         NEW b, DOMAIN b = 0 .. N - 1, b[Len(s)] = NUL,
         \A k \in 1 .. Len(s) : b[k - 1] = s[k]
  PROVE  StringAt(b, 0) = s
<1> DEFINE len == Len(s)
           array == [k \in 1 .. N |-> b[0 + k - 1]]
           ends == {k \in 1 .. Len(array) + 1 : At(array, k) = NUL}
<1>1. Cardinality({q \in DOMAIN b : q >= 0}) = N
  <2>1. {q \in DOMAIN b : q >= 0} = 0 .. N - 1
    OBVIOUS
  <2>2. Cardinality(0 .. N - 1) = N
    <3>1. 0 \in Int /\ N - 1 \in Int
      OBVIOUS
    <3> QED
      BY <3>1, FS_Interval
  <2> QED
    BY <2>1, <2>2
<1>2. StringAt(b, 0) = SubSeq(array, 1, strlen(array))
  BY <1>1 DEF StringAt, CString
<1>3. len \in Nat /\ len < N /\ Len(array) = N
  OBVIOUS
<1>4. \A k \in 1 .. len : At(array, k) = s[k] /\ At(array, k) # NUL /\ array[k] = s[k]
  <2> SUFFICES ASSUME NEW k \in 1 .. len
               PROVE  At(array, k) = s[k] /\ At(array, k) # NUL /\ array[k] = s[k]
    OBVIOUS
  <2>1. k \in 1 .. N /\ k <= Len(array) /\ 0 + k - 1 = k - 1
    BY <1>3
  <2>2. array[k] = s[k] /\ s[k] \in C
    BY <2>1
  <2> QED
    BY <2>1, <2>2 DEF At
<1>5. At(array, len + 1) = NUL
  <2>1. len + 1 \in 1 .. N /\ len + 1 <= Len(array) /\ 0 + (len + 1) - 1 = len
    BY <1>3
  <2> QED
    BY <2>1 DEF At
<1>6. len + 1 \in ends /\ \A k \in ends : k \in Nat /\ len + 1 <= k
  <2>1. \A k \in ends : k \in 1 .. N + 1 /\ k \notin 1 .. len
    BY <1>3, <1>4
  <2>2. len + 1 \in ends
    <3>1. len + 1 \in 1 .. Len(array) + 1
      BY <1>3
    <3> QED
      BY <1>5, <3>1, Zenon
  <2>3. \A k \in 1 .. N + 1 : k \notin 1 .. len => k \in Nat /\ len + 1 <= k
    BY <1>3
  <2> HIDE DEF ends
  <2> QED
    BY <2>1, <2>2, <2>3
<1>7. Min(ends) = len + 1
  <2> HIDE DEF ends
  <2>1. \E k \in ends : \A m \in ends : k =< m
    BY <1>3, <1>6
  <2>2. Min(ends) \in ends /\ \A m \in ends : Min(ends) =< m
    BY <2>1 DEF Min
  <2> QED
    BY <1>3, <1>6, <2>2
<1>8. strlen(array) = len
  BY <1>3, <1>7 DEF strlen
<1>9. SubSeq(array, 1, len) = s
  <2>1. SubSeq(array, 1, len) = [k \in 1 .. len |-> array[k]]
    BY <1>3
  <2>2. s = [k \in 1 .. len |-> s[k]]
    OBVIOUS
  <2> QED
    BY <1>4, <2>1, <2>2
<1> QED
  BY <1>2, <1>8, <1>9

\* "reads a line from the input and puts it as a null terminated string within
\* size bytes" (gets.c:7), whatever the buffer held before the call.
THEOREM GetsReturnsLine == GetsSpec => ReturnsLine
<1>1. GetsInv /\ [GetsNext]_vars =>
        [reading /\ ~reading' => StringAt(buffer', 0) = typed' /\ Len(typed') < SIZE]_vars
  <2> SUFFICES ASSUME GetsInv, GetsNext, reading, ~reading'
               PROVE  StringAt(buffer', 0) = typed' /\ Len(typed') < SIZE
    BY DEF vars
  <2>1. PICK key : EndOfLine(key)
    BY DEF GetsNext, gets_base, CallerWrites, CallAgain, Ignored, Backspace, Character, vars
  <2>2. /\ typed' = typed /\ buffer' = [buffer EXCEPT ![buffer_index] = NUL]
        /\ typed \in Seq(Printable) /\ Len(typed) = buffer_index
        /\ buffer_index \in 0 .. SIZE - 1 /\ DOMAIN buffer = 0 .. SIZE - 1
        /\ \A k \in 1 .. buffer_index : typed[k] = buffer[k - 1]
    BY <2>1, EndOfLineInv DEF GetsInv
  <2>3. SIZE \in Nat \ {0} /\ Len(typed) < SIZE /\ NUL \notin Printable
    BY <2>2, SizeAssumption, PrintableAssumption
  <2>4. DOMAIN buffer' = 0 .. SIZE - 1 /\ buffer'[Len(typed)] = NUL
    BY <2>2
  <2>5. \A k \in 1 .. Len(typed) : buffer'[k - 1] = typed[k]
    BY <2>2, <2>3
  <2>6. StringAt(buffer', 0) = typed
    BY <2>2, <2>3, <2>4, <2>5, StringIs
  <2> QED
    BY <2>2, <2>3, <2>6
<1> QED
  BY <1>1, GetsInvariance, PTL DEF GetsSpec, ReturnsLine
=============================================================================
