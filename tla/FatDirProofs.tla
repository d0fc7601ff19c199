---------------------------- MODULE FatDirProofs ----------------------------
(***************************************************************************)
(* Proofs about modules FatVolume and FatDir: for every boot sector, and   *)
(* for every directory and size of a sector.                               *)
(***************************************************************************)
EXTENDS FatDir, Numbers, TLAPS

-----------------------------------------------------------------------------
(***************************************************************************)
(* fat_init.                                                               *)
(***************************************************************************)
\* What is known once a volume is mounted: its boot sector passed the checks,
\* and the areas are where the boot sector puts them.
VolumeInv ==
  /\ disk \in Disks /\ boot \in BootSectors /\ mounted \in BOOLEAN
  /\ mounted => /\ Plausible /\ ~NoData /\ ~WrongCount
                /\ root_start = RootStart /\ data_start = DataStart
                /\ clusters = ClusterCount

\* fat_init keeps what is known of the volume, whether it mounts it or not.
LEMMA FatInitInv ==
  ASSUME VolumeInv, fat_init
  PROVE  VolumeInv' /\ boot' = boot
<1>1. disk' = disk /\ boot' = boot
  BY DEF fat_init
<1>2. mounted' \in BOOLEAN
  BY DEF fat_init, VolumeInv
<1>3. /\ Plausible' = Plausible /\ NoData' = NoData /\ WrongCount' = WrongCount
      /\ RootStart' = RootStart /\ DataStart' = DataStart /\ ClusterCount' = ClusterCount
  BY <1>1 DEF Plausible, NoData, WrongCount, TableTooSmall, ClusterCount, DataStart, RootStart,
              RootSectors
<1>4. mounted' => /\ Plausible /\ ~NoData /\ ~WrongCount
                  /\ root_start' = RootStart /\ data_start' = DataStart
                  /\ clusters' = ClusterCount
  BY DEF fat_init
<1> QED
  BY <1>1, <1>2, <1>3, <1>4 DEF VolumeInv

\* The powers of two that fat_init accepts are positive numbers.
LEMMA PowersArePositive == PowersOfTwo \subseteq Nat \ {0}
<1>1. \A k \in 0 .. 7 : k = 0 \/ k = 1 \/ k = 2 \/ k = 3 \/ k = 4 \/ k = 5 \/ k = 6 \/ k = 7
  OBVIOUS
<1>2. /\ 2 ^ 0 = 1 /\ 2 ^ 1 = 2 /\ 2 ^ 2 = 4 /\ 2 ^ 3 = 8
      /\ 2 ^ 4 = 16 /\ 2 ^ 5 = 32 /\ 2 ^ 6 = 64 /\ 2 ^ 7 = 128
  OBVIOUS
<1> QED
  BY <1>1, <1>2 DEF PowersOfTwo

\* The sizes of a mounted volume, without its fields' names: the table holds
\* all clusters, and the clusters fill the data area at most.
LEMMA MountedVolume ==
  ASSUME VolumeInv, mounted
  PROVE  /\ boot.spc \in Nat \ {0} /\ boot.fat_start \in Nat /\ boot.fats \in {1, 2}
         /\ boot.root_entries \in Nat \ {0} /\ boot.fat_sectors \in Nat \ {0}
         /\ boot.total \in Nat /\ boot.total <= disk
         /\ LINKS \in Nat \ {0} /\ PER_SECTOR \in Nat \ {0}
         /\ root_start = boot.fat_start + boot.fats * boot.fat_sectors /\ root_start \in Nat
         /\ data_start = root_start + RootSectors /\ RootSectors \in Nat
         /\ clusters \in Nat /\ boot.spc * clusters <= boot.total - data_start
         /\ clusters + 2 <= LINKS * boot.fat_sectors
<1>1. /\ boot \in [signed : BOOLEAN, spc : Nat, fat_start : Nat, fats : Nat,
                   root_entries : Nat, fat_sectors : Nat, total : Nat]
      /\ LINKS \in Nat \ {0} /\ PER_SECTOR \in Nat \ {0} /\ disk \in Nat
  BY FormatAssumption DEF VolumeInv
<1>2. Plausible /\ ~NoData /\ ~WrongCount
  BY DEF VolumeInv
<1>3. /\ boot.spc \in Nat \ {0} /\ boot.fat_start \in Nat /\ boot.fats \in {1, 2}
      /\ boot.root_entries \in Nat \ {0} /\ boot.fat_sectors \in Nat \ {0}
      /\ boot.total \in Nat /\ boot.total <= disk
  BY <1>1, <1>2, PowersArePositive DEF Plausible
<1>4. /\ root_start = boot.fat_start + boot.fats * boot.fat_sectors
      /\ data_start = root_start + RootSectors
      /\ clusters = (boot.total - data_start) \div boot.spc
  BY DEF VolumeInv, RootStart, DataStart, ClusterCount
<1>5. root_start \in Nat
  BY <1>3, <1>4
<1>6. RootSectors \in Nat
  <2>1. boot.root_entries + PER_SECTOR - 1 \in Nat
    BY <1>1, <1>3
  <2> QED
    BY <1>1, <2>1, Division DEF RootSectors
<1>7. boot.total - data_start \in Nat
  <2>1. ~(boot.total <= data_start)
    BY <1>2 DEF NoData, VolumeInv
  <2> QED
    BY <1>3, <1>4, <1>5, <1>6, <2>1
<1>8. clusters \in Nat /\ boot.spc * clusters <= boot.total - data_start
  <2> DEFINE a == boot.total - data_start
             d == boot.spc
             r == a % d
  <2>1. clusters \in Nat /\ r \in 0 .. d - 1 /\ a = d * clusters + r /\ a \in Nat /\ d \in Nat
    BY <1>3, <1>4, <1>7, Division
  <2> HIDE DEF a, d, r
  <2>2. d * clusters \in Nat
    BY <2>1
  <2>3. d * clusters <= a
    BY <2>1, <2>2
  <2> QED
    BY <2>1, <2>3 DEF a, d
<1>9. clusters + 2 <= LINKS * boot.fat_sectors
  <2>1. ~(clusters + 2 > boot.fat_sectors * LINKS)
    BY <1>2 DEF WrongCount, TableTooSmall, VolumeInv
  <2>2. boot.fat_sectors * LINKS = LINKS * boot.fat_sectors /\ LINKS * boot.fat_sectors \in Nat
    BY <1>1, <1>3
  <2> QED
    BY <1>8, <2>1, <2>2
<1> QED
  BY <1>1, <1>3, <1>4, <1>5, <1>6, <1>8, <1>9

\* The areas of a mounted volume do not overlap.
LEMMA MountedAreas ==
  ASSUME VolumeInv
  PROVE  AreasDisjoint
<1> SUFFICES ASSUME mounted
             PROVE  /\ \A c \in {c \in 0 .. disk + 2 : valid_cluster(c)} :
                         /\ TableSector(c) < boot.fat_start + boot.fat_sectors
                         /\ \A s \in 0 .. boot.spc - 1 :
                              DataSector(c, s) \in data_start .. boot.total - 1
                    /\ \A k \in 0 .. boot.root_entries - 1 :
                         RootSector(k) \in root_start .. data_start - 1
                    /\ boot.fat_start + boot.fat_sectors <= root_start
                    /\ boot.total <= disk
  BY DEF AreasDisjoint
<1> DEFINE spc == boot.spc
           fs == boot.fat_sectors
           start == boot.fat_start
           n == boot.root_entries
           total == boot.total
           rs == RootSectors
<1>1. /\ spc \in Nat \ {0} /\ start \in Nat /\ boot.fats \in {1, 2}
      /\ n \in Nat \ {0} /\ fs \in Nat \ {0} /\ total \in Nat /\ total <= disk
      /\ LINKS \in Nat \ {0} /\ PER_SECTOR \in Nat \ {0}
      /\ root_start = start + boot.fats * fs /\ root_start \in Nat
      /\ data_start = root_start + rs /\ rs \in Nat
      /\ clusters \in Nat /\ spc * clusters <= total - data_start
      /\ clusters + 2 <= LINKS * fs
  BY MountedVolume
<1>2. rs = (n + PER_SECTOR - 1) \div PER_SECTOR
  BY DEF RootSectors
<1>3. disk \in Nat
  BY FormatAssumption DEF VolumeInv
<1> HIDE DEF rs
<1>4. ASSUME NEW c \in 0 .. disk + 2, valid_cluster(c)
      PROVE  /\ TableSector(c) < start + fs
             /\ \A s \in 0 .. spc - 1 : DataSector(c, s) \in data_start .. total - 1
  <2>1. c \in Nat /\ c >= 2 /\ c < clusters + 2
    BY <1>3, <1>4 DEF valid_cluster
  <2>2. c \div LINKS \in 0 .. fs - 1
    <3>1. LINKS * fs \in Nat
      BY <1>1
    <3>2. c < LINKS * fs
      BY <1>1, <2>1, <3>1
    <3> HIDE DEF fs
    <3> QED
      BY <1>1, <2>1, <3>2, UnitBelow
  <2>3. TableSector(c) < start + fs
    <3> DEFINE t == c \div LINKS
    <3>1. t \in 0 .. fs - 1
      BY <2>2
    <3> HIDE DEF t
    <3>2. start + t < start + fs
      BY <1>1, <3>1
    <3> QED
      BY <3>2 DEF TableSector, t
  <2>4. ASSUME NEW s \in 0 .. spc - 1 PROVE DataSector(c, s) \in data_start .. total - 1
    <3>1. DataSector(c, s) = data_start + (c - 2) * spc + s
      BY DEF DataSector
    <3> DEFINE m == c - 2
    <3>2. m \in Nat /\ m < clusters
      BY <1>1, <2>1
    <3> HIDE DEF m, spc, total
    <3>3. spc * m + spc <= spc * clusters
      BY <1>1, <3>2, Multiples
    <3>4. m * spc = spc * m /\ spc * m \in Nat /\ spc * clusters \in Nat
      BY <1>1, <3>2
    <3>5. data_start + m * spc + s \in data_start .. total - 1
      BY <1>1, <3>3, <3>4
    <3> QED
      BY <3>1, <3>5 DEF m
  <2> QED
    BY <2>3, <2>4
<1>5. ASSUME NEW k \in 0 .. n - 1 PROVE RootSector(k) \in root_start .. data_start - 1
  <2> DEFINE d == PER_SECTOR
             a == n + d - 1
             r == a % d
  <2>1. a \in Nat /\ d \in Nat \ {0} /\ k \in Nat /\ k < n
    BY <1>1
  <2>2. rs \in Nat /\ r \in 0 .. d - 1 /\ a = d * rs + r
    BY <1>2, <2>1, Division
  <2>3. a = n + d - 1
    OBVIOUS
  <2> HIDE DEF a, d, r, n
  <2>4. d * rs \in Nat
    BY <2>1, <2>2
  <2>5. k < d * rs
    BY <1>1, <2>1, <2>2, <2>3, <2>4
  <2>6. k \div d \in 0 .. rs - 1
    BY <2>1, <2>2, <2>5, UnitBelow
  <2> DEFINE q == k \div d
  <2>7. q \in 0 .. rs - 1
    BY <2>6
  <2>8. RootSector(k) = root_start + q
    BY DEF RootSector, d
  <2> HIDE DEF q
  <2> QED
    BY <1>1, <2>7, <2>8
<1>6. start + fs <= root_start
  <2>1. boot.fats = 1 => boot.fats * fs = fs
    BY <1>1
  <2>2. boot.fats = 2 => boot.fats * fs = fs + fs
    BY <1>1
  <2> QED
    BY <1>1, <2>1, <2>2
<1> QED
  BY <1>1, <1>4, <1>5, <1>6

-----------------------------------------------------------------------------
(***************************************************************************)
(* The listing of a directory.                                             *)
(***************************************************************************)
\* One more entry.
Longer(list, k) ==
  IF k - 1 \in Before(k) /\ dir[k - 1] \in Keys
  THEN Append(list, ShownName(dir[k - 1])) ELSE list

\* The listing exists, by its number of entries.
LEMMA ListingExists ==
  ASSUME NEW N \in Nat
  PROVE  \E l : l = [k \in 0 .. N |-> IF k = 0 THEN << >> ELSE Longer(l[k - 1], k)]
<1> DEFINE Is(l, n) == l = [k \in 0 .. n |-> IF k = 0 THEN << >> ELSE Longer(l[k - 1], k)]
           T == {n \in Nat : ~ \E l : Is(l, n)}
<1>1. SUFFICES ASSUME T # {} PROVE FALSE
  OBVIOUS
<1>2. T \subseteq Nat
  OBVIOUS
<1>3. PICK n \in T : \A m \in T : n <= m
  <2> HIDE DEF T
  <2> QED
    BY <1>1, <1>2, LeastElement
<1>4. n \in Nat /\ ~ \E l : Is(l, n)
  OBVIOUS
<1>5. CASE n = 0
  <2> DEFINE l == [k \in 0 .. 0 |-> << >>]
  <2>1. Is(l, 0)
    <3>1. \A k \in 0 .. 0 : k = 0
      OBVIOUS
    <3> QED
      BY <3>1
  <2> QED
    BY <1>4, <1>5, <2>1
<1>6. CASE n # 0
  <2>1. n - 1 \in Nat /\ n - 1 \notin T
    <3> HIDE DEF T
    <3> QED
      BY <1>2, <1>3, <1>6
  <2>2. PICK l : Is(l, n - 1)
    BY <2>1
  <2>3. \A k \in 0 .. n - 1 : l[k] = IF k = 0 THEN << >> ELSE Longer(l[k - 1], k)
    BY <2>2
  <2> DEFINE longer == [k \in 0 .. n |-> IF k = n THEN Longer(l[n - 1], n) ELSE l[k]]
  <2>4. ASSUME NEW k \in 0 .. n
        PROVE  longer[k] = IF k = 0 THEN << >> ELSE Longer(longer[k - 1], k)
    <3>1. CASE k = 0
      BY <1>4, <1>6, <2>1, <2>3, <3>1
    <3>2. CASE k # 0
      <4>1. k - 1 \in 0 .. n /\ k - 1 # n
        BY <1>4, <3>2
      <4>2. longer[k - 1] = l[k - 1]
        BY <4>1
      <4>3. k # n => k \in 0 .. n - 1
        BY <1>4
      <4>4. longer[k] = Longer(l[k - 1], k)
        BY <2>3, <3>2, <4>3
      <4> QED
        BY <3>2, <4>2, <4>4
    <3> QED
      BY <3>1, <3>2
  <2>5. longer = [k \in 0 .. n |-> longer[k]]
    OBVIOUS
  <2> HIDE DEF longer
  <2>6. Is(longer, n)
    BY <2>4, <2>5
  <2> QED
    BY <1>4, <2>6
<1> QED
  BY <1>5, <1>6

\* Listing is built entry by entry.
LEMMA ListingIs ==
  ASSUME root_entries \in Nat
  PROVE  /\ Listing[0] = << >>
         /\ \A k \in 1 .. root_entries : Listing[k] = Longer(Listing[k - 1], k)
<1> DEFINE Is(l) == l = [k \in 0 .. root_entries |-> IF k = 0 THEN << >> ELSE Longer(l[k - 1], k)]
<1>1. \E l : Is(l)
  BY ListingExists
<1>2. Listing = CHOOSE l : Is(l)
  BY DEF Listing, Longer
<1>3. Is(Listing)
  <2> HIDE DEF Is
  <2> QED
    BY <1>1, <1>2
<1>4. \A k \in 0 .. root_entries : Listing[k] = IF k = 0 THEN << >> ELSE Longer(Listing[k - 1], k)
  BY <1>3
<1>5. 0 \in 0 .. root_entries /\ \A k \in 1 .. root_entries : k \in 0 .. root_entries /\ k # 0
  OBVIOUS
<1> QED
  BY <1>4, <1>5

\* Nothing is listed from the end mark on.
LEMMA NothingBehindEnd ==
  ASSUME root_entries \in Nat, NEW e \in 0 .. root_entries - 1, dir[e] = END
  PROVE  \A k \in e .. root_entries : Listing[k] = Listing[e]
<1> DEFINE T == {k \in e .. root_entries : Listing[k] # Listing[e]}
<1> SUFFICES ASSUME T # {} PROVE FALSE
  OBVIOUS
<1>1. T \subseteq Nat
  OBVIOUS
<1>2. PICK k \in T : \A m \in T : k <= m
  <2> HIDE DEF T
  <2> QED
    BY <1>1, LeastElement
<1>3. k \in e .. root_entries /\ Listing[k] # Listing[e] /\ k # e
  BY <1>2
<1>4. k - 1 \in e .. root_entries /\ k - 1 \notin T /\ k \in 1 .. root_entries
  <2> HIDE DEF T
  <2> QED
    BY <1>2, <1>3
<1>5. Listing[k - 1] = Listing[e]
  BY <1>4
<1>6. k - 1 \notin Before(k)
  <2>1. e \in 0 .. k - 1
    BY <1>3
  <2> QED
    BY <2>1 DEF Before
<1>7. Listing[k] = Listing[k - 1]
  BY <1>4, <1>6, ListingIs DEF Longer
<1> QED
  BY <1>3, <1>5, <1>7

-----------------------------------------------------------------------------
(***************************************************************************)
(* The search: root_entry, syscall_dir and fat_open.                       *)
(***************************************************************************)
\* The buffer holds the sector of entry i, unless it is about to be read, and
\* the end mark has not been passed.
Search ==
  /\ i <= root_entries /\ cursor <= i
  /\ i # cursor /\ i % PER_SECTOR # 0 => sector = i \div PER_SECTOR
  /\ \A j \in 0 .. i - 1 : dir[j] # END

\* The files passed are not the one fat_open looks for.
NotFoundYet == \A j \in 0 .. i - 1 : dir[j] \in Keys => dir[j] # key

DirInv ==
  /\ VolumeInv
  /\ call \in {"idle", "syscall_dir", "fat_open"} /\ i \in Nat /\ cursor \in Nat
  /\ mounted => dir \in [0 .. root_entries - 1 -> Entries]
  /\ ~mounted => call = "idle" /\ listed = << >>
  /\ call # "idle" => Search
  /\ call = "syscall_dir" => listed = Listing[i] /\ key = << >>
  /\ call = "fat_open" =>
       listed = << >> /\ NotFoundYet /\ name \in Names /\ key = short_name(name)
  /\ call = "idle" /\ listed # << >> /\ result = 0 => listed = Listing[root_entries]

\* Steps that keep the disk keep what is derived from it.
LEMMA DiskKept ==
  ASSUME DirInv, UNCHANGED <<volumeVars, dir>>
  PROVE  VolumeInv' /\ Listing' = Listing /\ root_entries' = root_entries /\ mounted' = mounted
BY DEF DirInv, volumeVars, VolumeInv, Plausible, NoData, WrongCount, TableTooSmall, ClusterCount,
       DataStart, RootStart, RootSectors, Listing, Before, root_entries

\* The entry root_entry looks at is entry i: its buffer is never stale.
LEMMA RawIs ==
  ASSUME DirInv, call # "idle", i < root_entries
  PROVE  /\ mounted /\ root_entries \in Nat /\ i \in 0 .. root_entries - 1 /\ PER_SECTOR \in Nat \ {0}
         /\ Buffer = i \div PER_SECTOR /\ Raw = dir[i] /\ dir[i] \in Entries
<1>1. mounted /\ Search /\ i \in Nat /\ VolumeInv
  BY DEF DirInv
<1>2. root_entries \in Nat /\ PER_SECTOR \in Nat \ {0}
  BY <1>1, MountedVolume DEF root_entries
<1>3. i \in 0 .. root_entries - 1
  BY <1>1, <1>2
<1>4. Buffer = i \div PER_SECTOR
  BY <1>1 DEF Buffer, NeedsSector, Search
<1>5. (i \div PER_SECTOR) * PER_SECTOR + (i % PER_SECTOR) = i
  <2> DEFINE q == i \div PER_SECTOR
             r == i % PER_SECTOR
  <2>1. q \in Nat /\ r \in Nat /\ i = PER_SECTOR * q + r
    BY <1>1, <1>2, Division
  <2> HIDE DEF q, r
  <2>2. q * PER_SECTOR = PER_SECTOR * q /\ PER_SECTOR * q \in Nat
    BY <1>2, <2>1
  <2>3. q * PER_SECTOR + r = i
    BY <1>1, <2>1, <2>2
  <2> QED
    BY <2>3 DEF q, r
<1>6. Raw = dir[i]
  BY <1>4, <1>5 DEF Raw
<1> QED
  BY <1>1, <1>2, <1>3, <1>4, <1>6 DEF DirInv

\* The search goes on behind entry i.
LEMMA AdvanceSearch ==
  ASSUME DirInv, call # "idle", i < root_entries, dir[i] # END,
         sector' = Buffer, i' = i + 1, cursor' \in {cursor, i + 1}, UNCHANGED <<volumeVars, dir>>
  PROVE  Search' /\ i' \in Nat /\ cursor' \in Nat
<1>1. /\ root_entries \in Nat /\ i \in 0 .. root_entries - 1 /\ PER_SECTOR \in Nat \ {0}
      /\ sector' = i \div PER_SECTOR
  BY RawIs
<1>2. Search /\ cursor \in Nat
  BY DEF DirInv
<1>3. root_entries' = root_entries /\ dir' = dir
  BY DiskKept
<1>4. i' <= root_entries /\ cursor' <= i' /\ i' \in Nat /\ cursor' \in Nat
  BY <1>1, <1>2 DEF Search
<1>5. i' % PER_SECTOR # 0 => sector' = i' \div PER_SECTOR
  <2>1. i \in Nat /\ i' = i + 1
    BY <1>1
  <2> QED
    BY <1>1, <2>1, NextInUnit
<1>6. \A j \in 0 .. i' - 1 : dir'[j] # END
  <2>1. \A j \in 0 .. i' - 1 : j \in 0 .. i - 1 \/ j = i
    BY <1>1
  <2> QED
    BY <1>2, <1>3, <2>1 DEF Search
<1> QED
  BY <1>3, <1>4, <1>5, <1>6 DEF Search, END

\* The listing up to entry i and behind it.
LEMMA ListingStep ==
  ASSUME DirInv, call # "idle", i < root_entries, dir[i] # END
  PROVE  Listing[i + 1] = IF dir[i] \in Keys THEN Append(Listing[i], ShownName(dir[i])) ELSE Listing[i]
<1>1. root_entries \in Nat /\ i \in 0 .. root_entries - 1
  BY RawIs
<1>2. Search
  BY DEF DirInv
<1>3. i + 1 \in 1 .. root_entries /\ (i + 1) - 1 = i
  BY <1>1
<1>4. i \in Before(i + 1)
  <2>1. \A m \in 0 .. i : m \in 0 .. i - 1 \/ m = i
    BY <1>1
  <2>2. i \in 0 .. (i + 1) - 1
    BY <1>1
  <2> QED
    BY <1>2, <2>1, <2>2 DEF Before, Search
<1>5. Listing[i + 1] = Longer(Listing[i], i + 1)
  BY <1>1, <1>3, ListingIs
<1> QED
  BY <1>3, <1>4, <1>5 DEF Longer

-----------------------------------------------------------------------------
\* Before the volume is mounted nothing is listed.
LEMMA DirInvInit == Init => DirInv
<1> SUFFICES ASSUME Init PROVE DirInv
  OBVIOUS
<1>1. VolumeInv
  BY DEF Init, VolumeInit, VolumeInv
<1>2. mounted = FALSE /\ call = "idle" /\ listed = << >> /\ i = 0 /\ cursor = 0
  BY DEF Init, VolumeInit
<1> QED
  BY <1>1, <1>2 DEF DirInv

\* Mounting starts with nothing listed.
LEMMA MountInv ==
  ASSUME DirInv, Mount
  PROVE  DirInv'
<1>1. VolumeInv' /\ boot' = boot /\ ~mounted
  BY FatInitInv DEF Mount, DirInv, fat_init
<1>2. call = "idle" /\ listed = << >>
  BY <1>1 DEF DirInv
<1>3. mounted' => dir' \in [0 .. root_entries' - 1 -> Entries]
  BY <1>1 DEF Mount, root_entries
<1> QED
  BY <1>1, <1>2, <1>3 DEF Mount, DirInv, Entries, END, DELETED, OTHER_KIND

\* A call begins with entry 0 and an empty list.
LEMMA CallInv ==
  ASSUME DirInv, \/ Call("syscall_dir", << >>)
                 \/ \E n \in Names : Call("fat_open", n)
  PROVE  DirInv'
<1>1. /\ VolumeInv' /\ Listing' = Listing /\ root_entries' = root_entries /\ mounted' = mounted
      /\ dir' = dir /\ mounted
  BY DiskKept DEF Call
<1>2. root_entries \in Nat
  BY <1>1, MountedVolume DEF DirInv, root_entries
<1>3. /\ cursor' = 0 /\ i' = 0 /\ listed' = << >>
      /\ \/ call' = "syscall_dir" /\ key' = << >>
         \/ call' = "fat_open" /\ name' \in Names /\ key' = short_name(name')
  BY DEF Call
<1>4. \A j : j \notin 0 .. i' - 1
  BY <1>3
<1>5. Search' /\ NotFoundYet'
  BY <1>1, <1>2, <1>3, <1>4 DEF Search, NotFoundYet
<1>6. listed' = Listing[i']
  BY <1>2, <1>3, ListingIs
<1>7. dir \in [0 .. root_entries - 1 -> Entries]
  BY <1>1 DEF DirInv
<1> QED
  BY <1>1, <1>3, <1>5, <1>6, <1>7 DEF DirInv, Entries, END, DELETED, OTHER_KIND

\* The call ends: with result 0 at the end mark or at the end of the directory.
LEMMA ReturnInv ==
  ASSUME DirInv, call # "idle", NEW r, Return(r),
         call = "syscall_dir" /\ r = 0 => Listing[i] = Listing[root_entries],
         i' = i
  PROVE  DirInv'
<1>1. /\ VolumeInv' /\ Listing' = Listing /\ root_entries' = root_entries /\ mounted' = mounted
      /\ dir' = dir /\ mounted /\ listed' = listed /\ cursor' = cursor
      /\ call' = "idle" /\ result' = r
  BY DiskKept DEF Return, DirInv
<1>2. listed # << >> => call = "syscall_dir" /\ listed = Listing[i]
  BY DEF DirInv
<1>3. dir \in [0 .. root_entries - 1 -> Entries] /\ i \in Nat /\ cursor \in Nat
  BY <1>1 DEF DirInv
<1> QED
  BY <1>1, <1>2, <1>3 DEF DirInv, Entries, END, DELETED, OTHER_KIND

\* A name short_name refuses ends fat_open without a look at the disk.
LEMMA RefuseInv ==
  ASSUME DirInv, Refuse
  PROVE  DirInv'
<1>1. << >> # REFUSED
  <2>1. Len(<< >>) = 0 /\ Len(REFUSED) = 1
    BY DEF REFUSED
  <2> QED
    BY <2>1
<1>2. call # "syscall_dir"
  BY <1>1 DEF Refuse, DirInv
<1> QED
  BY <1>2, ReturnInv DEF Refuse

\* The end of the directory, and a sector that cannot be read.
LEMMA EndInv ==
  ASSUME DirInv, AtEnd \/ ReadFails
  PROVE  DirInv'
<1>1. CASE AtEnd
  BY <1>1, ReturnInv DEF AtEnd, Searching
<1>2. CASE ReadFails
  BY <1>2, ReturnInv DEF ReadFails, Searching
<1> QED
  BY <1>1, <1>2

\* One turn of root_entry's loop, with what its caller does with a file.
LEMMA TurnInv ==
  ASSUME DirInv, Turn
  PROVE  DirInv'
<1>1. call # "idle" /\ i < root_entries /\ sector' = Buffer
  BY DEF Turn, Searching
<1>2. /\ mounted /\ root_entries \in Nat /\ i \in 0 .. root_entries - 1
      /\ Raw = dir[i] /\ dir[i] \in Entries
      /\ dir \in [0 .. root_entries - 1 -> Entries] /\ VolumeInv
  BY <1>1, RawIs DEF DirInv
<1>3. CASE Raw = END
  <2>1. Listing[root_entries] = Listing[i]
    <3>1. root_entries \in i .. root_entries
      BY <1>2
    <3> QED
      BY <1>2, <1>3, <3>1, NothingBehindEnd
  <2>2. Return(0) /\ i' = i
    BY <1>3 DEF Turn
  <2> QED
    BY <1>1, <2>1, <2>2, ReturnInv
<1>4. CASE Raw # END /\ call = "fat_open" /\ Raw = key /\ ~Skipped
  <2>1. Return(i + 1) /\ i' = i
    BY <1>4 DEF Turn, FoundFile
  <2> QED
    BY <1>1, <1>4, <2>1, ReturnInv
<1>5. CASE Raw # END /\ ~(call = "fat_open" /\ Raw = key /\ ~Skipped)
  <2>1. /\ UNCHANGED <<volumeVars, dir, call, name, key, result>> /\ i' = i + 1
        /\ cursor' \in {cursor, i + 1}
        /\ listed' = IF call = "syscall_dir" /\ ~Skipped
                     THEN Append(listed, ShownName(dir[i])) ELSE listed
    BY <1>1, <1>2, <1>5 DEF Turn, FoundFile, OtherName, ResumeBehind
  <2>2. /\ VolumeInv' /\ Listing' = Listing /\ root_entries' = root_entries
        /\ mounted' = mounted /\ dir' = dir
    BY <2>1, DiskKept
  <2>3. Search' /\ i' \in Nat /\ cursor' \in Nat
    BY <1>1, <1>2, <1>5, <2>1, AdvanceSearch
  <2>4. dir[i] \in Keys <=> ~Skipped
    BY <1>2, <1>5, KeysAssumption DEF Skipped, Entries
  <2>5. call = "syscall_dir" => listed' = Listing[i + 1]
    BY <1>1, <1>2, <1>5, <2>1, <2>4, ListingStep DEF DirInv
  <2>6. call = "fat_open" => NotFoundYet'
    <3> SUFFICES ASSUME call = "fat_open", NEW j \in 0 .. i, dir[j] \in Keys
                 PROVE  dir[j] # key
      <4>1. i' - 1 = i
        BY <1>2, <2>1
      <4> QED
        BY <2>1, <2>2, <4>1 DEF NotFoundYet
    <3>1. CASE j = i
      BY <1>2, <1>5, <2>4, <3>1
    <3>2. CASE j # i
      <4>1. j \in 0 .. i - 1
        BY <1>2, <3>2
      <4> QED
        BY <4>1 DEF DirInv, NotFoundYet
    <3> QED
      BY <3>1, <3>2
  <2> QED
    BY <1>1, <1>2, <2>1, <2>2, <2>3, <2>5, <2>6 DEF DirInv, Entries, END, DELETED, OTHER_KIND
<1> QED
  BY <1>3, <1>4, <1>5

\* Every step keeps the invariant.
LEMMA DirInvNext == DirInv /\ [Next]_vars => DirInv'
<1> SUFFICES ASSUME DirInv, [Next]_vars PROVE DirInv'
  OBVIOUS
<1>1. CASE UNCHANGED vars
  <2>1. /\ VolumeInv' /\ Listing' = Listing /\ root_entries' = root_entries
        /\ mounted' = mounted
    BY <1>1, DiskKept DEF vars
  <2> QED
    BY <1>1, <2>1 DEF vars, DirInv, Search, NotFoundYet, Entries, END, DELETED, OTHER_KIND
<1> QED
  BY <1>1, MountInv, CallInv, RefuseInv, TurnInv, EndInv DEF Next

\* The inductive invariant of mounting and searching.
THEOREM DirInvariance == Spec => []DirInv
BY DirInvInit, DirInvNext, PTL DEF Spec

\* fat_init: for every boot sector and disk, every sector that the table, the
\* directory and the clusters of an accepted volume are read from lies in an
\* area of its own, and on the disk.
THEOREM MountedAreasAreDisjoint == Spec => []AreasDisjoint
<1>1. DirInv => AreasDisjoint
  BY MountedAreas DEF DirInv
<1> QED
  BY <1>1, DirInvariance, PTL

\* syscall_dir lists every regular file once and in order, for every directory
\* and every number of entries to a sector.
THEOREM DirListsEachOnce == Spec => []ListsEachOnce
<1>1. DirInv => ListsEachOnce
  BY DEF DirInv, ListsEachOnce
<1> QED
  BY <1>1, DirInvariance, PTL

-----------------------------------------------------------------------------
(***************************************************************************)
(* What fat_open finds.                                                    *)
(***************************************************************************)
\* The files before the end mark whose entry is the key fat_open looks for.
Matches == {j \in Before(root_entries) : dir[j] \in Keys /\ dir[j] = key}

\* fat_open returns the first entry with the name's key, and none only if there
\* is none or the name has no key; else a sector could not be read.
FirstMatch ==
  call = "fat_open" /\ call' = "idle" =>
    \/ result' = -1
    \/ result' = 0 /\ (key = REFUSED \/ Matches = {})
    \/ key # REFUSED /\ result' - 1 \in Matches /\ \A j \in Matches : result' - 1 <= j

\* A turn of root_entry that ends fat_open has found the first match, or there is none.
LEMMA TurnFindsFirst ==
  ASSUME DirInv, Turn, call = "fat_open", call' = "idle"
  PROVE  \/ result' = 0 /\ Matches = {}
         \/ result' - 1 \in Matches /\ \A j \in Matches : result' - 1 <= j
<1>1. i < root_entries
  BY DEF Turn
<1>2. /\ root_entries \in Nat /\ i \in 0 .. root_entries - 1 /\ Raw = dir[i] /\ dir[i] \in Entries
  BY <1>1, RawIs
<1>3. Search /\ NotFoundYet
  BY DEF DirInv
<1>4. \A j \in Matches : j \in Nat /\ j >= i
  <2> SUFFICES ASSUME NEW j \in Matches, j < i PROVE FALSE
    BY <1>2 DEF Matches, Before
  <2>1. j \in 0 .. i - 1
    BY <1>2 DEF Matches, Before
  <2> QED
    BY <1>3, <2>1 DEF Matches, NotFoundYet
<1>5. CASE Raw = END
  <2>1. result' = 0
    BY <1>5 DEF Turn, Return
  <2>2. ASSUME NEW j \in Matches PROVE FALSE
    <3>1. j \in 0 .. root_entries - 1 /\ \A m \in 0 .. j : dir[m] # END
      BY DEF Matches, Before
    <3>2. i \in 0 .. j
      BY <1>2, <1>4, <3>1
    <3> QED
      BY <1>2, <1>5, <3>1, <3>2
  <2> QED
    BY <2>1, <2>2
<1>6. CASE Raw # END
  <2>1. Raw = key /\ ~Skipped /\ result' = i + 1
    BY <1>6 DEF Turn, FoundFile, OtherName, Return
  <2>2. dir[i] \in Keys
    BY <1>2, <1>6, <2>1 DEF Skipped, Entries
  <2>3. i \in Before(root_entries)
    <3>1. \A m \in 0 .. i : m \in 0 .. i - 1 \/ m = i
      BY <1>2
    <3> QED
      BY <1>2, <1>3, <1>6, <3>1 DEF Before, Search
  <2>4. i \in Matches /\ result' - 1 = i
    <3>1. i \in Matches
      BY <1>2, <2>1, <2>2, <2>3 DEF Matches
    <3>2. i \in Nat
      BY <1>2
    <3> QED
      BY <2>1, <3>1, <3>2
  <2> QED
    BY <1>2, <1>4, <2>4
<1> QED
  BY <1>5, <1>6

\* So does every other step that ends fat_open.
LEMMA StepFindsFirst ==
  ASSUME DirInv, [Next]_vars
  PROVE  FirstMatch
<1> SUFFICES ASSUME call = "fat_open", call' = "idle" PROVE FirstMatch
  BY DEF FirstMatch
<1>1. CASE Turn
  BY <1>1, TurnFindsFirst DEF FirstMatch, Turn, Searching
<1>2. CASE Refuse
  BY <1>2 DEF Refuse, Return, FirstMatch
<1>3. CASE ReadFails
  BY <1>3 DEF ReadFails, Return, FirstMatch
<1>4. CASE AtEnd
  <2>1. i = root_entries /\ result' = 0 /\ NotFoundYet
    BY <1>4 DEF AtEnd, Return, DirInv
  <2>2. Matches = {}
    BY <2>1 DEF Matches, Before, NotFoundYet
  <2> QED
    BY <2>1, <2>2 DEF FirstMatch
<1>5. call = "idle" \/ call' = call => FALSE
  OBVIOUS
<1>6. ~Mount /\ ~Call("syscall_dir", << >>) /\ (\A n \in Names : ~Call("fat_open", n)) /\ ~UNCHANGED vars
  BY <1>5 DEF Mount, Call, vars
<1> QED
  BY <1>1, <1>2, <1>3, <1>4, <1>6 DEF Next

\* fat_open finds the first file with the key of the name.
THEOREM OpenFindsFirst == Spec => [][FirstMatch]_vars
<1>1. DirInv /\ [Next]_vars => [FirstMatch]_vars
  BY StepFindsFirst
<1> QED
  BY <1>1, DirInvariance, PTL DEF Spec

\* If short_name and fat_next's names agree, fat_open finds the first file that
\* dir lists under the name, in every directory.
THEOREM OpenFindsListed == ASSUME NamesAgree PROVE Spec => OpenResult
<1>1. ASSUME DirInv, [Next]_vars, call = "fat_open", call' = "idle"
      PROVE  \/ result' = -1
             \/ result' = 0 /\ Holders = {}
             \/ result' - 1 \in Holders /\ \A j \in Holders : result' - 1 <= j
  <2>1. name \in Names /\ key = short_name(name)
    BY <1>1 DEF DirInv
  <2>2. key = REFUSED => Holders = {}
    BY <2>1, NamesAgree DEF NamesAgree, Holders
  <2>3. key # REFUSED => Holders = Matches
    BY <2>1, NamesAgree DEF NamesAgree, Holders, Matches
  <2>4. FirstMatch
    BY <1>1, StepFindsFirst
  <2> QED
    BY <1>1, <2>2, <2>3, <2>4 DEF FirstMatch
<1> QED
  BY <1>1, DirInvariance, PTL DEF Spec, OpenResult
=============================================================================
