----------------------------- MODULE FatVolume ------------------------------
(***************************************************************************)
(* fat_init: checking the boot sector of a disk and laying out its areas.  *)
(* The boot sector is arbitrary; a field is a number.  The sizes the FAT16 *)
(* format fixes are constants, so that small disks show the boundaries.    *)
(***************************************************************************)
EXTENDS Naturals

CONSTANTS
  Disks,          \* sizes in sectors a disk may have; 0 is no disk
  LINKS,          \* table entries of a sector (256)
  PER_SECTOR,     \* directory entries of a sector (16)
  MIN_CLUSTERS,   \* a FAT16 volume has at least as many clusters (4085)
  MAX_CLUSTERS,   \* and fewer than this (65525)
  RESERVED,       \* the first number that names no cluster (0xfff0)
  BootSectors     \* what the first sector may hold

ASSUME FormatAssumption ==
  /\ LINKS \in Nat \ {0} /\ PER_SECTOR \in Nat \ {0}
  /\ MIN_CLUSTERS \in Nat /\ MAX_CLUSTERS \in Nat /\ RESERVED \in Nat
  /\ Disks \subseteq Nat
  /\ BootSectors \subseteq
       [signed : BOOLEAN, spc : Nat, fat_start : Nat, fats : Nat,
        root_entries : Nat, fat_sectors : Nat, total : Nat]

VARIABLES
  disk,       \* the disk's sectors, block_sector_count()
  boot,       \* the boot sector on it
  mounted,
  root_start, data_start, clusters     \* set by fat_init; the rest of what
                                       \* it keeps are fields of boot

volumeVars == <<disk, boot, mounted, root_start, data_start, clusters>>

VolumeInit ==
  /\ disk \in Disks /\ boot \in BootSectors
  /\ mounted = FALSE
  /\ root_start = 0 /\ data_start = 0 /\ clusters = 0

PowersOfTwo == {2 ^ k : k \in 0 .. 7}

\* The fields that can be checked one by one.
Plausible ==
  /\ disk > 0 /\ boot.signed
  /\ boot.spc \in PowersOfTwo
  /\ boot.fat_start # 0 /\ boot.root_entries # 0 /\ boot.fat_sectors # 0
  /\ boot.fats \in {1, 2}
  /\ boot.total <= disk

RootStart == boot.fat_start + boot.fats * boot.fat_sectors

RootSectors == (boot.root_entries + PER_SECTOR - 1) \div PER_SECTOR

DataStart == RootStart + RootSectors

\* There is no room for data.
NoData == boot.total <= DataStart

ClusterCount == (boot.total - DataStart) \div boot.spc

\* The table must hold clusters 2 to clusters + 1.
\* TableForClusters forgets the two entries that name no cluster.
TableForClusters == ClusterCount > boot.fat_sectors * LINKS

TableTooSmall == ClusterCount + 2 > boot.fat_sectors * LINKS

WrongCount ==
  ClusterCount < MIN_CLUSTERS \/ ClusterCount >= MAX_CLUSTERS \/ TableTooSmall

\* A mount that fails keeps what it has computed; mounted stays FALSE.
fat_init ==
  /\ ~mounted
  /\ IF ~Plausible THEN UNCHANGED <<mounted, root_start, data_start, clusters>>
     ELSE /\ root_start' = RootStart /\ data_start' = DataStart
          /\ IF NoData THEN UNCHANGED <<mounted, clusters>>
             ELSE clusters' = ClusterCount /\ mounted' = ~WrongCount
  /\ UNCHANGED <<disk, boot>>

\* The sectors next_cluster, root_entry and fat_read read.
valid_cluster(c) == c >= 2 /\ c < clusters + 2 /\ c < RESERVED

TableSector(c) == boot.fat_start + c \div LINKS

RootSector(i) == root_start + i \div PER_SECTOR

DataSector(c, s) == data_start + (c - 2) * boot.spc + s

-----------------------------------------------------------------------------
\* On a volume fat_init accepts, whatever its boot sector says, the sector of
\* every table entry lies in the first table, that of every directory entry
\* in the directory, and those of every cluster in the data area and on the
\* disk: no area overlaps the next.
AreasDisjoint ==
  mounted =>
    /\ \A c \in {c \in 0 .. disk + 2 : valid_cluster(c)} :
         /\ TableSector(c) < boot.fat_start + boot.fat_sectors
         /\ \A s \in 0 .. boot.spc - 1 :
              DataSector(c, s) \in data_start .. boot.total - 1
    /\ \A i \in 0 .. boot.root_entries - 1 :
         RootSector(i) \in root_start .. data_start - 1
    /\ boot.fat_start + boot.fat_sectors <= root_start
    /\ boot.total <= disk
=============================================================================
