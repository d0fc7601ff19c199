-------------------------------- MODULE Fat ---------------------------------
(***************************************************************************)
(* Reading files of the FAT16 disk: fat_open follows the file's whole      *)
(* cluster chain before it accepts the file, fat_read copies a range of    *)
(* its bytes sector by sector.  The disk is read only, but what is on it   *)
(* is arbitrary: the table may hold anything.  Any sector may fail to be   *)
(* read.                                                                   *)
(*                                                                         *)
(* Clusters are numbered from 2 on.  END stands for the marks from 0xfff8  *)
(* on, and CLUSTERS + 2 for the other values that name no cluster, 1       *)
(* included.  A byte of the data area is named by its position in it.      *)
(***************************************************************************)
EXTENDS Naturals, Sequences

CONSTANTS
  CLUSTERS,              \* clusters of the data area
  RESERVED,              \* the first number that names no cluster (0xfff0)
  SECTOR,                \* bytes of a sector (512)
  sectors_per_cluster,
  Sizes                  \* file sizes a directory entry may give

ASSUME GeometryAssumption ==
  /\ CLUSTERS \in Nat \ {0} /\ RESERVED \in Nat /\ SECTOR \in Nat \ {0}
  /\ sectors_per_cluster \in Nat \ {0} /\ Sizes \subseteq Nat

VARIABLES
  fat,        \* the file allocation table on the disk
  file,       \* the directory entry, then struct FatFile: size and cluster
  opened,     \* fat_open accepted the file
  pc,         \* the loop that runs, or "idle"
  cluster, left,                  \* loop variables: cluster, and turns to go
  offset, length, within, out,    \* fat_read's arguments, position and buffer
  wanted,     \* the length the caller asked for
  result      \* how the last call returned

diskVars == <<fat, file>>
readVars == <<offset, length, within, out, wanted>>
vars == <<diskVars, opened, pc, cluster, left, readVars, result>>

cluster_bytes == sectors_per_cluster * SECTOR
END == CLUSTERS + 3
Clusters == 2 .. CLUSTERS + 1
TableValues == (0 .. END) \ {1}

valid_cluster(c) == c >= 2 /\ c < CLUSTERS + 2 /\ c < RESERVED

Init ==
  /\ fat \in [Clusters -> TableValues]
  /\ file \in [size : Sizes, cluster : TableValues]
  /\ opened = FALSE
  /\ pc = "idle"
  /\ cluster = 0 /\ left = 0
  /\ offset = 0 /\ length = 0 /\ within = 0 /\ out = <<>> /\ wanted = 0
  /\ result = "none"

Return(how) == pc' = "idle" /\ result' = how

-----------------------------------------------------------------------------
\* fat_open, once the directory entry is found.
\* CountFloor loses the last, partly filled cluster.
CountFloor(size) == size \div cluster_bytes

Count(size) == (size - 1) \div cluster_bytes + 1

fat_open ==
  /\ pc = "idle" /\ ~opened
  /\ \/ /\ file.size = 0
        /\ opened' = (file.cluster = 0)
        /\ Return(IF opened' THEN "ok" ELSE "corrupt")
        /\ UNCHANGED <<cluster, left>>
     \/ /\ file.size # 0 /\ Count(file.size) > CLUSTERS
        /\ Return("corrupt")
        /\ UNCHANGED <<opened, cluster, left>>
     \/ /\ file.size # 0 /\ Count(file.size) <= CLUSTERS
        /\ cluster' = file.cluster /\ left' = Count(file.size)
        /\ pc' = "validate"
        /\ UNCHANGED <<opened, result>>
  /\ UNCHANGED <<diskVars, readVars>>

\* One turn of a loop that follows the chain: next_cluster.
Follow ==
  /\ pc \in {"validate", "skip"} /\ left # 0
  /\ \/ /\ ~valid_cluster(cluster) /\ Return("corrupt")
        /\ UNCHANGED <<cluster, left>>
     \/ /\ valid_cluster(cluster)
        /\ cluster' = fat[cluster] /\ left' = left - 1
        /\ UNCHANGED <<pc, result>>
  /\ UNCHANGED <<diskVars, opened, readVars>>

\* Accepts a chain that goes on behind the file's last cluster.
EndUnchecked ==
  /\ pc = "validate" /\ left = 0
  /\ opened' = TRUE
  /\ Return("ok")
  /\ UNCHANGED <<diskVars, cluster, left, readVars>>

EndOfChain ==
  /\ pc = "validate" /\ left = 0
  /\ opened' = (cluster = END)
  /\ Return(IF opened' THEN "ok" ELSE "corrupt")
  /\ UNCHANGED <<diskVars, cluster, left, readVars>>

-----------------------------------------------------------------------------
\* fat_read of len bytes from position at.
fat_read(at, len) ==
  /\ pc = "idle" /\ opened
  /\ offset' = at /\ length' = len /\ wanted' = len /\ out' = <<>>
  /\ within' = at % cluster_bytes
  /\ cluster' = file.cluster
  /\ left' = at \div cluster_bytes
  /\ IF at > file.size \/ len > file.size - at THEN Return("range")
     ELSE IF len = 0 THEN Return("ok")
     ELSE IF left' >= CLUSTERS THEN Return("corrupt")
     ELSE pc' = "skip" /\ UNCHANGED result
  /\ UNCHANGED <<diskVars, opened>>

Skipped ==
  /\ pc = "skip" /\ left = 0
  /\ pc' = "copy"
  /\ UNCHANGED <<diskVars, opened, cluster, left, readVars, result>>

CopyLength(n) ==
  LET rest == SECTOR - (within % SECTOR)
  IN  n = IF rest > length THEN length ELSE rest

\* The position of byte i of the sector that holds byte w of a cluster.
Position(c, w, i) ==
  ((c - 2) * sectors_per_cluster + w \div SECTOR) * SECTOR + (w % SECTOR) + i

\* CopyNoAdvance stays in the same cluster when its end is reached.
CopyNoAdvance(n) ==
  /\ CopyLength(n)
  /\ out' = out \o [i \in 1 .. n |-> Position(cluster, within, i - 1)]
  /\ length' = length - n
  /\ within' = (within + n) % cluster_bytes
  /\ UNCHANGED <<pc, cluster, left, offset, wanted, result>>

\* One sector is copied.  A table sector that cannot be read for the next
\* cluster is a DiskError before the next sector is copied.
CopySector(n) ==
  /\ CopyLength(n)
  /\ out' = out \o [i \in 1 .. n |-> Position(cluster, within, i - 1)]
  /\ length' = length - n
  /\ IF within + n = cluster_bytes /\ length' # 0
     THEN cluster' = fat[cluster] /\ within' = 0
     ELSE within' = within + n /\ UNCHANGED cluster
  /\ UNCHANGED <<pc, left, offset, wanted, result>>

CopyStep ==
  /\ pc = "copy" /\ length # 0
  /\ IF valid_cluster(cluster) THEN \E n \in 1 .. SECTOR : CopySector(n)
     ELSE Return("corrupt") /\ UNCHANGED <<cluster, left, readVars>>
  /\ UNCHANGED <<diskVars, opened>>

Copied ==
  /\ pc = "copy" /\ length = 0
  /\ Return("ok")
  /\ UNCHANGED <<diskVars, opened, cluster, left, readVars>>

\* RestartOnError tries the whole chain again.
RestartOnError ==
  /\ pc = "validate" /\ left # 0
  /\ cluster' = file.cluster /\ left' = Count(file.size)
  /\ UNCHANGED <<diskVars, opened, pc, readVars, result>>

\* block_read of a sector of the table or of the file fails.
DiskError ==
  /\ \/ pc \in {"validate", "skip"} /\ left # 0
     \/ pc = "copy" /\ length # 0
  /\ valid_cluster(cluster)
  /\ Return("disk")
  /\ UNCHANGED <<diskVars, opened, cluster, left, readVars>>

LoopStep ==
  \/ Follow \/ EndOfChain \/ Skipped
  \/ CopyStep \/ Copied \/ DiskError

Next ==
  \/ fat_open
  \/ opened /\ \E at, len \in 0 .. file.size + 1 : fat_read(at, len)
  \/ LoopStep

Spec == Init /\ [][Next]_vars

\* Loops run to their end.
FairSpec == Spec /\ WF_vars(LoopStep)

-----------------------------------------------------------------------------
\* The file's chain as the table gives it: the i-th cluster of the file.
Chain ==
  LET c[i \in 0 .. CLUSTERS] ==
        IF i = 0 THEN file.cluster
        ELSE IF valid_cluster(c[i - 1]) THEN fat[c[i - 1]] ELSE 0
  IN  c

\* "Validate the whole chain, including cycles and early EOF" (fat.c:166): a
\* file fat_open accepts has a chain of as many different clusters as its
\* size needs, and it ends there.
OpenedIsSound ==
  opened /\ file.size # 0 =>
    LET n == Count(file.size) IN
    /\ \A i \in 0 .. n - 1 : valid_cluster(Chain[i])
    /\ \A i, j \in 0 .. n - 1 : i # j => Chain[i] # Chain[j]
    /\ Chain[n] = END

\* What fat_read has copied so far are the bytes of the file from offset on,
\* each from the cluster its place in the file belongs to; when it returns
\* true the whole range has been copied.
ReadsFile ==
  /\ \A k \in 1 .. Len(out) :
       LET b == offset + k - 1 IN
       out[k] = Position(Chain[b \div cluster_bytes], b % cluster_bytes, 0)
  /\ Len(out) = wanted - length
  /\ pc = "idle" /\ opened /\ result = "ok" => Len(out) = wanted

\* After a successful fat_open no read of the file can meet a broken chain:
\* fat_read fails only for a range outside the file or an unreadable sector.
NoSurprises == opened /\ pc = "idle" => result # "corrupt"

\* No chain, however it is damaged, keeps the kernel in a loop.
CallsReturn == (pc # "idle") ~> (pc = "idle")
=============================================================================
