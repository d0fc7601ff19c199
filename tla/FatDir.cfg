\* Four table entries and two directory entries to a sector; volumes of two to
\* six clusters, and directories of up to three entries: the last sector of
\* some is not full.
CONSTANTS
  Disks = {0, 12}
  LINKS = 4
  PER_SECTOR = 2
  MIN_CLUSTERS = 2
  RESERVED = 7
  MAX_CLUSTERS = 7
  BootSectors <- SmallBootSectors
  BASE = 2
  EXTENSION = 1
  Keys <- MCKeys
  Names <- MCNames
SPECIFICATION Spec
INVARIANTS AreasDisjoint ListsEachOnce
PROPERTY OpenResult
