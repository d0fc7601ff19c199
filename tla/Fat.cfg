\* Four clusters of two sectors of two bytes, the last with a reserved number,
\* with every table; files that are empty, end inside and at the end of a
\* cluster, and need more clusters than can be named.
CONSTANTS
  CLUSTERS = 4
  RESERVED = 5
  SECTOR = 2
  sectors_per_cluster = 2
  Sizes = {0, 5, 12, 13}
SPECIFICATION FairSpec
INVARIANTS OpenedIsSound ReadsFile NoSurprises
PROPERTY CallsReturn
