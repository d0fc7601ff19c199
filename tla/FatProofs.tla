------------------------------ MODULE FatProofs -----------------------------
(***************************************************************************)
(* Proofs about module Fat: for every table, directory entry and geometry. *)
(***************************************************************************)
EXTENDS Fat, Integers, SequenceTheorems, Numbers, TLAPS

\* A sector does not cross the end of its cluster.
LEMMA SectorInCluster ==
  ASSUME NEW d \in Nat \ {0}, NEW m \in Nat \ {0}, NEW w \in 0 .. m * d - 1
  PROVE  w + (d - (w % d)) <= m * d
<1> DEFINE q == w \div d
           r == w % d
<1>1. m * d \in Nat /\ w \in Nat
  OBVIOUS
<1>2. q \in Nat /\ r \in 0 .. d - 1 /\ w = d * q + r
  BY <1>1, Division
<1> HIDE DEF q, r
<1>3. d * q \in Nat /\ d * m \in Nat /\ d * m = m * d
  BY <1>2
<1>4. q < m
  <2>1. ~(m < q)
    BY <1>2, <1>3, Multiples
  <2> QED
    BY <1>2, <1>3, <2>1
<1>5. d * q + d <= d * m
  BY <1>2, <1>4, Multiples
<1>6. w + (d - r) <= m * d
  BY <1>2, <1>3, <1>5
<1> QED
  BY <1>6 DEF r

-----------------------------------------------------------------------------
(***************************************************************************)
(* The chain of a file.                                                    *)
(***************************************************************************)
\* What the definition of Chain says: the first cluster is the directory
\* entry's, and the table has the one behind a cluster.
LEMMA ChainIs ==
  ASSUME fat \in [Clusters -> TableValues], file.cluster \in TableValues
  PROVE  /\ Chain \in [0 .. CLUSTERS -> TableValues]
         /\ Chain[0] = file.cluster
         /\ \A k \in 0 .. CLUSTERS - 1 :
              Chain[k + 1] = IF valid_cluster(Chain[k]) THEN fat[Chain[k]] ELSE 0
<1> DEFINE Succ == [v \in TableValues |-> IF valid_cluster(v) THEN fat[v] ELSE 0]
           IsChain(c) == c = [k \in 0 .. CLUSTERS |->
                                IF k = 0 THEN file.cluster
                                ELSE IF valid_cluster(c[k - 1]) THEN fat[c[k - 1]] ELSE 0]
<1>1. CLUSTERS \in Nat
  BY GeometryAssumption
<1>2. 0 \in TableValues /\ \A v \in TableValues : valid_cluster(v) => v \in Clusters
  BY <1>1 DEF TableValues, END, valid_cluster, Clusters
<1>3. Succ \in [TableValues -> TableValues]
  BY <1>2
<1>4. PICK c \in [0 .. CLUSTERS -> TableValues] : Iterates(c, file.cluster, Succ, CLUSTERS)
  <2> DEFINE first == file.cluster
             values == TableValues
  <2>1. first \in values /\ Succ \in [values -> values]
    BY <1>3
  <2> HIDE DEF Succ, first, values
  <2>2. \E c \in [0 .. CLUSTERS -> values] : Iterates(c, first, Succ, CLUSTERS)
    BY <1>1, <2>1, Iteration
  <2> QED
    BY <2>2 DEF first, values
<1>5. \A k \in 0 .. CLUSTERS :
        c[k] = IF k = 0 THEN file.cluster
               ELSE IF valid_cluster(c[k - 1]) THEN fat[c[k - 1]] ELSE 0
  <2> SUFFICES ASSUME NEW k \in 0 .. CLUSTERS, k # 0
               PROVE  c[k] = IF valid_cluster(c[k - 1]) THEN fat[c[k - 1]] ELSE 0
    BY <1>4 DEF Iterates
  <2>1. k \in 1 .. CLUSTERS /\ k - 1 \in 0 .. CLUSTERS
    BY <1>1
  <2> QED
    BY <1>4, <2>1 DEF Iterates
<1>6. IsChain(c)
  BY <1>4, <1>5
<1>7. Chain = CHOOSE d : IsChain(d)
  BY DEF Chain
<1>8. IsChain(Chain)
  <2> HIDE DEF IsChain
  <2> QED
    BY <1>6, <1>7
<1>9. \A k \in 0 .. CLUSTERS :
        Chain[k] = IF k = 0 THEN file.cluster
                   ELSE IF valid_cluster(Chain[k - 1]) THEN fat[Chain[k - 1]] ELSE 0
  BY <1>8
<1>10. \A k \in 0 .. CLUSTERS : Chain[k] \in TableValues
  <2> DEFINE T == {k \in 0 .. CLUSTERS : Chain[k] \notin TableValues}
  <2> SUFFICES ASSUME T # {} PROVE FALSE
    OBVIOUS
  <2>1. T \subseteq Nat
    OBVIOUS
  <2>2. PICK k \in T : \A m \in T : k <= m
    <3> HIDE DEF T
    <3> QED
      BY <2>1, LeastElement
  <2>3. k # 0
    BY <1>9
  <2>4. k - 1 \in 0 .. CLUSTERS /\ k - 1 \notin T
    BY <1>1, <2>2, <2>3
  <2>5. Chain[k - 1] \in TableValues
    BY <2>4
  <2>6. Chain[k] = IF valid_cluster(Chain[k - 1]) THEN fat[Chain[k - 1]] ELSE 0
    BY <1>9, <2>3
  <2> QED
    BY <1>2, <2>5, <2>6
<1>11. Chain \in [0 .. CLUSTERS -> TableValues]
  BY <1>8, <1>10
<1>12. ASSUME NEW k \in 0 .. CLUSTERS - 1
       PROVE  Chain[k + 1] = IF valid_cluster(Chain[k]) THEN fat[Chain[k]] ELSE 0
  <2>1. k + 1 \in 0 .. CLUSTERS /\ k + 1 # 0 /\ (k + 1) - 1 = k
    BY <1>1
  <2> QED
    BY <1>9, <2>1
<1> QED
  BY <1>1, <1>9, <1>11, <1>12

-----------------------------------------------------------------------------
(***************************************************************************)
(* The inductive invariant.                                                *)
(***************************************************************************)
FatTypeOK ==
  /\ fat \in [Clusters -> TableValues]
  /\ file \in [size : Sizes, cluster : TableValues]
  /\ opened \in BOOLEAN /\ pc \in {"idle", "validate", "skip", "copy"}
  /\ cluster \in TableValues /\ left \in Nat
  /\ offset \in Nat /\ length \in Nat /\ within \in Nat /\ wanted \in Nat
  /\ out \in Seq(Int)
  /\ result \in {"none", "ok", "corrupt", "range", "disk"}

\* The first n clusters of a chain can be read.
Valid(chain, n) == n <= CLUSTERS /\ \A k \in 0 .. n - 1 : valid_cluster(chain[k])

\* The chain is as long as the file needs, and ends there.
Sound == file.size # 0 => Valid(Chain, Count(file.size)) /\ Chain[Count(file.size)] = END

\* Where byte b of a file with the chain lies on the disk.
ByteAt(chain, b) == Position(chain[b \div cluster_bytes], b % cluster_bytes, 0)

\* The loops stand where the chain and the bytes passed so far say.
Validating ==
  /\ ~opened /\ file.size # 0 /\ Count(file.size) <= CLUSTERS
  /\ left <= Count(file.size)
  /\ Valid(Chain, Count(file.size) - left) /\ cluster = Chain[Count(file.size) - left]

InRange == opened /\ wanted # 0 /\ offset + wanted <= file.size

Skipping ==
  /\ length = wanted /\ within = offset % cluster_bytes
  /\ left <= offset \div cluster_bytes
  /\ cluster = Chain[(offset \div cluster_bytes) - left]

Reached == offset + (wanted - length)

Copying ==
  /\ cluster = Chain[Reached \div cluster_bytes]
  /\ within = Reached % cluster_bytes

FatInv ==
  /\ FatTypeOK
  /\ opened => Sound
  /\ ~opened => pc \in {"idle", "validate"} /\ wanted = 0
  /\ pc = "validate" => Validating
  /\ pc \in {"skip", "copy"} => InRange
  /\ pc = "skip" => Skipping
  /\ pc = "copy" /\ length # 0 => Copying
  /\ length <= wanted /\ Len(out) = wanted - length
  /\ \A k \in 1 .. Len(out) : out[k] = ByteAt(Chain, offset + k - 1)
  /\ opened /\ pc = "idle" => result # "corrupt" /\ (result = "ok" => length = 0)

-----------------------------------------------------------------------------
(***************************************************************************)
(* Clusters and bytes.                                                     *)
(***************************************************************************)
LEMMA Geometry ==
  /\ CLUSTERS \in Nat \ {0} /\ SECTOR \in Nat \ {0} /\ sectors_per_cluster \in Nat \ {0}
  /\ cluster_bytes \in Nat \ {0}
<1>1. CLUSTERS \in Nat \ {0} /\ SECTOR \in Nat \ {0} /\ sectors_per_cluster \in Nat \ {0}
  BY GeometryAssumption
<1>2. ASSUME NEW m \in Nat \ {0}, NEW n \in Nat \ {0} PROVE m * n \in Nat \ {0}
  OBVIOUS
<1> QED
  BY <1>1, <1>2 DEF cluster_bytes

\* The bytes of a cluster lie side by side.
LEMMA PositionIs ==
  ASSUME NEW c \in Int, NEW w \in Nat, NEW k \in Nat
  PROVE  /\ Position(c, w, k) = (c - 2) * cluster_bytes + w + k
         /\ Position(c, w, k) \in Int
<1> DEFINE d == SECTOR
           m == sectors_per_cluster
           q == w \div d
           r == w % d
<1>1. d \in Nat \ {0} /\ m \in Nat \ {0} /\ q \in Nat /\ r \in Nat /\ w = d * q + r
  BY Geometry, Division
<1>2. Position(c, w, k) = ((c - 2) * m + q) * d + r + k
  BY DEF Position
<1>3. cluster_bytes = m * d
  BY DEF cluster_bytes
<1> HIDE DEF d, m, q, r
<1>4. /\ (c - 2) * m \in Int /\ d * q \in Int
      /\ ((c - 2) * m + q) * d = (c - 2) * (m * d) + d * q
      /\ (c - 2) * (m * d) \in Int
  BY <1>1
<1> QED
  BY <1>1, <1>2, <1>3, <1>4

\* The clusters a file needs are those its bytes lie in.
LEMMA CountIs ==
  ASSUME NEW size \in Nat \ {0}
  PROVE  /\ Count(size) \in Nat \ {0}
         /\ \A b \in Nat : b < size => b \div cluster_bytes \in 0 .. Count(size) - 1
<1>1. cluster_bytes \in Nat \ {0} /\ size - 1 \in Nat
  BY Geometry
<1>2. (size - 1) \div cluster_bytes \in Nat
  BY <1>1, Division
<1>3. ASSUME NEW b \in Nat, b < size PROVE b \div cluster_bytes \in 0 .. Count(size) - 1
  <2>1. b <= size - 1
    BY <1>3
  <2>2. b \div cluster_bytes \in Nat
    BY <1>1, Division
  <2>3. b \div cluster_bytes <= (size - 1) \div cluster_bytes
    BY <1>1, <2>1, DivisionMonotonic
  <2> QED
    BY <1>2, <2>2, <2>3 DEF Count
<1> QED
  BY <1>2, <1>3 DEF Count

\* The disk is not written, so the chain stays what it is.
LEMMA ChainFixed ==
  ASSUME UNCHANGED diskVars
  PROVE  Chain' = Chain
BY DEF diskVars, Chain, valid_cluster

\* The invariant's view of the disk.
LEMMA ChainOfInv ==
  ASSUME FatTypeOK
  PROVE  /\ Chain \in [0 .. CLUSTERS -> TableValues]
         /\ Chain[0] = file.cluster
         /\ \A k \in 0 .. CLUSTERS - 1 : valid_cluster(Chain[k]) => Chain[k + 1] = fat[Chain[k]]
         /\ file.size \in Nat
<1>1. fat \in [Clusters -> TableValues] /\ file.cluster \in TableValues /\ file.size \in Nat
  BY GeometryAssumption DEF FatTypeOK
<1> QED
  BY <1>1, ChainIs

-----------------------------------------------------------------------------
(***************************************************************************)
(* fat_open and the loops that follow the chain.                           *)
(***************************************************************************)
LEMMA FatInvInit == Init => FatInv
<1> SUFFICES ASSUME Init PROVE FatInv
  OBVIOUS
<1>1. 0 \in TableValues
  BY Geometry DEF TableValues, END
<1>2. FatTypeOK
  <2>1. << >> \in Seq(Int)
    OBVIOUS
  <2> QED
    BY <1>1, <2>1 DEF Init, FatTypeOK
<1>3. Len(out) = 0
  BY DEF Init
<1> QED
  BY <1>2, <1>3 DEF Init, FatInv

\* fat_open starts at the first cluster with all of them to count.
LEMMA OpenInv ==
  ASSUME FatInv, fat_open
  PROVE  FatInv'
<1>1. Chain' = Chain /\ fat' = fat /\ file' = file /\ UNCHANGED readVars
  BY ChainFixed DEF fat_open, diskVars
<1>2. ~opened /\ pc = "idle" /\ wanted = 0 /\ length = 0
  BY DEF fat_open, FatInv, FatTypeOK
<1>3. CASE file.size = 0
  BY <1>1, <1>2, <1>3 DEF fat_open, Return, readVars, FatInv, FatTypeOK, Sound
<1>4. CASE file.size # 0 /\ Count(file.size) > CLUSTERS
  <2>1. Count(file.size) \in Nat /\ CLUSTERS \in Nat
    BY <1>4, ChainOfInv, CountIs, Geometry DEF FatInv
  <2>2. ~(Count(file.size) <= CLUSTERS)
    BY <1>4, <2>1
  <2> QED
    BY <1>1, <1>2, <1>4, <2>2 DEF fat_open, Return, readVars, FatInv, FatTypeOK
<1>5. CASE file.size # 0 /\ ~(Count(file.size) > CLUSTERS)
  <2>1. file.size \in Nat \ {0} /\ Chain[0] = file.cluster
    BY <1>5, ChainOfInv DEF FatInv
  <2>2. Count(file.size) \in Nat /\ CLUSTERS \in Nat
    BY <2>1, CountIs, Geometry
  <2>3. /\ pc' = "validate" /\ opened' = opened /\ result' = result
        /\ cluster' = file.cluster /\ left' = Count(file.size)
    BY <1>5, <2>2 DEF fat_open
  <2>4. Count(file.size) - left' = 0
    BY <2>2, <2>3
  <2>5. Validating'
    BY <1>1, <1>2, <1>5, <2>1, <2>2, <2>3, <2>4 DEF Validating, Valid, Count, cluster_bytes
  <2>6. FatTypeOK'
    BY <1>1, <2>2, <2>3 DEF FatInv, FatTypeOK, readVars
  <2> QED
    BY <1>1, <1>2, <2>3, <2>5, <2>6 DEF FatInv, readVars
<1> QED
  BY <1>3, <1>4, <1>5

\* A cluster of the chain that is passed is valid, and the table names the next.
LEMMA ChainNext ==
  ASSUME FatTypeOK, NEW k \in 0 .. CLUSTERS - 1, valid_cluster(Chain[k])
  PROVE  fat[Chain[k]] = Chain[k + 1] /\ Chain[k + 1] \in TableValues
<1>1. k + 1 \in 0 .. CLUSTERS
  BY Geometry
<1> QED
  BY <1>1, ChainOfInv

\* A turn of the loop of fat_open has followed one more link.
LEMMA ValidateInv ==
  ASSUME FatInv, Follow, pc = "validate"
  PROVE  FatInv'
<1>1. Chain' = Chain /\ fat' = fat /\ file' = file /\ UNCHANGED readVars /\ opened' = opened
  BY ChainFixed DEF Follow, diskVars
<1>2. Validating /\ left # 0 /\ left \in Nat /\ FatTypeOK
  BY DEF FatInv, Follow, FatTypeOK
<1>3. CASE ~valid_cluster(cluster)
  BY <1>1, <1>2, <1>3 DEF Follow, Return, readVars, FatInv, FatTypeOK, Validating
<1>4. CASE valid_cluster(cluster)
  <2>1. file.size \in Nat \ {0}
    BY <1>2, ChainOfInv DEF Validating
  <2>2. Count(file.size) \in Nat /\ CLUSTERS \in Nat
    BY <2>1, CountIs, Geometry
  <2> DEFINE n == Count(file.size) - left
  <2>3. n \in 0 .. CLUSTERS - 1 /\ Count(file.size) - (left - 1) = n + 1
    BY <1>2, <2>2 DEF Validating
  <2>4. cluster = Chain[n] /\ Valid(Chain, n)
    BY <1>2 DEF Validating
  <2>5. /\ cluster' = fat[cluster] /\ left' = left - 1
        /\ pc' = pc /\ result' = result
    BY <1>4 DEF Follow
  <2>6. fat[Chain[n]] = Chain[n + 1] /\ Chain[n + 1] \in TableValues
    BY <1>2, <1>4, <2>3, <2>4, ChainNext
  <2> HIDE DEF n
  <2>7. Valid(Chain, n + 1)
    BY <1>4, <2>2, <2>3, <2>4 DEF Valid
  <2>8. Validating'
    BY <1>1, <1>2, <2>2, <2>3, <2>4, <2>5, <2>6, <2>7 DEF Validating, Count, cluster_bytes
  <2>9. FatTypeOK'
    BY <1>1, <1>2, <2>4, <2>5, <2>6 DEF FatTypeOK, readVars
  <2> QED
    BY <1>1, <2>5, <2>8, <2>9 DEF FatInv, readVars, Validating
<1> QED
  BY <1>3, <1>4

\* A file is accepted only with the end mark behind its last cluster.
LEMMA EndOfChainInv ==
  ASSUME FatInv, EndOfChain
  PROVE  FatInv'
<1>1. Chain' = Chain /\ fat' = fat /\ file' = file /\ UNCHANGED <<cluster, left, readVars>>
  BY ChainFixed DEF EndOfChain, diskVars
<1>2. Validating /\ left = 0 /\ FatTypeOK
  BY DEF FatInv, EndOfChain
<1>3. Count(file.size) \in Nat
  BY <1>2, ChainOfInv, CountIs DEF Validating
<1>4. Valid(Chain, Count(file.size)) /\ cluster = Chain[Count(file.size)]
  BY <1>2, <1>3 DEF Validating
<1>5. opened' => Sound'
  BY <1>1, <1>4 DEF EndOfChain, Sound, Valid, Count, cluster_bytes, END
<1>6. ~opened /\ wanted = 0 /\ length = 0
  BY <1>2 DEF FatInv, Validating, FatTypeOK
<1> QED
  BY <1>1, <1>2, <1>5, <1>6 DEF EndOfChain, Return, readVars, FatInv, FatTypeOK

-----------------------------------------------------------------------------
(***************************************************************************)
(* fat_read.                                                               *)
(***************************************************************************)
\* Every byte of a file that was accepted lies in a cluster that can be read.
LEMMA ByteInChain ==
  ASSUME FatInv, opened, NEW b \in Nat, b < file.size
  PROVE  /\ b \div cluster_bytes \in 0 .. CLUSTERS - 1
         /\ \A k \in 0 .. b \div cluster_bytes : valid_cluster(Chain[k])
<1>1. FatTypeOK /\ Sound /\ file.size \in Nat \ {0} /\ CLUSTERS \in Nat
  BY ChainOfInv, Geometry DEF FatInv
<1> DEFINE n == Count(file.size)
           q == b \div cluster_bytes
<1>2. n \in Nat /\ q \in 0 .. n - 1
  BY <1>1, CountIs
<1>3. n <= CLUSTERS /\ \A k \in 0 .. n - 1 : valid_cluster(Chain[k])
  BY <1>1 DEF Sound, Valid
<1> HIDE DEF n, q
<1>4. q \in 0 .. CLUSTERS - 1 /\ \A k \in 0 .. q : valid_cluster(Chain[k])
  BY <1>1, <1>2, <1>3
<1> QED
  BY <1>4 DEF q

\* fat_read starts at the first cluster, in range or with an error.
LEMMA ReadInv ==
  ASSUME FatInv, NEW at \in Nat, NEW len \in Nat, fat_read(at, len)
  PROVE  FatInv'
<1>1. Chain' = Chain /\ fat' = fat /\ file' = file /\ opened' = opened /\ opened /\ pc = "idle"
  BY ChainFixed DEF fat_read, diskVars
<1>2. FatTypeOK /\ Sound /\ file.size \in Nat /\ Chain[0] = file.cluster /\ CLUSTERS \in Nat
  BY <1>1, ChainOfInv, Geometry DEF FatInv
<1>3. at \div cluster_bytes \in Nat /\ at % cluster_bytes \in Nat
  <2>1. cluster_bytes \in Nat \ {0}
    BY Geometry
  <2>2. at \div cluster_bytes \in Nat /\ at % cluster_bytes \in 0 .. cluster_bytes - 1
    BY <2>1, Division
  <2> QED
    BY <2>1, <2>2
<1>4. /\ offset' = at /\ length' = len /\ wanted' = len /\ out' = << >>
      /\ within' = at % cluster_bytes /\ cluster' = file.cluster
      /\ left' = at \div cluster_bytes
  BY DEF fat_read
<1>5. out' \in Seq(Int) /\ Len(out') = 0
  BY <1>4
<1>6. Sound'
  BY <1>1, <1>2 DEF Sound, Valid, Count, cluster_bytes, END
<1>7. CASE at > file.size \/ len > file.size - at
  <2>1. pc' = "idle" /\ result' = "range"
    BY <1>7 DEF fat_read, Return
  <2>2. FatTypeOK'
    BY <1>1, <1>2, <1>3, <1>4, <1>5, <2>1 DEF FatTypeOK
  <2> QED
    BY <1>1, <1>4, <1>5, <1>6, <2>1, <2>2 DEF FatInv
<1>8. CASE ~(at > file.size \/ len > file.size - at) /\ len = 0
  <2>1. pc' = "idle" /\ result' = "ok"
    BY <1>8 DEF fat_read, Return
  <2>2. FatTypeOK'
    BY <1>1, <1>2, <1>3, <1>4, <1>5, <2>1 DEF FatTypeOK
  <2> QED
    BY <1>1, <1>4, <1>5, <1>6, <1>8, <2>1, <2>2 DEF FatInv
<1>9. CASE ~(at > file.size \/ len > file.size - at) /\ len # 0
  <2>1. at < file.size /\ at + len <= file.size
    BY <1>2, <1>9
  <2>2. at \div cluster_bytes \in 0 .. CLUSTERS - 1
    BY <1>1, <2>1, ByteInChain
  <2>3. ~(left' >= CLUSTERS)
    BY <1>2, <1>4, <2>2
  <2>4. pc' = "skip" /\ result' = result
    BY <1>9, <2>3 DEF fat_read
  <2>5. FatTypeOK'
    BY <1>1, <1>2, <1>3, <1>4, <1>5, <2>4 DEF FatTypeOK
  <2>6. InRange'
    BY <1>1, <1>4, <1>9, <2>1 DEF InRange
  <2>7. (offset' \div cluster_bytes) - left' = 0
    BY <1>3, <1>4
  <2>8. Skipping'
    BY <1>1, <1>2, <1>3, <1>4, <2>7 DEF Skipping, cluster_bytes
  <2> QED
    BY <1>1, <1>4, <1>5, <1>6, <2>4, <2>5, <2>6, <2>8 DEF FatInv
<1> QED
  BY <1>7, <1>8, <1>9

\* A turn of the first loop of fat_read passes over one cluster.
LEMMA SkipInv ==
  ASSUME FatInv, Follow, pc = "skip"
  PROVE  FatInv'
<1>1. Chain' = Chain /\ fat' = fat /\ file' = file /\ UNCHANGED readVars /\ opened' = opened
  BY ChainFixed DEF Follow, diskVars
<1>2. /\ FatTypeOK /\ Sound /\ Skipping /\ InRange /\ left # 0 /\ left \in Nat
      /\ file.size \in Nat /\ opened
  BY ChainOfInv DEF FatInv, Follow, FatTypeOK, InRange
<1> DEFINE q == offset \div cluster_bytes
<1>3. q \in 0 .. CLUSTERS - 1 /\ \A k \in 0 .. q : valid_cluster(Chain[k])
  <2>1. offset \in Nat /\ offset < file.size
    BY <1>2 DEF InRange, FatTypeOK
  <2> QED
    BY <1>2, <2>1, ByteInChain
<1>4. left <= q /\ cluster = Chain[q - left]
  BY <1>2 DEF Skipping
<1>5. q = offset \div cluster_bytes
  OBVIOUS
<1> HIDE DEF q
<1>6. q - left \in 0 .. CLUSTERS - 1 /\ q - left \in 0 .. q /\ q - (left - 1) = (q - left) + 1
  BY <1>2, <1>3, <1>4, Geometry
<1>7. valid_cluster(cluster)
  BY <1>3, <1>4, <1>6
<1>8. /\ cluster' = fat[cluster] /\ left' = left - 1
      /\ pc' = pc /\ result' = result
  BY <1>7 DEF Follow
<1>9. cluster' = Chain[q - left'] /\ cluster' \in TableValues
  BY <1>2, <1>4, <1>6, <1>7, <1>8, ChainNext
<1>10. FatTypeOK'
  BY <1>1, <1>2, <1>8, <1>9 DEF FatTypeOK, readVars
<1>11. Skipping'
  <2>1. left' <= q
    BY <1>2, <1>3, <1>4, <1>8
  <2> QED
    BY <1>1, <1>2, <1>5, <1>9, <2>1 DEF Skipping, readVars, cluster_bytes
<1>12. Sound' /\ InRange'
  BY <1>1, <1>2 DEF Sound, Valid, Count, cluster_bytes, END, InRange, readVars
<1> QED
  BY <1>1, <1>2, <1>8, <1>10, <1>11, <1>12 DEF FatInv, readVars

\* Behind that loop the cluster is the one of the offset.
LEMMA SkippedInv ==
  ASSUME FatInv, Skipped
  PROVE  FatInv'
<1>1. /\ Chain' = Chain /\ fat' = fat /\ file' = file /\ UNCHANGED readVars /\ opened' = opened
      /\ pc = "skip" /\ pc' = "copy" /\ left = 0 /\ cluster' = cluster /\ left' = left
      /\ result' = result
  BY ChainFixed DEF Skipped, diskVars
<1>2. FatTypeOK /\ Sound /\ Skipping /\ InRange /\ opened
  BY <1>1 DEF FatInv, InRange
<1>3. offset \div cluster_bytes \in Nat /\ offset \in Nat /\ wanted \in Nat
  BY <1>2, Geometry, Division DEF FatTypeOK
<1>4. Reached = offset /\ (offset \div cluster_bytes) - left = offset \div cluster_bytes
  BY <1>1, <1>2, <1>3 DEF Reached, Skipping
<1>5. Copying
  BY <1>2, <1>4 DEF Copying, Skipping
<1>6. Copying'
  BY <1>1, <1>5 DEF Copying, Reached, readVars, cluster_bytes
<1>7. Sound' /\ InRange' /\ FatTypeOK'
  BY <1>1, <1>2 DEF Sound, Valid, Count, cluster_bytes, END, InRange, readVars, FatTypeOK
<1> QED
  BY <1>1, <1>2, <1>6, <1>7 DEF FatInv, readVars

\* One sector: where its bytes lie, and what is copied next.
LEMMA CopyInv ==
  ASSUME FatInv, CopyStep
  PROVE  FatInv'
<1>1. Chain' = Chain /\ fat' = fat /\ file' = file /\ opened' = opened
  BY ChainFixed DEF CopyStep, diskVars
<1>2. /\ FatTypeOK /\ Sound /\ InRange /\ Copying /\ pc = "copy" /\ opened
      /\ length # 0 /\ length <= wanted /\ Len(out) = wanted - length
      /\ \A k \in 1 .. Len(out) : out[k] = ByteAt(Chain, offset + k - 1)
  BY DEF CopyStep, FatInv, InRange
<1>3. /\ offset \in Nat /\ length \in Nat \ {0} /\ wanted \in Nat /\ within \in Nat
      /\ out \in Seq(Int) /\ file.size \in Nat /\ cluster_bytes \in Nat \ {0}
      /\ offset + wanted <= file.size
  BY <1>2, ChainOfInv, Geometry DEF FatTypeOK, InRange
<1> DEFINE b == Reached
           cb == cluster_bytes
           q == b \div cb
<1>4. b = offset + (wanted - length) /\ b \in Nat /\ b < file.size /\ offset + Len(out) = b
  BY <1>2, <1>3 DEF Reached
<1>5. q \in 0 .. CLUSTERS - 1 /\ valid_cluster(Chain[q])
  <2>1. /\ b \div cluster_bytes \in 0 .. CLUSTERS - 1
        /\ \A k \in 0 .. b \div cluster_bytes : valid_cluster(Chain[k])
    BY <1>2, <1>4, ByteInChain
  <2>2. q = b \div cluster_bytes
    OBVIOUS
  <2> HIDE DEF q, b
  <2>3. q \in 0 .. q
    BY <2>1, <2>2
  <2> QED
    BY <2>1, <2>2, <2>3
<1>6. cluster = Chain[q] /\ within = b % cb /\ within \in 0 .. cb - 1 /\ cluster \in Nat
  <2>1. cluster = Chain[q] /\ within = b % cb
    BY <1>2 DEF Copying
  <2>2. b % cb \in 0 .. cb - 1
    BY <1>3, <1>4, Division
  <2>3. cluster \in Nat
    BY <1>2, Geometry DEF FatTypeOK, TableValues
  <2> QED
    BY <2>1, <2>2, <2>3
<1> DEFINE d == Len(out)
<1>a. cb = cluster_bytes /\ q = b \div cb /\ d = Len(out)
  OBVIOUS
<1>b. /\ cb \in Nat \ {0} /\ b \in Nat /\ q \in Nat /\ d \in Nat /\ offset \in Nat
      /\ length \in Nat /\ wanted \in Nat /\ within \in Nat /\ cluster \in Nat
      /\ CLUSTERS \in Nat
  BY <1>3, <1>4, <1>6, LenProperties, Division, Geometry
<1> HIDE DEF b, q, cb, d
<1>7. PICK n \in 1 .. SECTOR : CopySector(n)
  BY <1>5, <1>6 DEF CopyStep
<1>8. n \in Nat \ {0} /\ n <= length /\ within + n <= cb
  <2>1. SECTOR \in Nat \ {0} /\ sectors_per_cluster \in Nat \ {0} /\ cb = sectors_per_cluster * SECTOR
    BY Geometry DEF cluster_bytes, cb
  <2>2. within % SECTOR \in 0 .. SECTOR - 1
    BY <1>3, <2>1, Division
  <2>3. within + (SECTOR - (within % SECTOR)) <= cb
    BY <1>6, <2>1, SectorInCluster
  <2>4. n = IF SECTOR - (within % SECTOR) > length THEN length ELSE SECTOR - (within % SECTOR)
    BY <1>7 DEF CopySector, CopyLength
  <2> DEFINE rest == SECTOR - (within % SECTOR)
  <2>5. rest \in Nat /\ within + rest <= cb /\ n = IF rest > length THEN length ELSE rest
    BY <2>1, <2>2, <2>3, <2>4
  <2> HIDE DEF rest
  <2> QED
    BY <1>3, <1>7, <2>1, <2>5
<1> DEFINE piece == [k \in 1 .. n |-> Position(cluster, within, k - 1)]
<1>9. /\ out' = out \o piece /\ length' = length - n
      /\ offset' = offset /\ wanted' = wanted /\ pc' = pc /\ result' = result /\ left' = left
      /\ IF within + n = cb /\ length' # 0
         THEN cluster' = fat[cluster] /\ within' = 0
         ELSE within' = within + n /\ cluster' = cluster
  BY <1>7 DEF CopySector, cb
<1>10. piece \in Seq(Int) /\ Len(piece) = n
  <2>1. ASSUME NEW k \in 1 .. n PROVE Position(cluster, within, k - 1) \in Int
    <3>1. k - 1 \in Nat /\ cluster \in Int
      BY <1>6, <1>8
    <3> QED
      BY <1>3, <3>1, PositionIs
  <2>2. piece \in [1 .. n -> Int]
    BY <2>1
  <2> HIDE DEF piece
  <2> QED
    BY <1>8, <2>2
<1>11. ASSUME NEW k \in 1 .. n PROVE piece[k] = ByteAt(Chain, b + (k - 1))
  <2> DEFINE m == k - 1
  <2>1. m \in Nat /\ within + m < cb
    BY <1>b, <1>8
  <2> HIDE DEF m
  <2>2. (b + m) \div cb = q /\ (b + m) % cb = within + m
    <3>1. within = b % cb /\ q = b \div cb /\ b \in Nat /\ cb \in Nat \ {0}
      BY <1>a, <1>b, <1>6
    <3>2. (b % cb) + m < cb
      BY <2>1, <3>1
    <3>3. (b + m) \div cb = b \div cb /\ (b + m) % cb = (b % cb) + m
      BY <2>1, <3>1, <3>2, StepWithin
    <3> QED
      BY <3>1, <3>3
  <2>3. m \in Nat /\ within + m \in Nat /\ cluster \in Int
    BY <1>b, <2>1
  <2>4. Position(cluster, within, m) = (cluster - 2) * cb + within + m
    BY <1>a, <1>b, <2>3, PositionIs
  <2>5. Position(cluster, within + m, 0) = (cluster - 2) * cb + (within + m) + 0
    BY <1>a, <2>3, PositionIs
  <2>6. Position(cluster, within, m) = Position(cluster, within + m, 0)
    <3>1. (cluster - 2) * cb \in Int
      BY <1>b
    <3> QED
      BY <1>b, <2>3, <2>4, <2>5, <3>1
  <2>7. ByteAt(Chain, b + m) = Position(cluster, within + m, 0)
    BY <1>a, <1>6, <2>2 DEF ByteAt
  <2> QED
    BY <2>6, <2>7 DEF m
<1> HIDE DEF piece
<1>12. /\ out' \in Seq(Int) /\ Len(out') = Len(out) + n
       /\ \A k \in 1 .. Len(out') : out'[k] = IF k <= Len(out) THEN out[k] ELSE piece[k - Len(out)]
  BY <1>3, <1>9, <1>10, ConcatProperties
<1>13. ASSUME NEW k \in 1 .. Len(out') PROVE out'[k] = ByteAt(Chain, offset + k - 1)
  <2>1. CASE k <= Len(out)
    <3>1. k \in 1 .. Len(out)
      BY <2>1
    <3> QED
      BY <1>2, <1>12, <2>1, <3>1
  <2>2. CASE ~(k <= Len(out))
    <3>1. k \in 1 .. d + n /\ ~(k <= d) /\ offset + d = b /\ n \in Nat
      BY <1>a, <1>4, <1>8, <1>12, <2>2
    <3>2. k - d \in 1 .. n /\ b + ((k - d) - 1) = offset + k - 1
      BY <1>b, <3>1
    <3>3. k - Len(out) \in 1 .. n /\ b + ((k - Len(out)) - 1) = offset + k - 1
      BY <1>a, <3>2
    <3> QED
      BY <1>11, <1>12, <2>2, <3>3
  <2> QED
    BY <2>1, <2>2
<1>14. length' \in Nat /\ length' <= wanted' /\ Len(out') = wanted' - length'
  BY <1>2, <1>b, <1>8, <1>9, <1>12
<1>15. Reached' = b + n
  <2>1. Reached' = offset + (wanted - (length - n))
    BY <1>9 DEF Reached
  <2> QED
    BY <1>b, <1>4, <1>8, <2>1
<1>16. cb' = cb
  BY DEF cb, cluster_bytes
<1>17. cluster' \in TableValues /\ within' \in Nat
  <2>1. fat[Chain[q]] \in TableValues
    BY <1>2, <1>5, ChainNext
  <2> QED
    BY <1>2, <1>b, <1>6, <1>8, <1>9, <2>1 DEF FatTypeOK
<1>18. ASSUME length' # 0
       PROVE  cluster' = Chain[(b + n) \div cb] /\ within' = (b + n) % cb
  <2>1. within = b % cb /\ q = b \div cb /\ b \in Nat /\ cb \in Nat \ {0} /\ n \in Nat
    BY <1>a, <1>b, <1>6, <1>8
  <2>2. CASE within + n = cb
    <3>1. (b + n) \div cb = q + 1 /\ (b + n) % cb = 0
      <4>1. (b % cb) + n = cb
        BY <2>1, <2>2
      <4>2. (b + n) \div cb = (b \div cb) + 1 /\ (b + n) % cb = 0
        BY <2>1, <4>1, StepToNext
      <4> QED
        BY <2>1, <4>2
    <3>2. fat[Chain[q]] = Chain[q + 1]
      BY <1>2, <1>5, ChainNext
    <3> QED
      BY <1>6, <1>9, <1>18, <2>2, <3>1, <3>2
  <2>3. CASE within + n # cb
    <3>1. within + n < cb
      BY <1>b, <1>8, <2>3
    <3>2. (b + n) \div cb = q /\ (b + n) % cb = within + n
      <4>1. (b % cb) + n < cb
        BY <2>1, <3>1
      <4>2. (b + n) \div cb = b \div cb /\ (b + n) % cb = (b % cb) + n
        BY <2>1, <4>1, StepWithin
      <4> QED
        BY <2>1, <4>2
    <3> QED
      BY <1>6, <1>9, <2>3, <3>2
  <2> QED
    BY <2>2, <2>3
<1>19. length' # 0 => Copying'
  BY <1>1, <1>15, <1>16, <1>18 DEF Copying, cb
<1>20. FatTypeOK'
  BY <1>1, <1>2, <1>9, <1>12, <1>14, <1>17 DEF FatTypeOK
<1>21. Sound' /\ InRange'
  BY <1>1, <1>2, <1>9 DEF Sound, Valid, Count, cluster_bytes, END, InRange
<1>22. \A k \in 1 .. Len(out') : out'[k] = ByteAt(Chain', offset' + k - 1)
  BY <1>1, <1>9, <1>13
<1> QED
  BY <1>1, <1>2, <1>9, <1>14, <1>19, <1>20, <1>21, <1>22 DEF FatInv

\* The calls that return from a loop: nothing was changed by the last turn.
LEMMA ReturnInv ==
  ASSUME FatInv, Copied \/ DiskError
  PROVE  FatInv'
<1>1. /\ Chain' = Chain /\ fat' = fat /\ file' = file /\ opened' = opened
      /\ UNCHANGED <<cluster, left, readVars>> /\ pc' = "idle"
      /\ result' \in {"ok", "disk"} /\ (result' = "ok" => length = 0)
  BY ChainFixed DEF Copied, DiskError, Return, diskVars
<1>2. opened => Sound'
  BY <1>1 DEF FatInv, Sound, Valid, Count, cluster_bytes, END
<1>3. FatTypeOK'
  BY <1>1 DEF FatInv, FatTypeOK, readVars
<1> QED
  BY <1>1, <1>2, <1>3 DEF FatInv, readVars

-----------------------------------------------------------------------------
\* Every step keeps the invariant.
LEMMA FatInvNext == FatInv /\ [Next]_vars => FatInv'
<1> SUFFICES ASSUME FatInv, [Next]_vars PROVE FatInv'
  OBVIOUS
<1>1. CASE fat_open
  BY <1>1, OpenInv
<1>2. ASSUME NEW at \in 0 .. file.size + 1, NEW len \in 0 .. file.size + 1, fat_read(at, len)
      PROVE  FatInv'
  <2>1. file.size \in Nat
    BY ChainOfInv DEF FatInv
  <2>2. at \in Nat /\ len \in Nat
    BY <2>1
  <2> QED
    BY <1>2, <2>2, ReadInv
<1>3. CASE Follow
  BY <1>3, ValidateInv, SkipInv DEF Follow
<1>4. CASE EndOfChain
  BY <1>4, EndOfChainInv
<1>5. CASE Skipped
  BY <1>5, SkippedInv
<1>6. CASE CopyStep
  BY <1>6, CopyInv
<1>7. CASE Copied \/ DiskError
  BY <1>7, ReturnInv
<1>8. CASE UNCHANGED vars
  <2>1. Chain' = Chain
    BY <1>8, ChainFixed DEF vars
  <2> QED
    BY <1>8, <2>1 DEF vars, diskVars, readVars, FatInv, FatTypeOK, Sound, Valid, Validating,
         InRange, Skipping, Copying, Reached, Count, cluster_bytes, END
<1> QED
  BY <1>1, <1>2, <1>3, <1>4, <1>5, <1>6, <1>7, <1>8 DEF Next, LoopStep

\* The inductive invariant of fat_open and fat_read.
THEOREM FatInvariance == Spec => []FatInv
BY FatInvInit, FatInvNext, PTL DEF Spec

\* Two places of a chain with the same cluster go on alike, so the chain of an
\* accepted file, which ends, has no such places.
LEMMA NoCycle ==
  ASSUME FatInv, opened, file.size # 0,
         NEW i \in 0 .. Count(file.size) - 1, NEW j \in 0 .. Count(file.size) - 1, i < j
  PROVE  Chain[i] # Chain[j]
<1> DEFINE n == Count(file.size)
<1>1. /\ n \in Nat \ {0} /\ n <= CLUSTERS /\ CLUSTERS \in Nat /\ FatTypeOK
      /\ \A k \in 0 .. n - 1 : valid_cluster(Chain[k])
      /\ Chain[n] = END
  BY ChainOfInv, CountIs, Geometry DEF FatInv, Sound, Valid
<1> HIDE DEF n
<1> SUFFICES ASSUME Chain[i] = Chain[j] PROVE FALSE
  OBVIOUS
<1> DEFINE T == {k \in 0 .. n - j : Chain[i + k] # Chain[j + k]}
<1>2. i \in 0 .. n - 1 /\ j \in 0 .. n - 1
  BY DEF n
<1>3. T = {}
  <2> SUFFICES ASSUME T # {} PROVE FALSE
    OBVIOUS
  <2>1. T \subseteq Nat
    OBVIOUS
  <2>2. PICK k \in T : \A m \in T : k <= m
    <3> HIDE DEF T
    <3> QED
      BY <2>1, LeastElement
  <2>3. k \in 0 .. n - j /\ Chain[i + k] # Chain[j + k]
    BY <2>2
  <2>4. k # 0
    BY <1>2, <2>3
  <2>5. k - 1 \in 0 .. n - j /\ k - 1 \notin T
    <3> HIDE DEF T
    <3> QED
      BY <1>1, <1>2, <2>2, <2>3, <2>4
  <2>6. Chain[i + (k - 1)] = Chain[j + (k - 1)]
    BY <2>5
  <2>7. /\ i + (k - 1) \in 0 .. n - 1 /\ j + (k - 1) \in 0 .. n - 1
        /\ (i + (k - 1)) + 1 = i + k /\ (j + (k - 1)) + 1 = j + k
    BY <1>1, <1>2, <2>3, <2>4
  <2>8. i + (k - 1) \in 0 .. CLUSTERS - 1 /\ j + (k - 1) \in 0 .. CLUSTERS - 1
    BY <1>1, <2>7
  <2>9. Chain[i + k] = fat[Chain[i + (k - 1)]] /\ Chain[j + k] = fat[Chain[j + (k - 1)]]
    BY <1>1, <2>7, <2>8, ChainNext
  <2> QED
    BY <2>3, <2>6, <2>9
<1>4. n - j \in 0 .. n - j /\ i + (n - j) \in 0 .. n - 1 /\ j + (n - j) = n
  BY <1>1, <1>2
<1>5. Chain[i + (n - j)] = Chain[n]
  BY <1>3, <1>4
<1>6. ~valid_cluster(END)
  BY <1>1 DEF valid_cluster, END
<1> QED
  BY <1>1, <1>4, <1>5, <1>6

\* "Validate the whole chain, including cycles and early EOF" (fat.c): for
\* every table on the disk, a file that fat_open accepts has the clusters its
\* size needs, all different, and its chain ends behind them.
THEOREM AcceptedFilesAreSound == Spec => []OpenedIsSound
<1>1. FatInv => OpenedIsSound
  <2> SUFFICES ASSUME FatInv, opened, file.size # 0
               PROVE  /\ \A i \in 0 .. Count(file.size) - 1 : valid_cluster(Chain[i])
                      /\ \A i, j \in 0 .. Count(file.size) - 1 : i # j => Chain[i] # Chain[j]
                      /\ Chain[Count(file.size)] = END
    BY DEF OpenedIsSound
  <2>1. Count(file.size) \in Nat
    BY ChainOfInv, CountIs DEF FatInv
  <2>2. \A i, j \in 0 .. Count(file.size) - 1 : i # j => i < j \/ j < i
    BY <2>1
  <2>3. \A i, j \in 0 .. Count(file.size) - 1 : i # j => Chain[i] # Chain[j]
    BY <2>2, NoCycle
  <2> QED
    BY <2>3 DEF FatInv, Sound, Valid
<1> QED
  BY <1>1, FatInvariance, PTL

\* fat_read copies the bytes of the file, from the clusters they belong to, and
\* all of the range when it returns true: for every geometry, table and range.
THEOREM ReadsTheFile == Spec => []ReadsFile
<1>1. FatInv => ReadsFile
  <2> SUFFICES ASSUME FatInv PROVE ReadsFile
    OBVIOUS
  <2>1. pc = "idle" /\ opened /\ result = "ok" => Len(out) = wanted
    BY DEF FatInv, FatTypeOK
  <2> QED
    BY <2>1 DEF FatInv, ReadsFile, ByteAt
<1> QED
  BY <1>1, FatInvariance, PTL

\* After fat_open accepted a file, no fat_read finds its chain broken.
THEOREM ReadsAreNoSurprise == Spec => []NoSurprises
<1>1. FatInv => NoSurprises
  BY DEF FatInv, NoSurprises
<1> QED
  BY <1>1, FatInvariance, PTL
=============================================================================
