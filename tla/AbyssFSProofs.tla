--------------------------- MODULE AbyssFSProofs ---------------------------
(***************************************************************************)
(* For every geometry, every set of names, paths and buffers: the block    *)
(* bitmap, the free block counter and the inode table of abyssfs.c agree.  *)
(*                                                                         *)
(* The agreement is not inductive by itself.  abyssfs_unlink frees the     *)
(* inode and the block of whatever the root directory's entry leads to,    *)
(* and abyssfs_write gives a block to whatever file the caller holds, so   *)
(* the invariant also says that the entries lead to different inodes that  *)
(* are in use (RootLinks) and that the held file is (HeldFileLive).        *)
(***************************************************************************)
EXTENDS AbyssFS, FiniteSetTheorems, SequenceTheorems, TLAPS

IInv ==
  /\ TypeOK
  /\ BlockOwnership
  /\ FreeCount
  /\ RootLinks
  /\ HeldFileLive

-----------------------------------------------------------------------------
(* Facts about the operators.                                              *)

\* The geometry: the root inode and the root's block exist.
LEMMA Geometry ==
  /\ RootInode \in Inodes /\ 2 \in Inodes /\ 0 \in Inodes
  /\ RootBlock \in Blocks /\ RootBlock \in DataBlocks /\ RootBlock # 0
  /\ 0 \in Blocks /\ 0 \notin DataBlocks
  /\ DataBlocks \subseteq Blocks
  /\ 0 .. INODE_BLOCKS \subseteq Blocks
  /\ (0 .. INODE_BLOCKS) \cap DataBlocks = {}
  /\ Blocks \subseteq Nat
  BY GeometryAssumption
     DEF Inodes, Blocks, DataBlocks, RootInode, RootBlock, first_data_block

\* RemoveAt closes the gap.
LEMMA RemoveAtProperties ==
  ASSUME NEW S, NEW s \in Seq(S), NEW k \in 1 .. Len(s)
  PROVE  /\ RemoveAt(s, k) \in Seq(S)
         /\ Len(RemoveAt(s, k)) = Len(s) - 1
         /\ \A j \in 1 .. Len(s) - 1 : RemoveAt(s, k)[j] = IF j < k THEN s[j] ELSE s[j + 1]
<1> DEFINE u == SubSeq(s, 1, k - 1)
           v == SubSeq(s, k + 1, Len(s))
<1>0. Len(s) \in Nat /\ k \in Nat /\ 1 <= k /\ k <= Len(s)
  OBVIOUS
<1>1. u \in Seq(S) /\ Len(u) = k - 1 /\ \A j \in 1 .. k - 1 : u[j] = s[j]
  <2>1. \A j \in 1 .. k - 1 : s[j] \in S
    BY <1>0, ElementOfSeq
  <2>2. k - 1 \in Int /\ 1 \in Int
    BY <1>0
  <2>3. /\ u \in Seq(S)
        /\ Len(u) = IF 1 <= k - 1 THEN (k - 1) - 1 + 1 ELSE 0
        /\ \A j \in 1 .. (k - 1) - 1 + 1 : u[j] = s[1 + j - 1]
    BY <2>1, <2>2, SubSeqProperties
  <2>4. (k - 1) - 1 + 1 = k - 1 /\ \A j \in 1 .. k - 1 : 1 + j - 1 = j
    BY <1>0
  <2> HIDE DEF u
  <2>5. Len(u) = k - 1
    BY <1>0, <2>3
  <2>6. \A j \in 1 .. k - 1 : u[j] = s[j]
    BY <2>3, <2>4
  <2> QED
    BY <2>3, <2>5, <2>6
<1>2. v \in Seq(S) /\ Len(v) = Len(s) - k /\ \A j \in 1 .. Len(s) - k : v[j] = s[k + j]
  <2>1. \A j \in k + 1 .. Len(s) : s[j] \in S
    BY <1>0, ElementOfSeq
  <2>2. k + 1 \in Int /\ Len(s) \in Int
    BY <1>0
  <2>3. /\ v \in Seq(S)
        /\ Len(v) = IF k + 1 <= Len(s) THEN Len(s) - (k + 1) + 1 ELSE 0
        /\ \A j \in 1 .. Len(s) - (k + 1) + 1 : v[j] = s[(k + 1) + j - 1]
    BY <2>1, <2>2, SubSeqProperties
  <2>4. Len(s) - (k + 1) + 1 = Len(s) - k /\ \A j \in 1 .. Len(s) - k : (k + 1) + j - 1 = k + j
    BY <1>0
  <2> HIDE DEF v
  <2>5. Len(v) = Len(s) - k
    BY <1>0, <2>3
  <2>6. \A j \in 1 .. Len(s) - k : v[j] = s[k + j]
    BY <2>3, <2>4
  <2> QED
    BY <2>3, <2>5, <2>6
<1>3. RemoveAt(s, k) = u \o v
  BY DEF RemoveAt
<1> HIDE DEF u, v
<1>4. /\ u \o v \in Seq(S)
      /\ Len(u \o v) = Len(u) + Len(v)
      /\ \A i \in 1 .. Len(u) + Len(v) : (u \o v)[i] = IF i <= Len(u) THEN u[i] ELSE v[i - Len(u)]
  BY <1>1, <1>2, ConcatProperties
<1>5. Len(u) + Len(v) = Len(s) - 1
  BY <1>0, <1>1, <1>2
<1>6. ASSUME NEW j \in 1 .. Len(s) - 1
      PROVE  RemoveAt(s, k)[j] = IF j < k THEN s[j] ELSE s[j + 1]
  <2>1. (u \o v)[j] = IF j <= Len(u) THEN u[j] ELSE v[j - Len(u)]
    BY <1>4, <1>5
  <2>2. CASE j < k
    <3>1. j \in 1 .. k - 1 /\ j <= Len(u)
      BY <1>0, <1>1, <2>2
    <3> QED
      BY <1>1, <1>3, <2>1, <2>2, <3>1
  <2>3. CASE ~(j < k)
    <3>1. /\ j - Len(u) \in 1 .. Len(s) - k /\ k + (j - Len(u)) = j + 1
          /\ ~(j <= Len(u))
      BY <1>0, <1>1, <2>3
    <3> QED
      BY <1>2, <1>3, <2>1, <2>3, <3>1
  <2> QED
    BY <2>2, <2>3
<1> QED
  BY <1>3, <1>4, <1>5, <1>6

\* Appended changes one block at most, and there it adds the entry at the end.
LEMMA AppendedProperties ==
  ASSUME NEW d \in [Blocks -> Seq(Entry)], NEW b, NEW n \in Names, NEW i \in Inodes
  PROVE  /\ Appended(d, b, n, i) \in [Blocks -> Seq(Entry)]
         /\ \/ Appended(d, b, n, i)[RootBlock] = d[RootBlock]
            \/ Appended(d, b, n, i)[RootBlock]
                 = Append(d[RootBlock], [name |-> n, inode |-> i])
<1>1. [name |-> n, inode |-> i] \in Entry
  BY DEF Entry
<1> DEFINE e == [name |-> n, inode |-> i]
<1> HIDE DEF e
<1>2. \A s \in Seq(Entry) : Append(s, e) \in Seq(Entry)
  BY <1>1, AppendProperties DEF e
<1>3. [d EXCEPT ![b] = Append(@, e)] \in [Blocks -> Seq(Entry)]
  BY <1>2
<1>4. \/ [d EXCEPT ![b] = Append(@, e)][RootBlock] = d[RootBlock]
      \/ [d EXCEPT ![b] = Append(@, e)][RootBlock] = Append(d[RootBlock], e)
  BY Geometry
<1> QED
  BY <1>3, <1>4 DEF Appended, e

\* alloc_inode returns an inode that is not in use.
LEMMA AllocInode ==
  ASSUME NEW i \in Inodes, alloc_inode(i), i # 0
  PROVE  mode[i] = "free" /\ i \notin Live
  BY DEF alloc_inode, FreeInodes, Live

\* A path has a last component, and it is a name.
LEMMA LastIsName == ASSUME NEW path \in Paths PROVE Last(path) \in Names
<1>1. path \in Seq(Names) /\ path # <<>>
  BY InputAssumption
<1> QED
  BY <1>1 DEF Last

\* There are finitely many free data blocks.
LEMMA FreeFinite ==
  /\ IsFiniteSet(DataBlocks \ block_bitmap)
  /\ Cardinality(DataBlocks \ block_bitmap) \in Nat
<1>1. IsFiniteSet(DataBlocks)
  <2>1. first_data_block \in Int /\ TOTAL_BLOCKS - 1 \in Int
    BY GeometryAssumption DEF first_data_block
  <2> QED
    BY <2>1, FS_Interval DEF DataBlocks
<1>2. DataBlocks \ block_bitmap \in SUBSET DataBlocks
  OBVIOUS
<1>3. IsFiniteSet(DataBlocks \ block_bitmap)
  BY <1>1, <1>2, FS_Subset
<1> QED
  BY <1>3, FS_CardinalityType

\* alloc_block keeps the counter in step with the bitmap, and what it returns is
\* 0 or a data block whose bit was clear.
LEMMA AllocBlock ==
  ASSUME TypeOK, FreeCount, NEW b \in Blocks, alloc_block(b)
  PROVE  /\ FreeCount'
         /\ free_blocks' \in Int
         /\ \/ b = 0 /\ block_bitmap' = block_bitmap
            \/ /\ b # 0 /\ b \in DataBlocks \ block_bitmap
               /\ block_bitmap' = block_bitmap \cup {b}
<1>1. CASE b = 0 /\ UNCHANGED <<block_bitmap, free_blocks>>
  BY <1>1 DEF FreeCount, TypeOK
<1>2. CASE /\ b \in DataBlocks \ block_bitmap
           /\ block_bitmap' = block_bitmap \cup {b}
           /\ free_blocks' = free_blocks - 1
  <2>1. DataBlocks \ block_bitmap' = (DataBlocks \ block_bitmap) \ {b}
    BY <1>2
  <2>2. Cardinality((DataBlocks \ block_bitmap) \ {b})
          = Cardinality(DataBlocks \ block_bitmap) - 1
    BY <1>2, FreeFinite, FS_RemoveElement
  <2>3. FreeCount'
    <3>1. Cardinality(DataBlocks \ block_bitmap') = Cardinality(DataBlocks \ block_bitmap) - 1
      BY <2>1, <2>2
    <3>2. \A c \in Nat, f \in Int : f = c + 1 => f - 1 = (c - 1) + 1
      OBVIOUS
    <3> QED
      BY <1>2, <3>1, <3>2, FreeFinite DEF FreeCount, TypeOK
  <2>4. free_blocks' \in Int /\ b # 0
    BY <1>2, Geometry DEF TypeOK
  <2> QED
    BY <1>2, <2>3, <2>4
<1> QED
  BY <1>1, <1>2 DEF alloc_block

\* free_block keeps the counter in step as long as the bit was set.
LEMMA FreeBlock ==
  ASSUME TypeOK, FreeCount, NEW b \in DataBlocks \cap block_bitmap, free_block(b)
  PROVE  FreeCount' /\ free_blocks' \in Int /\ block_bitmap' = block_bitmap \ {b}
<1>1. DataBlocks \ block_bitmap' = (DataBlocks \ block_bitmap) \cup {b}
  BY DEF free_block
<1>2. Cardinality((DataBlocks \ block_bitmap) \cup {b})
        = Cardinality(DataBlocks \ block_bitmap) + 1
  BY FreeFinite, FS_AddElement
<1>3. Cardinality(DataBlocks \ block_bitmap') = Cardinality(DataBlocks \ block_bitmap) + 1
  BY <1>1, <1>2
<1>4. FreeCount'
  BY <1>3, FreeFinite DEF FreeCount, free_block, TypeOK
<1> QED
  BY <1>4 DEF free_block, TypeOK

\* While no fault has happened, the root is in use and has its block.
LEMMA RootIsLive ==
  ASSUME TypeOK, RootLinks, fault = "none"
  PROVE  RootInode \in Live /\ blocks[RootInode] = RootBlock
<1>1. Len(dir[RootBlock]) \in Nat /\ DOMAIN dir[RootBlock] = 1 .. Len(dir[RootBlock])
  BY Geometry DEF TypeOK
<1>2. 1 \in DOMAIN dir[RootBlock]
  BY <1>1 DEF RootLinks
<1> QED
  BY <1>2 DEF RootLinks

\* RootLinks survives a new entry for an inode that was not in use.
LEMMA RootLinksAdd ==
  ASSUME TypeOK, RootLinks, fault = "none", TypeOK',
         NEW i \in Inodes \ {0}, i \notin Live,
         Live' = Live \cup {i}, blocks'[RootInode] = blocks[RootInode],
         NEW n \in Names,
         \/ dir'[RootBlock] = dir[RootBlock]
         \/ dir'[RootBlock] = Append(dir[RootBlock], [name |-> n, inode |-> i])
  PROVE  RootLinks'
<1> DEFINE root == dir[RootBlock]
           new  == dir'[RootBlock]
<1>1. /\ root \in Seq(Entry) /\ Len(root) \in Nat /\ Len(root) >= 2
      /\ blocks'[RootInode] = RootBlock
      /\ root[1].inode = RootInode /\ root[2].inode = RootInode
      /\ \A k \in 1 .. Len(root) : root[k].inode \in Live
      /\ \A k, l \in 1 .. Len(root) : root[k].inode = root[l].inode => k = l \/ {k, l} = {1, 2}
  <2>1. root \in Seq(Entry) /\ Len(root) \in Nat /\ DOMAIN root = 1 .. Len(root)
    BY Geometry DEF TypeOK
  <2> HIDE DEF root
  <2> QED
    BY <2>1 DEF RootLinks, root
<1>2. [name |-> n, inode |-> i] \in Entry
  BY DEF Entry
<1>3. CASE new = root
  <2>1. DOMAIN root = 1 .. Len(root)
    BY <1>1
  <2> HIDE DEF root, new
  <2>2. /\ \A k \in DOMAIN new : new[k].inode \in Live'
        /\ \A k, l \in DOMAIN new : new[k].inode = new[l].inode => k = l \/ {k, l} = {1, 2}
    BY <1>1, <1>3, <2>1
  <2>3. Len(new) >= 2 /\ new[1].inode = RootInode /\ new[2].inode = RootInode
    BY <1>1, <1>3
  <2> QED
    BY <1>1, <2>2, <2>3 DEF RootLinks, new
<1>4. CASE new = Append(root, [name |-> n, inode |-> i])
  <2>1. /\ new \in Seq(Entry) /\ Len(new) = Len(root) + 1
        /\ \A k \in 1 .. Len(root) : new[k] = root[k]
        /\ new[Len(root) + 1].inode = i
    BY <1>1, <1>2, <1>4, AppendProperties
  <2> HIDE DEF new, root
  <2>2. DOMAIN new = 1 .. Len(root) + 1 /\ 1 \in 1 .. Len(root) /\ 2 \in 1 .. Len(root)
    BY <1>1, <2>1
  <2>3. \A k \in DOMAIN new : new[k].inode \in Live'
    BY <1>1, <2>1, <2>2
  <2>4. ASSUME NEW k \in DOMAIN new, NEW l \in DOMAIN new, new[k].inode = new[l].inode
        PROVE  k = l \/ {k, l} = {1, 2}
    <3>1. CASE k \in 1 .. Len(root) /\ l \in 1 .. Len(root)
      BY <1>1, <2>1, <2>4, <3>1
    <3>2. CASE k = Len(root) + 1 \/ l = Len(root) + 1
      BY <1>1, <2>1, <2>2, <2>4, <3>2
    <3>3. \A m \in Nat : \A j \in 1 .. m + 1 : j \in 1 .. m \/ j = m + 1
      OBVIOUS
    <3> QED
      BY <1>1, <2>2, <3>1, <3>2, <3>3
  <2>5. Len(new) >= 2 /\ new[1].inode = RootInode /\ new[2].inode = RootInode
    BY <1>1, <2>1, <2>2
  <2> QED
    BY <1>1, <2>3, <2>4, <2>5 DEF RootLinks, new
<1> QED
  BY <1>3, <1>4

-----------------------------------------------------------------------------
(* How the owners of blocks change.                                        *)

\* No inode gains or loses a block.
LEMMA OwnersKept ==
  ASSUME BlockOwnership, Owners' = Owners,
         \A j \in Owners : blocks'[j] = blocks[j],
         block_bitmap' = block_bitmap
  PROVE  BlockOwnership'
  BY DEF BlockOwnership

\* Inode i gains a block that nobody had.
LEMMA OwnersAdd ==
  ASSUME BlockOwnership, NEW i, i \notin Owners, Owners' = Owners \cup {i},
         \A j \in Owners : blocks'[j] = blocks[j],
         NEW b \in DataBlocks \ block_bitmap, blocks'[i] = b,
         block_bitmap' = block_bitmap \cup {b}
  PROVE  BlockOwnership'
<1>1. \A j \in Owners : blocks[j] \in DataBlocks \cap block_bitmap
  BY DEF BlockOwnership
<1>2. (0 .. INODE_BLOCKS) \subseteq block_bitmap'
  BY DEF BlockOwnership
<1>3. \A j \in Owners' : blocks'[j] \in DataBlocks
  BY <1>1
<1>4. \A j, k \in Owners' : blocks'[j] = blocks'[k] => j = k
  BY <1>1 DEF BlockOwnership
<1>5. block_bitmap' \cap DataBlocks = {blocks'[j] : j \in Owners'}
  <2>1. block_bitmap \cap DataBlocks = {blocks[j] : j \in Owners}
    BY DEF BlockOwnership
  <2>2. ASSUME NEW c \in block_bitmap' \cap DataBlocks PROVE \E j \in Owners' : c = blocks'[j]
    BY <2>1
  <2>3. ASSUME NEW j \in Owners' PROVE blocks'[j] \in block_bitmap' \cap DataBlocks
    BY <1>1
  <2> QED
    BY <2>2, <2>3
<1> QED
  BY <1>2, <1>3, <1>4, <1>5 DEF BlockOwnership

\* Inode i loses its block.
LEMMA OwnersDrop ==
  ASSUME BlockOwnership, NEW i \in Owners, Owners' = Owners \ {i},
         blocks' = blocks, block_bitmap' = block_bitmap \ {blocks[i]}
  PROVE  BlockOwnership'
<1>1. \A j \in Owners : blocks[j] \in DataBlocks \cap block_bitmap
  BY DEF BlockOwnership
<1>2. (0 .. INODE_BLOCKS) \subseteq block_bitmap'
  BY <1>1, Geometry DEF BlockOwnership
<1>3. \A j, k \in Owners' : blocks'[j] = blocks'[k] => j = k
  BY DEF BlockOwnership
<1>4. block_bitmap' \cap DataBlocks = {blocks'[j] : j \in Owners'}
  <2>1. block_bitmap \cap DataBlocks = {blocks[j] : j \in Owners}
    BY DEF BlockOwnership
  <2>2. ASSUME NEW c \in block_bitmap' \cap DataBlocks PROVE \E j \in Owners' : c = blocks'[j]
    BY <2>1
  <2>3. ASSUME NEW j \in Owners' PROVE blocks'[j] \in block_bitmap' \cap DataBlocks
    BY <1>1 DEF BlockOwnership
  <2> QED
    BY <2>2, <2>3
<1> QED
  BY <1>1, <1>2, <1>3, <1>4 DEF BlockOwnership

-----------------------------------------------------------------------------
(* One lemma for each operation.                                           *)

\* The state that vfs_init leaves satisfies the invariant.
LEMMA InitIInv == Init => IInv
<1> SUFFICES ASSUME Init PROVE IInv
  OBVIOUS
<1> USE Geometry
<1>1. /\ RootEntries \in Seq(Entry) /\ Len(RootEntries) = 3
      /\ RootEntries[1].inode = RootInode /\ RootEntries[2].inode = RootInode
      /\ RootEntries[3].inode = 2
  BY InputAssumption DEF RootEntries, Entry
<1>2. TypeOK
  <2>1. dir \in [Blocks -> Seq(Entry)]
    BY <1>1 DEF Init
  <2>2. data \in [Blocks -> [Units -> Int]]
    BY DEF Init, DIRBYTES
  <2>3. free_blocks \in Int /\ block_bitmap \subseteq Blocks
    BY GeometryAssumption DEF Init, Blocks, RootBlock
  <2>4. size \in [Inodes -> Nat]
    BY GeometryAssumption DEF Init
  <2> QED
    BY <2>1, <2>2, <2>3, <2>4 DEF Init, TypeOK, NONE, Faults
<1>3. Live = {RootInode, 2} /\ Owners = {RootInode} /\ blocks[RootInode] = RootBlock
  BY DEF Init, Live, Owners, RootInode
<1>4. block_bitmap \cap DataBlocks = {RootBlock} /\ 0 .. INODE_BLOCKS \subseteq block_bitmap
  BY GeometryAssumption DEF Init, DataBlocks, RootBlock, first_data_block
<1>5. BlockOwnership
  BY <1>3, <1>4 DEF BlockOwnership
<1>6. FreeCount
  <2>1. DataBlocks \ block_bitmap = RootBlock + 1 .. TOTAL_BLOCKS - 1
    BY GeometryAssumption DEF Init, DataBlocks, RootBlock, first_data_block
  <2>2. RootBlock + 1 \in Int /\ TOTAL_BLOCKS - 1 \in Int
    BY GeometryAssumption DEF RootBlock
  <2>3. Cardinality(RootBlock + 1 .. TOTAL_BLOCKS - 1)
          = IF RootBlock + 1 > TOTAL_BLOCKS - 1 THEN 0 ELSE (TOTAL_BLOCKS - 1) - (RootBlock + 1) + 1
    BY <2>2, FS_Interval
  <2>4. free_blocks = (IF RootBlock + 1 > TOTAL_BLOCKS - 1 THEN 0
                       ELSE (TOTAL_BLOCKS - 1) - (RootBlock + 1) + 1) + 1
    BY GeometryAssumption DEF Init, RootBlock
  <2> QED
    BY <2>1, <2>3, <2>4 DEF FreeCount
<1>7. RootLinks
  <2>1. dir[RootBlock] = RootEntries /\ DOMAIN RootEntries = {1, 2, 3}
    BY <1>1 DEF Init
  <2>2. \A k \in {1, 2, 3} : RootEntries[k].inode \in Live
    BY <1>1, <1>3
  <2>3. \A k, l \in {1, 2, 3} : RootEntries[k].inode = RootEntries[l].inode
                               => k = l \/ {k, l} = {1, 2}
    BY <1>1 DEF RootInode
  <2>4. /\ Len(dir[RootBlock]) >= 2
        /\ dir[RootBlock][1].inode = RootInode /\ dir[RootBlock][2].inode = RootInode
        /\ \A k \in DOMAIN dir[RootBlock] : dir[RootBlock][k].inode \in Live
        /\ \A k, l \in DOMAIN dir[RootBlock] :
             dir[RootBlock][k].inode = dir[RootBlock][l].inode => k = l \/ {k, l} = {1, 2}
    <3>1. Len(dir[RootBlock]) >= 2
      <4>1. 3 >= 2
        OBVIOUS
      <4> QED
        BY <1>1, <2>1, <4>1, Zenon
    <3>2. dir[RootBlock][1].inode = RootInode /\ dir[RootBlock][2].inode = RootInode
      BY <1>1, <2>1
    <3>3. \A k \in DOMAIN dir[RootBlock] : dir[RootBlock][k].inode \in Live
      BY <2>1, <2>2, Zenon
    <3>4. \A k, l \in DOMAIN dir[RootBlock] :
            dir[RootBlock][k].inode = dir[RootBlock][l].inode => k = l \/ {k, l} = {1, 2}
      <4> SUFFICES ASSUME NEW k \in DOMAIN dir[RootBlock], NEW l \in DOMAIN dir[RootBlock],
                          dir[RootBlock][k].inode = dir[RootBlock][l].inode
                   PROVE  k = l \/ {k, l} = {1, 2}
        BY Zenon
      <4>1. k \in {1, 2, 3} /\ l \in {1, 2, 3}
        BY <2>1, Zenon
      <4>2. RootEntries[k].inode = RootEntries[l].inode
        BY <2>1, Zenon
      <4> QED
        BY <2>3, <4>1, <4>2, Zenon
    <3> QED
      BY <3>1, <3>2, <3>3, <3>4, Zenon
  <2> QED
    BY <1>3, <2>4, Zenon DEF RootLinks
<1>8. HeldFileLive
  BY DEF Init, HeldFileLive, NONE
<1> QED
  BY <1>2, <1>5, <1>6, <1>7, <1>8 DEF IInv

\* An operation that changes nothing but its results and the caller's file.
LEMMA IdleIInv ==
  ASSUME IInv, UNCHANGED <<mode, size, blocks, block_bitmap, free_blocks, dir, data>>,
         ret' \in Int, fault' \in Faults, fault' = "none" => fault = "none",
         file' \in {NONE, 0, file}
  PROVE  IInv'
<1>1. TypeOK'
  BY Geometry DEF IInv, TypeOK
<1>2. Live' = Live /\ Owners' = Owners
  BY DEF Live, Owners
<1>3. HeldFileLive'
  BY <1>2 DEF IInv, HeldFileLive, NONE
<1>4. BlockOwnership' /\ FreeCount'
  BY <1>2 DEF IInv, BlockOwnership, FreeCount
<1>5. RootLinks'
  BY <1>2 DEF IInv, RootLinks
<1> QED
  BY <1>1, <1>3, <1>4, <1>5 DEF IInv

\* abyssfs_create links a fresh inode, or leaves it without an entry.
LEMMA CreateIInv ==
  ASSUME IInv, NEW path \in Paths, NEW cwd \in Cwds, NEW mem \in BOOLEAN,
         abyssfs_create(path, cwd, mem)
  PROVE  IInv'
<1>0. PICK i \in Inodes :
        LET bl == [blocks EXCEPT ![i] = 0]
        IN  /\ fault = "none"
            /\ alloc_inode(i)
            /\ \/ /\ i = 0
                  /\ Fails
                  /\ UNCHANGED <<mode, size, blocks, dir, fault>>
               \/ /\ i # 0
                  /\ mode' = [mode EXCEPT ![i] = "file"]
                  /\ size' = [size EXCEPT ![i] = 0]
                  /\ blocks' = bl
                  /\ \/ create_file_fails(bl, path, cwd) /\ Fails
                     \/ /\ create_file(bl, path, cwd, i)
                        /\ IF mem THEN ret' = 0 /\ file' = i ELSE Fails
            /\ UNCHANGED <<block_bitmap, free_blocks, data>>
  BY DEF abyssfs_create
<1>1. CASE i = 0
  BY <1>0, <1>1, IdleIInv DEF Fails, IInv, TypeOK
<1>2. CASE i # 0
  <2>1. mode[i] = "free" /\ i \notin Live
    BY <1>0, <1>2, AllocInode
  <2>2. /\ mode' = [mode EXCEPT ![i] = "file"]
        /\ size' = [size EXCEPT ![i] = 0]
        /\ blocks' = [blocks EXCEPT ![i] = 0]
        /\ UNCHANGED <<block_bitmap, free_blocks, data>>
    BY <1>0, <1>2
  <2>3. (ret' = -1 /\ file' = NONE) \/ (ret' = 0 /\ file' = i)
    BY <1>0, <1>2 DEF Fails
  <2>4. /\ dir' \in [Blocks -> Seq(Entry)]
        /\ fault' \in Faults
        /\ \/ dir'[RootBlock] = dir[RootBlock]
           \/ dir'[RootBlock] = Append(dir[RootBlock], [name |-> Last(path), inode |-> i])
    <3>1. CASE UNCHANGED dir /\ fault' \in {"file_as_dir", "none"}
      BY <3>1 DEF IInv, TypeOK, Faults
    <3>2. CASE \E b : dir' = Appended(dir, b, Last(path), i) /\ fault' = AppendFault(b)
      <4>1. PICK b : dir' = Appended(dir, b, Last(path), i) /\ fault' = AppendFault(b)
        BY <3>2
      <4>2. fault' \in Faults
        BY <4>1 DEF AppendFault, Faults
      <4>3. dir \in [Blocks -> Seq(Entry)]
        BY DEF IInv, TypeOK
      <4> QED
        BY <4>1, <4>2, <4>3, AppendedProperties, LastIsName
    <3> QED
      BY <1>0, <1>2, <3>1, <3>2 DEF create_file_fails, create_file
  <2>5. TypeOK'
    <3>1. /\ mode' \in [Inodes -> {"free", "file", "dir"}]
          /\ size' \in [Inodes -> Nat]
      BY <2>2 DEF IInv, TypeOK
    <3>2. blocks' \in [Inodes -> Blocks]
      BY <2>2, Geometry DEF IInv, TypeOK
    <3>3. /\ block_bitmap' \subseteq Blocks /\ free_blocks' \in Int
          /\ data' \in [Blocks -> [Units -> Int]]
      BY <2>2 DEF IInv, TypeOK
    <3>4. file' \in Inodes \cup {NONE} /\ ret' \in Int
      BY <1>0, <2>3
    <3> QED
      BY <2>4, <3>1, <3>2, <3>3, <3>4 DEF TypeOK
  <2>6. Live' = Live \cup {i} /\ Owners' = Owners
    BY <1>2, <2>1, <2>2 DEF IInv, TypeOK, Live, Owners
  <2>7. BlockOwnership'
    <3>1. \A j \in Owners : blocks'[j] = blocks[j]
      BY <2>1, <2>2 DEF IInv, TypeOK, Live, Owners
    <3> QED
      BY <2>2, <2>6, <3>1, OwnersKept DEF IInv
  <2>8. FreeCount'
    BY <2>2 DEF IInv, FreeCount
  <2>9. RootLinks'
    <3>1. blocks'[RootInode] = blocks[RootInode]
      BY <1>0, <2>1, <2>2, RootIsLive DEF IInv, TypeOK
    <3> QED
      BY <1>0, <1>2, <2>1, <2>4, <2>5, <2>6, <3>1, LastIsName, RootLinksAdd DEF IInv
  <2>10. HeldFileLive'
    BY <1>2, <2>3, <2>6 DEF HeldFileLive, NONE
  <2> QED
    BY <2>5, <2>7, <2>8, <2>9, <2>10 DEF IInv
<1> QED
  BY <1>1, <1>2

\* abyssfs_write gives the held file a block when it has none.
LEMMA WriteIInv ==
  ASSUME IInv, NEW buf \in Buffers, abyssfs_write(buf)
  PROVE  IInv'
<1> DEFINE cnt == IF Len(buf) > BLOCK_UNITS THEN BLOCK_UNITS ELSE Len(buf)
<1>0. cnt \in Nat
  BY InputAssumption, GeometryAssumption
<1> HIDE DEF cnt
<1>1. /\ file > 0 /\ file \in Inodes /\ file \in Live
      /\ UNCHANGED <<mode, dir, file, fault>>
  BY DEF abyssfs_write, IInv, TypeOK, HeldFileLive, NONE
<1>2. PICK b \in Blocks :
        /\ IF blocks[file] = 0 THEN alloc_block(b)
           ELSE b = blocks[file] /\ UNCHANGED <<block_bitmap, free_blocks>>
        /\ blocks' = [blocks EXCEPT ![file] = b]
        /\ IF b = 0 THEN ret' = 0 /\ UNCHANGED <<size, data>>
           ELSE /\ ret' = cnt
                /\ size' = [size EXCEPT ![file] = @ + cnt]
                /\ data' = [data EXCEPT ![b] = Overwrite(@, buf)]
  BY DEF abyssfs_write, cnt
<1>3. /\ FreeCount' /\ free_blocks' \in Int /\ block_bitmap' \subseteq Blocks
      /\ \/ blocks' = blocks /\ block_bitmap' = block_bitmap
         \/ /\ blocks[file] = 0 /\ b # 0 /\ b \in DataBlocks \ block_bitmap
            /\ block_bitmap' = block_bitmap \cup {b}
  <2>1. CASE blocks[file] = 0
    BY <1>1, <1>2, <2>1, AllocBlock DEF IInv, TypeOK
  <2>2. CASE blocks[file] # 0
    BY <1>1, <1>2, <2>2 DEF IInv, TypeOK, FreeCount
  <2> QED
    BY <2>1, <2>2
<1>4. TypeOK'
  <2>1. \A u \in [Units -> Int] : Overwrite(u, buf) \in [Units -> Int]
    BY InputAssumption, GeometryAssumption DEF Overwrite, Units
  <2>2. data' \in [Blocks -> [Units -> Int]] /\ size' \in [Inodes -> Nat]
    <3>1. data \in [Blocks -> [Units -> Int]] /\ size \in [Inodes -> Nat]
      BY DEF IInv, TypeOK
    <3>2. data' \in [Blocks -> [Units -> Int]]
      BY <1>2, <2>1, <3>1
    <3>3. size' \in [Inodes -> Nat]
      BY <1>0, <1>1, <1>2, <3>1
    <3> QED
      BY <3>2, <3>3
  <2>3. blocks' \in [Inodes -> Blocks] /\ ret' \in Int
    BY <1>0, <1>1, <1>2 DEF IInv, TypeOK
  <2> QED
    BY <1>1, <1>3, <2>2, <2>3 DEF IInv, TypeOK
<1>5. Live' = Live
  BY <1>1 DEF Live
<1>6. BlockOwnership'
  <2>1. CASE blocks' = blocks /\ block_bitmap' = block_bitmap
    BY <1>5, <2>1, OwnersKept DEF IInv, Owners
  <2>2. CASE /\ blocks[file] = 0 /\ b # 0 /\ b \in DataBlocks \ block_bitmap
             /\ block_bitmap' = block_bitmap \cup {b}
    <3>1. file \notin Owners /\ Owners' = Owners \cup {file} /\ blocks'[file] = b
      BY <1>1, <1>2, <1>5, <2>2 DEF IInv, TypeOK, Owners, Live
    <3>2. \A j \in Owners : blocks'[j] = blocks[j]
      BY <1>2, <3>1 DEF IInv, TypeOK, Owners, Live
    <3> QED
      BY <2>2, <3>1, <3>2, OwnersAdd DEF IInv
  <2> QED
    BY <1>3, <2>1, <2>2
<1>7. RootLinks'
  <2>1. fault = "none"
    BY DEF abyssfs_write
  <2>2. blocks'[RootInode] = blocks[RootInode]
    BY <1>2, <2>1, RootIsLive, Geometry DEF IInv, TypeOK
  <2> QED
    BY <1>1, <1>5, <2>2 DEF IInv, RootLinks
<1>8. HeldFileLive'
  BY <1>1, <1>5 DEF IInv, HeldFileLive
<1> QED
  BY <1>3, <1>4, <1>6, <1>7, <1>8 DEF IInv

\* abyssfs_mkdir once it has an inode: the inode gets a block that nobody had, or
\* none, and at most one entry.
LEMMA MkdirWithInodeIInv ==
  ASSUME IInv, fault = "none", NEW path \in Paths, NEW parent \in Inodes,
         NEW i \in Inodes, alloc_inode(i), i # 0, mkdir_with_inode(path, parent, i)
  PROVE  IInv'
<1>0. mode[i] = "free" /\ i \notin Live
  BY AllocInode
<1>1. PICK b \in Blocks :
        LET bl == [blocks EXCEPT ![i] = b]
            pb == DirBlock(bl, parent)
        IN  /\ alloc_block(b)
            /\ blocks' = bl
            /\ mode' = [mode EXCEPT ![i] = IF b = 0 THEN "file" ELSE "dir"]
            /\ size' = [size EXCEPT ![i] = IF b = 0 THEN 0 ELSE BLOCK_UNITS]
            /\ file' = NONE
            /\ \/ b = 0 /\ ret' = -1 /\ UNCHANGED <<dir, data, fault>>
               \/ /\ b # 0
                  /\ data' = [data EXCEPT ![b][0] = DIRBYTES]
                  /\ \/ /\ pb = 0
                        /\ ret' = -1
                        /\ dir' = [dir EXCEPT ![b] = FreshDir(i, parent)]
                        /\ UNCHANGED fault
                     \/ /\ pb # 0
                        /\ ret' = 0
                        /\ dir' = Appended([dir EXCEPT ![b] = FreshDir(i, parent)],
                                           pb, Last(path), i)
                        /\ fault' = IF Stale(b) THEN "stale_dir" ELSE AppendFault(pb)
  BY DEF mkdir_with_inode
<1>2. /\ FreeCount' /\ free_blocks' \in Int /\ block_bitmap' \subseteq Blocks
      /\ \/ b = 0 /\ block_bitmap' = block_bitmap
         \/ /\ b # 0 /\ b \in DataBlocks \ block_bitmap
            /\ block_bitmap' = block_bitmap \cup {b}
  BY <1>1, AllocBlock DEF IInv, TypeOK
<1>3. RootInode \in Live /\ blocks[RootInode] = RootBlock
  BY RootIsLive DEF IInv
<1>4. RootBlock # b
  <2>1. RootBlock \in block_bitmap
    <3>1. RootInode \in Owners => blocks[RootInode] \in block_bitmap
      BY DEF IInv, BlockOwnership
    <3> QED
      BY <1>3, <3>1, Geometry DEF Owners
  <2> QED
    BY <1>2, <2>1, Geometry
<1>5. /\ dir' \in [Blocks -> Seq(Entry)]
      /\ fault' \in Faults
      /\ \/ dir'[RootBlock] = dir[RootBlock]
         \/ dir'[RootBlock] = Append(dir[RootBlock], [name |-> Last(path), inode |-> i])
  <2>1. dir \in [Blocks -> Seq(Entry)]
    BY DEF IInv, TypeOK
  <2>2. FreshDir(i, parent) \in Seq(Entry)
    BY InputAssumption DEF FreshDir, Entry
  <2> DEFINE d1 == [dir EXCEPT ![b] = FreshDir(i, parent)]
  <2>3. d1 \in [Blocks -> Seq(Entry)] /\ d1[RootBlock] = dir[RootBlock]
    BY <1>4, <2>1, <2>2, Geometry
  <2> HIDE DEF d1
  <2>4. CASE UNCHANGED <<dir, fault>> \/ (dir' = d1 /\ UNCHANGED fault)
    BY <2>1, <2>3, <2>4 DEF IInv, TypeOK
  <2>5. CASE \E pb : /\ dir' = Appended(d1, pb, Last(path), i)
                     /\ fault' = IF Stale(b) THEN "stale_dir" ELSE AppendFault(pb)
    <3>1. PICK pb : /\ dir' = Appended(d1, pb, Last(path), i)
                    /\ fault' = IF Stale(b) THEN "stale_dir" ELSE AppendFault(pb)
      BY <2>5
    <3>2. fault' \in Faults
      BY <3>1 DEF AppendFault, Faults
    <3>3. Last(path) \in Names
      BY LastIsName
    <3>4. /\ Appended(d1, pb, Last(path), i) \in [Blocks -> Seq(Entry)]
          /\ \/ Appended(d1, pb, Last(path), i)[RootBlock] = d1[RootBlock]
             \/ Appended(d1, pb, Last(path), i)[RootBlock]
                  = Append(d1[RootBlock], [name |-> Last(path), inode |-> i])
      BY <2>3, <3>3, AppendedProperties, Zenon
    <3> QED
      BY <2>3, <3>1, <3>2, <3>4, Zenon
  <2> QED
    BY <1>1, <2>4, <2>5 DEF d1
<1>6. TypeOK'
  <2>1. data' \in [Blocks -> [Units -> Int]]
    <3>1. data \in [Blocks -> [Units -> Int]]
      BY DEF IInv, TypeOK
    <3>2. \A f \in [Units -> Int] : [f EXCEPT ![0] = DIRBYTES] \in [Units -> Int]
      <4>1. DIRBYTES \in Int
        BY DEF DIRBYTES
      <4> QED
        BY <4>1
    <3>3. CASE data' = data
      BY <3>1, <3>3
    <3>4. CASE data' = [data EXCEPT ![b][0] = DIRBYTES]
      BY <3>1, <3>2, <3>4
    <3> QED
      BY <1>1, <3>3, <3>4
  <2>2. /\ mode' \in [Inodes -> {"free", "file", "dir"}] /\ size' \in [Inodes -> Nat]
        /\ blocks' \in [Inodes -> Blocks] /\ ret' \in Int /\ file' = NONE
    BY <1>1, GeometryAssumption, SMTT(40) DEF IInv, TypeOK
  <2> QED
    BY <1>2, <1>5, <2>1, <2>2, SMTT(40) DEF TypeOK
<1>7. Live' = Live \cup {i}
  BY <1>0, <1>1, SMTT(40) DEF IInv, TypeOK, Live
<1>8. \A j \in Live : blocks'[j] = blocks[j]
  BY <1>0, <1>1 DEF IInv, TypeOK, Live
<1>9. blocks'[i] = b /\ i \notin Owners
  BY <1>0, <1>1 DEF IInv, TypeOK, Owners
<1>10. BlockOwnership'
  <2>1. CASE b = 0
    <3>1. Owners' = Owners /\ \A j \in Owners : blocks'[j] = blocks[j]
      BY <1>7, <1>8, <1>9, <2>1 DEF Owners
    <3> QED
      BY <1>2, <2>1, <3>1, OwnersKept DEF IInv
  <2>2. CASE b # 0
    <3>1. Owners' = Owners \cup {i} /\ \A j \in Owners : blocks'[j] = blocks[j]
      BY <1>7, <1>8, <1>9, <2>2 DEF Owners
    <3> QED
      BY <1>2, <1>9, <2>2, <3>1, OwnersAdd DEF IInv
  <2> QED
    BY <2>1, <2>2
<1>11. RootLinks'
  BY <1>0, <1>5, <1>6, <1>7, <1>8, <1>3, LastIsName, RootLinksAdd DEF IInv
<1>12. HeldFileLive'
  BY <1>1 DEF HeldFileLive, NONE
<1> QED
  BY <1>2, <1>6, <1>10, <1>11, <1>12 DEF IInv

\* abyssfs_mkdir preserves the invariant.
LEMMA MkdirIInv ==
  ASSUME IInv, NEW path \in Paths, abyssfs_mkdir(path)
  PROVE  IInv'
<1>1. PICK parent \in Found :
        /\ fault = "none"
        /\ \/ /\ parent < 0
              /\ Fails
              /\ fault' \in {"file_as_dir", "none"}
              /\ UNCHANGED <<mode, size, blocks, block_bitmap, free_blocks, dir, data>>
           \/ /\ parent >= 0
              /\ \E i \in Inodes :
                   /\ alloc_inode(i)
                   /\ \/ /\ i = 0
                         /\ Fails
                         /\ UNCHANGED <<mode, size, blocks, block_bitmap,
                                        free_blocks, dir, data, fault>>
                      \/ i # 0 /\ mkdir_with_inode(path, parent, i)
  BY DEF abyssfs_mkdir
<1>2. CASE Fails /\ fault' \in {"file_as_dir", "none"}
           /\ UNCHANGED <<mode, size, blocks, block_bitmap, free_blocks, dir, data>>
  BY <1>1, <1>2, IdleIInv DEF Fails, Faults
<1>3. ASSUME parent >= 0, NEW i \in Inodes, alloc_inode(i), i # 0,
             mkdir_with_inode(path, parent, i)
      PROVE  IInv'
  <2>1. parent \in Inodes
    BY <1>3 DEF Found, NONE, CONFUSED
  <2> QED
    BY <1>1, <1>3, <2>1, MkdirWithInodeIInv
<1> QED
  BY <1>1, <1>2, <1>3

\* abyssfs_unlink frees an inode that is in use, with its block, and takes out
\* the one entry that leads to it.
LEMMA UnlinkIInv ==
  ASSUME IInv, NEW path \in Paths, abyssfs_unlink(path)
  PROVE  IInv'
<1> DEFINE root == dir[RootBlock]
           new  == dir'[RootBlock]
<1>0. fault = "none"
  BY DEF abyssfs_unlink
<1>1. CASE Fails /\ UNCHANGED <<mode, size, blocks, block_bitmap, free_blocks, dir, data, fault>>
  BY <1>1, IdleIInv DEF Fails, IInv, TypeOK
<1>2. ASSUME NEW k \in DOMAIN root, NEW i, i = root[k].inode,
             mode' = [mode EXCEPT ![i] = "free"],
             IF blocks[i] # 0 THEN free_block(blocks[i])
               ELSE UNCHANGED <<block_bitmap, free_blocks>>,
             unlink_entry(k), ret' = 0, file' = NONE,
             fault' = IF i = RootInode THEN "root_removed" ELSE "none",
             UNCHANGED <<size, blocks, data>>
      PROVE  IInv'
  <2>1. /\ root \in Seq(Entry) /\ Len(root) \in Nat /\ DOMAIN root = 1 .. Len(root)
        /\ k \in 1 .. Len(root)
    BY <1>2, Geometry DEF IInv, TypeOK
  <2>2. i \in Live /\ i \in Inodes
    BY <1>0, <1>2 DEF IInv, RootLinks, Live
  <2>3. Live' = Live \ {i}
    BY <1>2, <2>2 DEF IInv, TypeOK, Live
  <2>4. /\ BlockOwnership' /\ FreeCount'
        /\ free_blocks' \in Int /\ block_bitmap' \subseteq Blocks
    <3>1. CASE blocks[i] = 0
      <4>1. Owners' = Owners
        BY <1>2, <2>3, <3>1 DEF Owners
      <4> QED
        BY <1>2, <3>1, <4>1, OwnersKept DEF IInv, TypeOK, FreeCount
    <3>2. CASE blocks[i] # 0
      <4>1. i \in Owners /\ Owners' = Owners \ {i}
        BY <1>2, <2>2, <2>3, <3>2 DEF Owners
      <4>2. blocks[i] \in DataBlocks \cap block_bitmap
        BY <4>1 DEF IInv, BlockOwnership
      <4>3. FreeCount' /\ free_blocks' \in Int /\ block_bitmap' = block_bitmap \ {blocks[i]}
        BY <1>2, <3>2, <4>2, FreeBlock DEF IInv
      <4>4. BlockOwnership'
        BY <1>2, <4>1, <4>3, OwnersDrop DEF IInv
      <4> QED
        BY <4>3, <4>4 DEF IInv, TypeOK
    <3> QED
      BY <3>1, <3>2
  <2>5. /\ new = RemoveAt(root, k)
        /\ dir' \in [Blocks -> Seq(Entry)]
    <3>1. RemoveAt(root, k) \in Seq(Entry)
      BY <2>1, RemoveAtProperties
    <3> QED
      BY <1>2, <3>1, Geometry DEF IInv, TypeOK, unlink_entry
  <2>6. TypeOK'
    <3>1. mode' \in [Inodes -> {"free", "file", "dir"}]
      BY <1>2 DEF IInv, TypeOK
    <3>2. /\ size' \in [Inodes -> Nat] /\ blocks' \in [Inodes -> Blocks]
          /\ data' \in [Blocks -> [Units -> Int]]
      BY <1>2 DEF IInv, TypeOK
    <3>3. file' \in Inodes \cup {NONE} /\ ret' \in Int /\ fault' \in Faults
      <4>1. ret' = 0 /\ file' = NONE /\ fault' \in {"root_removed", "none"}
        BY <1>2
      <4> QED
        BY <4>1 DEF Faults
    <3> QED
      BY <2>4, <2>5, <3>1, <3>2, <3>3, Zenon DEF TypeOK
  <2>7. ASSUME fault' = "none" PROVE RootLinks'
    <3>1. i # RootInode
      BY <1>2, <2>7
    <3>2. /\ Len(root) >= 2 /\ root[1].inode = RootInode /\ root[2].inode = RootInode
          /\ blocks[RootInode] = RootBlock
          /\ \A j \in 1 .. Len(root) : root[j].inode \in Live
          /\ \A j, l \in 1 .. Len(root) : root[j].inode = root[l].inode => j = l \/ {j, l} = {1, 2}
      BY <1>0, <2>1 DEF IInv, RootLinks
    <3> DEFINE old(j) == IF j < k THEN j ELSE j + 1
    <3>3. /\ new \in Seq(Entry) /\ Len(new) = Len(root) - 1
          /\ \A j \in 1 .. Len(root) - 1 : new[j] = root[old(j)]
      <4>1. /\ RemoveAt(root, k) \in Seq(Entry)
            /\ Len(RemoveAt(root, k)) = Len(root) - 1
            /\ \A j \in 1 .. Len(root) - 1 :
                 RemoveAt(root, k)[j] = IF j < k THEN root[j] ELSE root[j + 1]
        BY <2>1, RemoveAtProperties
      <4> QED
        BY <2>5, <4>1
    <3> HIDE DEF root, new
    <3>4. k > 2
      <4>1. k # 1 /\ k # 2
        BY <1>2, <3>1, <3>2
      <4> QED
        BY <2>1, <4>1
    <3>5. DOMAIN new = 1 .. Len(root) - 1
      BY <2>1, <3>3
    <3>6. /\ \A j \in 1 .. Len(root) - 1 : old(j) \in 1 .. Len(root) /\ old(j) # k
          /\ \A j, l \in 1 .. Len(root) - 1 : old(j) = old(l) => j = l
          /\ \A j, l \in 1 .. Len(root) - 1 : {old(j), old(l)} = {1, 2} => {j, l} = {1, 2}
          /\ old(1) = 1 /\ old(2) = 2 /\ 1 \in 1 .. Len(root) - 1 /\ 2 \in 1 .. Len(root) - 1
      <4>1. /\ \A j \in 1 .. Len(root) - 1 : old(j) \in 1 .. Len(root) /\ old(j) # k
            /\ \A j, l \in 1 .. Len(root) - 1 : old(j) = old(l) => j = l
        BY <2>1, <3>4
      <4>2. old(1) = 1 /\ old(2) = 2 /\ 1 \in 1 .. Len(root) - 1 /\ 2 \in 1 .. Len(root) - 1
        BY <2>1, <3>4
      <4>3. \A j \in 1 .. Len(root) - 1 : /\ old(j) = 1 => j = 1
                                          /\ old(j) = 2 => j = 2
        BY <2>1, <3>4
      <4> HIDE DEF old
      <4> QED
        BY <4>1, <4>2, <4>3
    <3> HIDE DEF old
    <3>7. \A j \in DOMAIN new : new[j].inode \in Live'
      <4> SUFFICES ASSUME NEW j \in DOMAIN new PROVE new[j].inode \in Live'
        OBVIOUS
      <4>1. root[old(j)].inode \in Live
        BY <3>2, <3>5, <3>6
      <4>2. root[old(j)].inode # i
        <5>1. root[old(j)].inode = root[k].inode => {old(j), k} = {1, 2}
          BY <2>1, <3>2, <3>5, <3>6
        <5>2. i = root[k].inode
          BY <1>2
        <5> QED
          BY <3>4, <5>1, <5>2, SMTT(40)
      <4> QED
        BY <2>3, <3>3, <3>5, <4>1, <4>2
    <3>8. \A j, l \in DOMAIN new : new[j].inode = new[l].inode => j = l \/ {j, l} = {1, 2}
      <4> SUFFICES ASSUME NEW j \in DOMAIN new, NEW l \in DOMAIN new,
                          new[j].inode = new[l].inode
                   PROVE  j = l \/ {j, l} = {1, 2}
        OBVIOUS
      <4>1. old(j) \in 1 .. Len(root) /\ old(l) \in 1 .. Len(root)
        BY <3>5, <3>6
      <4>2. root[old(j)].inode = root[old(l)].inode
        BY <3>3, <3>5
      <4>3. old(j) = old(l) \/ {old(j), old(l)} = {1, 2}
        BY <3>2, <4>1, <4>2
      <4> QED
        BY <3>5, <3>6, <4>3
    <3>9. Len(new) >= 2 /\ new[1].inode = RootInode /\ new[2].inode = RootInode
      BY <2>1, <3>2, <3>3, <3>4, <3>6, SMTT(40)
    <3>10. blocks'[RootInode] = RootBlock
      BY <1>2, <3>2
    <3> QED
      BY <3>7, <3>8, <3>9, <3>10 DEF RootLinks, new
  <2>8. RootLinks'
    BY <2>7 DEF RootLinks
  <2>9. HeldFileLive'
    <3>1. file' = NONE
      BY <1>2
    <3> QED
      BY <3>1 DEF HeldFileLive, NONE
  <2> QED
    BY <2>4, <2>6, <2>8, <2>9, Zenon DEF IInv
<1> QED
  BY <1>1, <1>2 DEF abyssfs_unlink

-----------------------------------------------------------------------------
\* Every step preserves the invariant.
LEMMA NextIInv == IInv /\ [Next]_vars => IInv'
<1> SUFFICES ASSUME IInv, [Next]_vars PROVE IInv'
  OBVIOUS
<1>1. ASSUME NEW mem \in BOOLEAN, abyssfs_open(mem) PROVE IInv'
  BY <1>1, IdleIInv, SMTT(40) DEF abyssfs_open, Fails, IInv, TypeOK
<1>2. ASSUME NEW p \in Paths, abyssfs_remove_recursive(p) PROVE IInv'
  <2>1. CASE abyssfs_unlink(p)
    BY <2>1, UnlinkIInv
  <2>2. CASE /\ fault' = "file_as_dir"
             /\ Fails
             /\ UNCHANGED <<mode, size, blocks, block_bitmap, free_blocks, dir, data>>
    BY <2>2, IdleIInv DEF Fails, Faults
  <2> QED
    BY <1>2, <2>1, <2>2 DEF abyssfs_remove_recursive
<1>3. CASE UNCHANGED vars
  BY <1>3, IdleIInv DEF vars, IInv, TypeOK
<1> QED
  BY <1>1, <1>2, <1>3, CreateIInv, WriteIInv, MkdirIInv, UnlinkIInv DEF Next

\* alloc_block, free_block and alloc_inode of abyssfs.c keep the bitmap, the
\* inode table and the counter of free blocks in agreement through every sequence
\* of creates, writes, mkdirs, unlinks and recursive removals: no block has two
\* owners, none is lost or freed twice, and the blocks of the inode table are
\* never handed out.
THEOREM BlocksAreAccountedFor ==
  Spec => [](TypeOK /\ BlockOwnership /\ FreeCount)
<1>1. IInv => TypeOK /\ BlockOwnership /\ FreeCount
  BY DEF IInv
<1> QED
  BY InitIInv, NextIInv, <1>1, PTL DEF Spec

\* Every operation of abyssfs.c keeps block numbers, inode numbers and directory
\* entries in their ranges.
THEOREM AbyssTypes == Spec => []TypeOK
  BY BlocksAreAccountedFor, PTL

\* The counter that alloc_block looks at first follows the bitmap, one too high
\* as it is from abyssfs_init on.
THEOREM FreeBlocksAreCounted == Spec => []FreeCount
  BY BlocksAreAccountedFor, PTL

\* abyssfs_unlink never frees an inode that is not in use: the entries of the root
\* directory lead to different live inodes, until the root itself is removed.
THEOREM RootEntriesLeadToLiveInodes == Spec => [](RootLinks /\ HeldFileLive)
<1>1. IInv => RootLinks /\ HeldFileLive
  BY DEF IInv
<1> QED
  BY InitIInv, NextIInv, <1>1, PTL DEF Spec
=============================================================================
