------------------------------ MODULE AbyssFS ------------------------------
(***************************************************************************)
(* The in-memory file system of src/src/fs/abyssfs.c: a table of inodes, a *)
(* bitmap of blocks, and one block of directory entries per directory.     *)
(*                                                                         *)
(* A path is the sequence of its components, as strtok_r splits it.  Bytes *)
(* are grouped in units of 256, because the rec_len of the ".." entry of a *)
(* fresh directory, BLOCK_SIZE - 8 stored in a uint8_t, makes a scan       *)
(* continue exactly at byte 256 of the block: unit 0 holds the entries,    *)
(* unit 1 is where the scan goes on.                                       *)
(***************************************************************************)
EXTENDS Integers, Sequences, FiniteSets, SequencesExt

CONSTANTS
  TOTAL_BLOCKS,   \* sb.total_blocks, 64 in the code
  INODE_BLOCKS,   \* sb.inode_blocks, 8 in the code
  NUM_INODES,     \* inodes in the inode blocks, 512 in the code
  BLOCK_UNITS,    \* BLOCK_SIZE in units of 256 bytes, 16 in the code
  DIR_CAP,        \* entries that fit in one directory block
  MAX_SIZE,       \* bound: inode.size in units, reached by repeated writes
  Names,          \* the names a directory entry may have
  Paths,          \* bound: the paths that callers pass
  Cwds,           \* bound: the values of current_process->cwd
  Buffers         \* bound: the buffers that callers write

Dot == "."
DotDot == ".."
HELLO == "hello.txt"

ASSUME GeometryAssumption ==
  /\ TOTAL_BLOCKS \in Nat /\ INODE_BLOCKS \in Nat /\ NUM_INODES \in Nat
  /\ INODE_BLOCKS > 0 /\ INODE_BLOCKS + 1 < TOTAL_BLOCKS
  /\ TOTAL_BLOCKS <= 64                       \* bits of block_bitmap
  /\ NUM_INODES > 2
  /\ BLOCK_UNITS \in Nat /\ BLOCK_UNITS > 0
  /\ DIR_CAP \in Nat /\ DIR_CAP >= 3 /\ MAX_SIZE \in Nat

ASSUME InputAssumption ==
  /\ {Dot, DotDot, HELLO} \subseteq Names
  /\ Paths \subseteq Seq(Names) \ {<<>>}
  /\ Cwds \subseteq Seq(Names)
  /\ Buffers \subseteq Seq(Nat) \ {<<>>}

Inodes == 0 .. NUM_INODES - 1
Blocks == 0 .. TOTAL_BLOCKS - 1
RootInode == 1
RootBlock == INODE_BLOCKS + 1
first_data_block == INODE_BLOCKS + 1
DataBlocks == first_data_block .. TOTAL_BLOCKS - 1
Units == 0 .. BLOCK_UNITS - 1

NONE == -1        \* NULL from get_inode_by_path, and no vfs_file
CONFUSED == -2    \* get_inode_by_path scanned file bytes as entries
Found == Inodes \cup {NONE, CONFUSED}
DIRBYTES == -1    \* a unit that holds directory entries

Entry == [name : Names, inode : Inodes]
Faults == {"none", "file_as_dir", "dir_full", "stale_dir", "root_removed"}

VARIABLES
  mode,           \* inode.mode: "free" 0, "file" 0x1FF, "dir" 0x4000 set
  size,           \* inode.size, in units
  blocks,         \* inode.blocks, the one block of the inode, 0 for none
  block_bitmap,   \* the blocks whose bit is set
  free_blocks,    \* sb.free_blocks
  dir,            \* the entries a scan of each block finds
  data,           \* the units of each block
  file,           \* private_data of the vfs_file the caller holds
  ret,            \* what the last operation returned
  fault           \* the scan left the entries, or the root is gone

vars == <<mode, size, blocks, block_bitmap, free_blocks, dir, data, file, ret, fault>>

-----------------------------------------------------------------------------
(* Lookup.                                                                 *)

\* First entry of block b with name n, 0 for none.
EntryIndex(b, n) == SelectInSeq(dir[b], LAMBDA e : e.name = n)

IsDirBlock(b) == data[b][0] = DIRBYTES

\* One turn of get_inode_by_path's loop.  The mode of the inode is never
\* read: whatever block it has is scanned.
LookupStep(bl, i, n) ==
  IF i < 0 THEN i
  ELSE IF bl[i] = 0 THEN NONE
  ELSE IF ~IsDirBlock(bl[i]) THEN CONFUSED
  ELSE LET k == EntryIndex(bl[i], n)
       IN  IF k = 0 THEN NONE ELSE dir[bl[i]][k].inode

\* The inode a path leads to, with bl for the inodes' blocks.
get_inode_by_path(bl, path) ==
  LET step == [i \in Found, n \in Names |-> LookupStep(bl, i, n)]
      at[k \in 0 .. Len(path)] ==
        IF k = 0 THEN RootInode ELSE step[at[k - 1], path[k]]
  IN  at[Len(path)]

\* The block of directory inode d, with the special case for the root.
DirBlock(bl, d) == IF bl[d] = 0 /\ d = RootInode THEN RootBlock ELSE bl[d]

-----------------------------------------------------------------------------
(* Allocation.                                                             *)

\* Mutated form of alloc_block: the bit is not set.
alloc_block_unmarked(b) ==
  /\ free_blocks' = IF b = 0 THEN free_blocks ELSE free_blocks - 1
  /\ \/ DataBlocks \subseteq block_bitmap /\ b = 0
     \/ /\ b \in DataBlocks \ block_bitmap
        /\ \A c \in DataBlocks \ block_bitmap : b <= c
  /\ UNCHANGED block_bitmap

\* alloc_block() returns b: the first free data block, or 0.
alloc_block(b) ==
  \/ /\ DataBlocks \subseteq block_bitmap
     /\ b = 0
     /\ UNCHANGED <<block_bitmap, free_blocks>>
  \/ /\ b \in DataBlocks \ block_bitmap
     /\ \A c \in DataBlocks \ block_bitmap : b <= c
     /\ block_bitmap' = block_bitmap \cup {b}
     /\ free_blocks' = free_blocks - 1

\* Mutated form of free_block: the counter is forgotten.
free_block_uncounted(b) ==
  /\ block_bitmap' = block_bitmap \ {b}
  /\ UNCHANGED free_blocks

\* free_block(b), which does not ask whether the bit was set.
free_block(b) ==
  /\ block_bitmap' = block_bitmap \ {b}
  /\ free_blocks' = free_blocks + 1

FreeInodes == {i \in Inodes \ {0} : mode[i] = "free"}

\* Mutated form of alloc_inode: an inode without a block counts as free.
alloc_inode_by_block(i) ==
  LET avail == {j \in Inodes \ {0} : blocks[j] = 0}
  IN  IF avail = {} THEN i = 0 ELSE i \in avail /\ \A j \in avail : i <= j

\* alloc_inode() returns i: the first inode with mode 0, or 0 for none.
\* The caller stores what alloc_inode writes: a cleared inode, mode 0x1FF.
alloc_inode(i) ==
  IF FreeInodes = {} THEN i = 0
  ELSE i \in FreeInodes /\ \A j \in FreeInodes : i <= j

-----------------------------------------------------------------------------
(* The state after vfs_init: abyssfs_init, then test_abyssfs, which makes  *)
(* hello.txt in inode 2.                                                   *)

RootEntries == << [name |-> Dot, inode |-> RootInode],
                  [name |-> DotDot, inode |-> RootInode],
                  [name |-> HELLO, inode |-> 2] >>

Init ==
  /\ mode = [i \in Inodes |-> IF i = RootInode THEN "dir"
                              ELSE IF i = 2 THEN "file" ELSE "free"]
  /\ size = [i \in Inodes |-> IF i = RootInode THEN BLOCK_UNITS ELSE 0]
  /\ blocks = [i \in Inodes |-> IF i = RootInode THEN RootBlock ELSE 0]
  /\ block_bitmap = 0 .. RootBlock
  /\ free_blocks = TOTAL_BLOCKS - INODE_BLOCKS - 1
  /\ dir = [b \in Blocks |-> IF b = RootBlock THEN RootEntries ELSE <<>>]
  /\ data = [b \in Blocks |-> [u \in Units |->
                IF b = RootBlock /\ u = 0 THEN DIRBYTES ELSE 0]]
  /\ file = NONE
  /\ ret = 0
  /\ fault = "none"

-----------------------------------------------------------------------------
(* Operations.                                                             *)

\* The fault of appending an entry to block b, and the entries afterwards.
AppendFault(b) ==
  IF ~IsDirBlock(b) THEN "file_as_dir"
  ELSE IF Len(dir[b]) >= DIR_CAP THEN "dir_full" ELSE "none"

Appended(d, b, n, i) ==
  IF AppendFault(b) = "none"
    THEN [d EXCEPT ![b] = Append(@, [name |-> n, inode |-> i])]
    ELSE d

\* create_file: the directory is the path's, or, when the path has one
\* component, the one the process is in.
CreateDir(bl, path, cwd) ==
  get_inode_by_path(bl, IF Len(path) > 1 THEN Front(path) ELSE cwd)

Fails == ret' = -1 /\ file' = NONE

\* Mutated form of create_file: the entry is linked before the inode is known,
\* so that it names the inode after the allocated one.
create_file_next_inode(bl, path, cwd, i) ==
  LET d == CreateDir(bl, path, cwd)
      b == DirBlock(bl, d)
      j == IF i + 1 \in Inodes THEN i + 1 ELSE i
  IN  /\ d >= 0 /\ b # 0
      /\ dir' = Appended(dir, b, Last(path), j)
      /\ fault' = AppendFault(b)

\* create_file(path, i) succeeds: i is entered in the directory, without a
\* look at the names that are there.
create_file(bl, path, cwd, i) ==
  LET d == CreateDir(bl, path, cwd)
      b == DirBlock(bl, d)
  IN  /\ d >= 0 /\ b # 0
      /\ dir' = Appended(dir, b, Last(path), i)
      /\ fault' = AppendFault(b)

\* create_file(path, i) returns -1, or loses its way in a file's bytes.
create_file_fails(bl, path, cwd) ==
  LET d == CreateDir(bl, path, cwd)
  IN  /\ d >= 0 => DirBlock(bl, d) = 0
      /\ fault' = IF d = CONFUSED THEN "file_as_dir" ELSE "none"
      /\ UNCHANGED dir

\* abyssfs_create(path); mem tells whether kalloc has room for the vfs_file.
\* An inode that was allocated is not given back on failure.
abyssfs_create(path, cwd, mem) ==
  \E i \in Inodes :
    LET bl == [blocks EXCEPT ![i] = 0]
    IN  /\ fault = "none"
        /\ alloc_inode(i)
        /\ \/ /\ i = 0
              /\ Fails
              /\ UNCHANGED <<mode, size, blocks, dir, fault>>
           \/ /\ i # 0
              /\ mode' = [mode EXCEPT ![i] = "file"]
              /\ size' = [size EXCEPT ![i] = 0]
              /\ blocks' = bl
              /\ \/ create_file_fails(bl, path, cwd) /\ Fails
                 \/ /\ create_file(bl, path, cwd, i)
                    /\ IF mem THEN ret' = 0 /\ file' = i ELSE Fails
        /\ UNCHANGED <<block_bitmap, free_blocks, data>>

\* abyssfs_open(path) hands out inode 0 whatever the path is.
abyssfs_open(mem) ==
  /\ fault = "none"
  /\ IF mem THEN ret' = 0 /\ file' = 0 ELSE Fails
  /\ UNCHANGED <<mode, size, blocks, block_bitmap, free_blocks, dir, data, fault>>

\* The units of a block after buf is copied to its start.
Overwrite(old, buf) == [u \in Units |-> IF u < Len(buf) THEN buf[u + 1] ELSE old[u]]

\* abyssfs_write(file, buf): always to the start of the block, whatever f_pos
\* is, and size grows each time.  Callers write only files they have created.
abyssfs_write(buf) ==
  LET i == file
      count == IF Len(buf) > BLOCK_UNITS THEN BLOCK_UNITS ELSE Len(buf)
  IN  /\ fault = "none"
      /\ file > 0
      /\ size[i] + count <= MAX_SIZE
      /\ \E b \in Blocks :
           /\ IF blocks[i] = 0 THEN alloc_block(b)
              ELSE b = blocks[i] /\ UNCHANGED <<block_bitmap, free_blocks>>
           /\ blocks' = [blocks EXCEPT ![i] = b]
           /\ IF b = 0 THEN ret' = 0 /\ UNCHANGED <<size, data>>
              ELSE /\ ret' = count
                   /\ size' = [size EXCEPT ![i] = @ + count]
                   /\ data' = [data EXCEPT ![b] = Overwrite(@, buf)]
      /\ UNCHANGED <<mode, dir, file, fault>>

\* The first scan of a fresh directory in block b goes past ".." into unit 1.
Stale(b) == \E u \in Units \ {0} : data[b][u] # 0

\* Mutated form of FreshDir: the parent's number is not filled in.
FreshDir_no_parent(i, parent) == << [name |-> Dot, inode |-> i],
                                    [name |-> DotDot, inode |-> NONE] >>

FreshDir(i, parent) == << [name |-> Dot, inode |-> i],
                          [name |-> DotDot, inode |-> parent] >>

\* abyssfs_mkdir(path) once the parent is found and inode i is allocated.
\* The block is not cleared, and neither the inode nor the block is given
\* back when a later step fails.
mkdir_with_inode(path, parent, i) ==
  \E b \in Blocks :
    LET bl == [blocks EXCEPT ![i] = b]
        pb == DirBlock(bl, parent)
    IN  /\ alloc_block(b)
        /\ blocks' = bl
        /\ mode' = [mode EXCEPT ![i] = IF b = 0 THEN "file" ELSE "dir"]
        /\ size' = [size EXCEPT ![i] = IF b = 0 THEN 0 ELSE BLOCK_UNITS]
        /\ file' = NONE
        /\ \/ b = 0 /\ ret' = -1 /\ UNCHANGED <<dir, data, fault>>
           \/ /\ b # 0
              /\ data' = [data EXCEPT ![b][0] = DIRBYTES]
              /\ \/ /\ pb = 0
                    /\ ret' = -1
                    /\ dir' = [dir EXCEPT ![b] = FreshDir(i, parent)]
                    /\ UNCHANGED fault
                 \/ /\ pb # 0
                    /\ ret' = 0
                    /\ dir' = Appended([dir EXCEPT ![b] = FreshDir(i, parent)],
                                       pb, Last(path), i)
                    /\ fault' = IF Stale(b) THEN "stale_dir" ELSE AppendFault(pb)

abyssfs_mkdir(path) ==
  \E parent \in Found :
    /\ fault = "none"
    /\ parent = get_inode_by_path(blocks, Front(path))
    /\ \/ /\ parent < 0
          /\ Fails
          /\ fault' = IF parent = CONFUSED THEN "file_as_dir" ELSE "none"
          /\ UNCHANGED <<mode, size, blocks, block_bitmap, free_blocks, dir, data>>
       \/ /\ parent >= 0
          /\ \E i \in Inodes :
               /\ alloc_inode(i)
               /\ \/ /\ i = 0
                     /\ Fails
                     /\ UNCHANGED <<mode, size, blocks, block_bitmap,
                                    free_blocks, dir, data, fault>>
                  \/ i # 0 /\ mkdir_with_inode(path, parent, i)

\* Mutated form of unlink_entry: the entry after the match is cut out.
unlink_entry_after(k) ==
  dir' = [dir EXCEPT ![RootBlock] =
            RemoveAt(@, IF k < Len(@) THEN k + 1 ELSE k)]

\* The memmove that takes entry k out of the root directory.
unlink_entry(k) == dir' = [dir EXCEPT ![RootBlock] = RemoveAt(@, k)]

\* abyssfs_unlink(path): the whole path is compared with the names in the root
\* directory, so that a path of several components is never found.
abyssfs_unlink(path) ==
  /\ fault = "none"
  /\ \/ /\ Len(path) = 1 => EntryIndex(RootBlock, path[1]) = 0
        /\ Fails
        /\ UNCHANGED <<mode, size, blocks, block_bitmap, free_blocks, dir, data, fault>>
     \/ \E k \in DOMAIN dir[RootBlock] :
          LET i == dir[RootBlock][k].inode
          IN  /\ Len(path) = 1 /\ k = EntryIndex(RootBlock, path[1])
              /\ mode' = [mode EXCEPT ![i] = "free"]
              /\ IF blocks[i] # 0 THEN free_block(blocks[i])
                 ELSE UNCHANGED <<block_bitmap, free_blocks>>
              /\ unlink_entry(k)
              /\ ret' = 0
              /\ file' = NONE
              /\ fault' = IF i = RootInode THEN "root_removed" ELSE "none"
              /\ UNCHANGED <<size, blocks, data>>

\* abyssfs_remove_recursive(path).  The paths it hands to abyssfs_unlink for the
\* children have two components or more and are not found, so what is left of
\* the recursion is the last call; a file's bytes are scanned as entries first.
abyssfs_remove_recursive(path) ==
  LET i == get_inode_by_path(blocks, path)
  IN  \/ /\ fault = "none"
         /\ i = CONFUSED \/ (i >= 0 /\ blocks[i] # 0 /\ ~IsDirBlock(blocks[i]))
         /\ fault' = "file_as_dir"
         /\ Fails
         /\ UNCHANGED <<mode, size, blocks, block_bitmap, free_blocks, dir, data>>
      \/ /\ i = NONE \/ (i >= 0 /\ (blocks[i] = 0 \/ IsDirBlock(blocks[i])))
         /\ abyssfs_unlink(path)

Next ==
  \/ \E p \in Paths, c \in Cwds, mem \in BOOLEAN : abyssfs_create(p, c, mem)
  \/ \E mem \in BOOLEAN : abyssfs_open(mem)
  \/ \E buf \in Buffers : abyssfs_write(buf)
  \/ \E p \in Paths : abyssfs_mkdir(p)
  \/ \E p \in Paths : abyssfs_unlink(p)
  \/ \E p \in Paths : abyssfs_remove_recursive(p)

Spec == Init /\ [][Next]_vars

-----------------------------------------------------------------------------
(* Properties.                                                             *)

TypeOK ==
  /\ mode \in [Inodes -> {"free", "file", "dir"}]
  /\ size \in [Inodes -> Nat]
  /\ blocks \in [Inodes -> Blocks]
  /\ block_bitmap \subseteq Blocks
  /\ free_blocks \in Int
  /\ dir \in [Blocks -> Seq(Entry)]
  /\ data \in [Blocks -> [Units -> Int]]
  /\ file \in Inodes \cup {NONE}
  /\ ret \in Int
  /\ fault \in Faults

Live == {i \in Inodes \ {0} : mode[i] # "free"}

Owners == {i \in Live : blocks[i] # 0}

\* The bitmap and the inode table agree (alloc_block, free_block, abyssfs_mkdir,
\* abyssfs_unlink, write_to_blocks): the superblock and the inode blocks are
\* never handed out, no two live inodes have the same block, and the data blocks
\* whose bit is set are exactly the blocks of the live inodes.
BlockOwnership ==
  /\ 0 .. INODE_BLOCKS \subseteq block_bitmap
  /\ \A i \in Owners : blocks[i] \in DataBlocks
  /\ \A i, j \in Owners : blocks[i] = blocks[j] => i = j
  /\ block_bitmap \cap DataBlocks = {blocks[i] : i \in Owners}

\* sb.free_blocks follows the bitmap through every alloc_block and free_block;
\* it is one too high for ever, because abyssfs_init sets the bit of the root
\* directory's block without counting it.
FreeCount == free_blocks = Cardinality(DataBlocks \ block_bitmap) + 1

\* The root directory's entries are good for abyssfs_unlink, which frees what they
\* lead to: each leads to an inode that is in use, and only "." and ".." lead to
\* the same one, so that nothing is freed twice.
RootLinks ==
  fault = "none" =>
    LET root == dir[RootBlock]
    IN  /\ blocks[RootInode] = RootBlock
        /\ Len(root) >= 2 /\ root[1].inode = RootInode /\ root[2].inode = RootInode
        /\ \A k \in DOMAIN root : root[k].inode \in Live
        /\ \A k, l \in DOMAIN root : root[k].inode = root[l].inode => k = l \/ {k, l} = {1, 2}

\* The file that a caller holds, and may write to, is in use.
HeldFileLive == file > 0 => file \in Live

\* The entries of directory inode i other than "." and "..".
ChildIndices(i) ==
  IF blocks[i] = 0 \/ ~IsDirBlock(blocks[i]) THEN {}
  ELSE {k \in DOMAIN dir[blocks[i]] : dir[blocks[i]][k].name \notin {Dot, DotDot}}

Child(i, k) == dir[blocks[i]][k].inode

Reachable ==
  LET r[n \in 0 .. NUM_INODES] ==
        IF n = 0 THEN {RootInode}
        ELSE UNION {{i} \cup {Child(i, k) : k \in ChildIndices(i)} : i \in r[n - 1]}
  IN  r[NUM_INODES]

\* What can be reached from the root is a tree of live inodes, however inode
\* numbers and blocks were reused: an entry never leads to a freed inode, no
\* inode has two entries, and a directory's ".." is the directory it is in.
Tree ==
  fault = "none" =>
    /\ Reachable \subseteq Live
    /\ \A i, j \in Reachable : \A k \in ChildIndices(i), l \in ChildIndices(j) :
         Child(i, k) = Child(j, l) => i = j /\ k = l
    /\ \A i \in Reachable : \A k \in ChildIndices(i) :
         LET c == Child(i, k)
         IN  /\ c # RootInode
             /\ mode[c] = "dir" <=> blocks[c] # 0 /\ IsDirBlock(blocks[c])
             /\ mode[c] = "dir" => /\ dir[blocks[c]][1] = [name |-> Dot, inode |-> c]
                                   /\ dir[blocks[c]][2] = [name |-> DotDot, inode |-> i]

\* The part of the state that paths are resolved in.
tree == <<mode, size, blocks, dir, data>>

Orphans == Live \ Reachable

\* An inode that is in use and cannot be reached any more is left behind only by
\* an operation that returned -1 or by the removal of a directory: a create or
\* mkdir that succeeds always links what it allocated.
OrphansOnlyFromFailureOrRemoval ==
  [][fault' = "none" /\ ~(Orphans' \subseteq Orphans) =>
       ret' = -1 \/ Len(dir'[RootBlock]) < Len(dir[RootBlock])]_tree

PlainPaths == UNION {[1 .. n -> Names \ {Dot, DotDot}] : n \in 1 .. 2}

\* What a caller can observe of a path.
Observe(p) ==
  LET see == [i \in Found |->
        IF i < 0 THEN [inode |-> i]
        ELSE [inode |-> i, mode |-> mode[i], size |-> size[i],
              units |-> IF mode[i] = "file" /\ blocks[i] # 0 THEN {data[blocks[i]]} ELSE {}]]
  IN  see[get_inode_by_path(blocks, p)]

\* One operation changes what is seen at one name and below it, and nothing of
\* any other path, even when it reuses inodes and blocks of removed files.
OneSubtreePerStep ==
  [][fault' = "none" =>
       \E changed \in {{p \in PlainPaths : Observe(p)' # Observe(p)}} :
         \E t \in PlainPaths : \A p \in changed : IsPrefix(t, p)]_tree

\* "rm <file> - Remove file" (user_shell.S): a path that abyssfs_unlink removed
\* is no longer found.
RemovedIsGone ==
  [][\A p \in Paths : abyssfs_unlink(p) /\ ret' = 0 => get_inode_by_path(blocks, p)' < 0]_vars
=============================================================================
