------------------------------- MODULE Files -------------------------------
(***************************************************************************)
(* The files as a process sees them: the descriptors, mount points and     *)
(* path resolution of src/src/fs/vfs.c, the bindings of                    *)
(* src/src/kernel/namespace.c and the file messages of                     *)
(* src/src/kernel/message.c, over both file systems.                       *)
(*                                                                         *)
(* One process, the shell, sends messages; send_message runs to its end    *)
(* before the next one.  MSG_COPY and MSG_MOVE are a step for each call    *)
(* they make to the VFS.  mem tells whether kalloc has room; it may refuse *)
(* at any time.                                                            *)
(***************************************************************************)
EXTENDS Integers, Sequences, Paths, FiniteSets, Descriptors

CONSTANTS
  MAX_MOUNTS,     \* 16 in the code
  CHUNK,          \* sizeof(buffer) of MSG_COPY and MSG_MOVE, in units
  READ_UNITS,     \* sizeof(buf) of MSG_READ, in units
  MAX_BINDINGS,   \* bound: length of the list of bindings
  Requests,       \* bound: the messages [type, path, data] that are sent
  Contents,       \* bound: contents that the test processes give their file
  TestFile,       \* the path of that file
  MAX_FILES, MAX_CONTENT,                                       \* RamFS
  TOTAL_BLOCKS, INODE_BLOCKS, NUM_INODES, BLOCK_UNITS, DIR_CAP, \* AbyssFS
  MAX_SIZE, Names

VARIABLES
  mode, size, blocks, block_bitmap, free_blocks, dir, data, file, ret, fault,  \* AbyssFS
  files,          \* RamFS
  cwd,            \* current_process->cwd
  mounts          \* current_process->ns.mounts, the newest first: [old, new]

abyssVars == <<mode, size, blocks, block_bitmap, free_blocks, dir, data, file, ret, fault>>
abyssTree == <<mode, size, blocks, block_bitmap, free_blocks, dir, data, fault>>
vars == <<abyssVars, files, fdVars, cwd, mounts, call>>

A == INSTANCE AbyssFS WITH Paths <- {}, Cwds <- {}, Buffers <- {}
R == INSTANCE RamFS WITH opened <- fd_table, out <- ret, MAX_OPEN <- MAX_FD,
                         FilePaths <- {}, Counts <- {}

\* AbyssFS is not called: ret and file, the results of its last operation, are of
\* no use to anyone after the message that called it.
NoAbyss == UNCHANGED abyssTree /\ ret' = 0 /\ file' = A!NONE

\* vfs_init.
Init ==
  /\ A!Init
  /\ files = [i \in R!Slots |->
                [path |-> R!Unused, size |-> 0, content |-> [k \in R!Offsets |-> 0]]]
  /\ fd_table = [fd \in Fds |-> NoFile]
  /\ next_fd = 0
  /\ cwd = Slash
  /\ mounts = <<>>
  /\ call = Idle

-----------------------------------------------------------------------------
(* Paths.                                                                  *)

\* The components of a path as names of AbyssFS entries.  A name of several
\* tokens is one that no entry has.
NoName == "no name"
AbyssPath(path) ==
  LET cs == Components(path)
  IN  [k \in 1 .. Len(cs) |-> IF Len(cs[k]) = 1 /\ cs[k][1] \in Names THEN cs[k][1] ELSE NoName]

\* vfs_mount(path, fs), and the mount points that vfs_init makes.  kalloc has room
\* for the super blocks, since nothing else has been allocated.
vfs_mount(table, path, fs) ==
  IF Len(table) >= MAX_MOUNTS THEN table ELSE Append(table, [path |-> path, fs |-> fs])

mount_points == vfs_mount(vfs_mount(<<>>, Slash, "abyssfs"), TMP, "ramfs")

\* find_mount: the longest mount path that the path begins with, the first mount
\* point for the empty path.
find_mount(path) ==
  LET matches == {k \in DOMAIN mount_points : Begins(path, mount_points[k].path)}
      best == CHOOSE k \in matches : \A j \in matches :
                Len(mount_points[j].path) <= Len(mount_points[k].path)
  IN  IF path = <<>> THEN mount_points[1].fs
      ELSE IF matches = {} THEN "none" ELSE mount_points[best].fs

\* resolve_namespace_path, for vfs_read_dir: from the new path of the first
\* binding that matches to its old path.
resolve_namespace_path(path, mem) ==
  LET k == SelectInSeq(mounts, LAMBDA b : Begins(path, b.new))
      rest == After(path, Len(mounts[k].new))
      old == mounts[k].old
  IN  IF k = 0 \/ ~mem THEN path
      ELSE IF rest = <<>> THEN old
      ELSE old \o (IF rest[1] # "/" /\ ~EndsInSlash(old) THEN Slash ELSE <<>>) \o rest

\* resolve_path, for vfs_open: from the old path to the new one.
resolve_path(path) ==
  LET k == SelectInSeq(mounts, LAMBDA b : Begins(path, b.old))
  IN  IF k = 0 THEN path ELSE mounts[k].new \o After(path, Len(mounts[k].old))

\* The number of entries that abyssfs_read_dir finds, max_entries at most, or -1.
\* That it takes the bytes of a file for entries is left out.
LEFT_OUT == -2
abyssfs_read_dir(path, max_entries) ==
  LET i == A!get_inode_by_path(blocks, AbyssPath(path))
      b == A!DirBlock(blocks, i)
  IN  CASE i = A!NONE     -> -1
        [] i = A!CONFUSED -> LEFT_OUT
        [] OTHER          -> IF b # 0 /\ ~A!IsDirBlock(b) THEN LEFT_OUT
                             ELSE R!Smaller(max_entries, Len(dir[b]))

\* What vfs_read_dir(path, dirents, max_entries) returns.
vfs_read_dir(path, max_entries, mem) ==
  LET q == resolve_namespace_path(path, mem)
  IN  CASE find_mount(q) = "ramfs"   -> Len(R!ramfs_read_dir(q, max_entries))
        [] find_mount(q) = "abyssfs" -> abyssfs_read_dir(q, max_entries)
        [] OTHER                     -> -1

\* What vfs_read_dir may return to a caller that asks whether path is a directory.
FirstEntry(path) == {vfs_read_dir(path, 1, mem) : mem \in BOOLEAN} \ {LEFT_OUT}

-----------------------------------------------------------------------------
(* The operations of the VFS.                                              *)

\* vfs_open(path).
vfs_open(path, mem) ==
  LET q == resolve_path(path)
  IN  IF Begins(q, TMP_SLASH)
        THEN \E i \in R!Slots \cup {R!NO_SLOT} :
               R!ramfs_open(q, mem, i) /\ alloc_fd(VfsFile("ramfs", i), TRUE) /\ NoAbyss
        ELSE A!abyssfs_open(mem) /\ alloc_fd(VfsFile("abyssfs", file'), TRUE)

\* vfs_create(path).
vfs_create(path, mem, kept) ==
  LET full == full_path(cwd, path)
  IN  IF Begins(full, TMP_SLASH) \/ find_mount(full) = "ramfs"
        THEN \E i \in R!Slots \cup {R!NO_SLOT} :
               /\ R!ramfs_create(full, mem, i)
               /\ alloc_fd(VfsFile("ramfs", i), kept)
               /\ NoAbyss
        ELSE /\ A!abyssfs_create(AbyssPath(full), AbyssPath(cwd), mem)
             /\ alloc_fd(VfsFile("abyssfs", file'), kept)
             /\ UNCHANGED files

\* vfs_unlink(path).  The mount point is the one of the full path, but the file
\* system gets the path as it is.
vfs_unlink(path) ==
  IF find_mount(full_path(cwd, path)) = "ramfs"
    THEN (\E i \in R!Slots \cup {R!NO_SLOT} : R!ramfs_unlink(path, i)) /\ NoAbyss
    ELSE A!abyssfs_unlink(AbyssPath(path)) /\ UNCHANGED files

\* vfs_unlink(path) has returned 0.
Unlinked(path) ==
  IF find_mount(full_path(cwd, path)) = "ramfs" THEN files' # files ELSE ret' = 0

\* vfs_mkdir(path).
vfs_mkdir(path) ==
  LET full == full_path(cwd, path)
  IN  IF find_mount(full) = "ramfs"
        THEN (\E r \in {0, -1} : R!ramfs_mkdir(full, r)) /\ NoAbyss
        ELSE A!abyssfs_mkdir(AbyssPath(full)) /\ UNCHANGED files

\* vfs_remove_recursive(path); RamFS has none.
vfs_remove_recursive(path) ==
  LET full == full_path(cwd, path)
  IN  IF find_mount(full) = "ramfs" THEN NoAbyss /\ UNCHANGED files
      ELSE A!abyssfs_remove_recursive(AbyssPath(full)) /\ UNCHANGED files

\* The units that vfs_read(fd, buf, count) reads from the open file f.
vfs_read(f, count) ==
  IF f.fs = "ramfs" THEN R!ReadUnits(files[f.obj], f.f_pos, count)
  ELSE [k \in 1 .. (IF f.f_pos >= size[f.obj] THEN 0 ELSE R!Smaller(count, size[f.obj] - f.f_pos))
          |-> data[blocks[f.obj]][f.f_pos + k - 1]]

\* vfs_write(fd, buf) to the open file f; AbyssFS does not advance f_pos.
vfs_write(f, buf) ==
  IF f.fs = "ramfs"
    THEN files' = [files EXCEPT ![f.obj] = R!Written(@, f.f_pos, buf)] /\ NoAbyss
    ELSE f.obj = file /\ A!abyssfs_write(buf) /\ UNCHANGED files

WriteResult(f, buf) == IF f.fs = "ramfs" THEN R!WriteCount(f.f_pos, buf) ELSE ret'

-----------------------------------------------------------------------------
(* send_message.                                                           *)

\* A message can come: none is being answered, and AbyssFS has not met one of its
\* faults, after which the memory of the kernel is not to be relied on.
Ready == call = Idle /\ fault = "none"

Answers(m, type) == Ready /\ m.type = type /\ UNCHANGED call

MSG_OPEN(m) ==
  /\ Answers(m, "MSG_OPEN")
  /\ \E mem \in BOOLEAN : vfs_open(m.path, mem)
  /\ UNCHANGED <<files, cwd, mounts>>

\* MSG_READ of descriptor fd.
MSG_READ(fd) ==
  /\ Ready
  /\ fd_table[fd] # NoFile
  /\ fd_table' = [fd_table EXCEPT ![fd].f_pos = @ + Len(vfs_read(fd_table[fd], READ_UNITS))]
  /\ NoAbyss /\ UNCHANGED <<files, next_fd, cwd, mounts, call>>

MSG_CREATE(m) ==
  /\ Answers(m, "MSG_CREATE")
  /\ \E mem \in BOOLEAN : vfs_create(m.path, mem, FALSE)
  /\ UNCHANGED <<cwd, mounts>>

MSG_MKDIR(m) ==
  /\ Answers(m, "MSG_MKDIR")
  /\ vfs_mkdir(m.path)
  /\ UNCHANGED <<fdVars, cwd, mounts>>

MSG_REMOVE(m) ==
  /\ Answers(m, "MSG_REMOVE")
  /\ vfs_unlink(m.path)
  /\ UNCHANGED <<fdVars, cwd, mounts>>

\* ramfs_create_file, which the test processes call without a message.
create_test_file(c) ==
  /\ Ready
  /\ \E r \in {0, -1} : R!ramfs_create_file(TestFile, c, r)
  /\ NoAbyss /\ UNCHANGED <<fdVars, cwd, mounts, call>>

\* rm -r of the kernel's own shell.
remove_recursive(m) ==
  /\ Answers(m, "remove_recursive")
  /\ vfs_remove_recursive(m.path)
  /\ UNCHANGED <<fdVars, cwd, mounts>>

MSG_CHDIR(m) ==
  LET full == vfs_normalize_path(full_path(cwd, m.path))
  IN  /\ Answers(m, "MSG_CHDIR")
      /\ \E n \in FirstEntry(full) : cwd' = IF n >= 0 THEN full ELSE cwd
      /\ NoAbyss /\ UNCHANGED <<files, fdVars, mounts>>

\* Mutated form of bind: the binding becomes the last.
bind_last(old, new) ==
  /\ vfs_read_dir(old, 1, TRUE) >= 0 /\ vfs_read_dir(new, 1, TRUE) >= 0
  /\ mounts' = Append(mounts, [old |-> old, new |-> new])

\* bind(old, new): both must be readable as directories, and kalloc must have room
\* for the binding, which becomes the first.
bind(old, new) ==
  \E n1 \in FirstEntry(old), n2 \in FirstEntry(new), mem \in BOOLEAN :
    mounts' = IF n1 >= 0 /\ n2 >= 0 /\ mem
                THEN <<[old |-> old, new |-> new]>> \o mounts ELSE mounts

\* unbind(path) takes out the first binding at exactly this path.
unbind(path) ==
  LET k == SelectInSeq(mounts, LAMBDA b : b.new = path)
  IN  mounts' = IF k = 0 THEN mounts ELSE RemoveAt(mounts, k)

MSG_BIND(m) ==
  /\ Answers(m, "MSG_BIND")
  /\ Len(mounts) < MAX_BINDINGS
  /\ bind(m.data, m.path)
  /\ NoAbyss /\ UNCHANGED <<files, fdVars, cwd>>

MSG_UNBIND(m) ==
  /\ Answers(m, "MSG_UNBIND")
  /\ unbind(m.path)
  /\ NoAbyss /\ UNCHANGED <<files, fdVars, cwd>>

-----------------------------------------------------------------------------
(* MSG_COPY and MSG_MOVE.                                                  *)

\* vfs_open of the source.  before is the RamFS that the message found.
OpenSource(m) ==
  /\ Ready /\ m.type \in {"MSG_COPY", "MSG_MOVE"}
  /\ \E mem \in BOOLEAN : vfs_open(m.path, mem)
  /\ call' = IF next_fd' = next_fd THEN Idle
             ELSE [pc |-> "create", msg |-> m, src |-> next_fd, dst |-> -1, before |-> files]
  /\ UNCHANGED <<files, cwd, mounts>>

\* vfs_create of the destination.
CreateDestination ==
  /\ call.pc = "create"
  /\ \E mem \in BOOLEAN : vfs_create(call.msg.data, mem, TRUE)
  /\ call' = IF next_fd' = next_fd THEN [call EXCEPT !.pc = "failed"]
             ELSE [call EXCEPT !.pc = "loop", !.dst = next_fd]
  /\ UNCHANGED <<cwd, mounts>>

\* Mutated form of EndOfSource: only an error ends the loop.
EndOfSource_never ==
  call.pc = "loop" /\ vfs_read(fd_table[call.src], CHUNK) = <<>> /\ UNCHANGED vars

\* vfs_read returns 0: the loop ends.
EndOfSource ==
  /\ call.pc = "loop"
  /\ vfs_read(fd_table[call.src], CHUNK) = <<>>
  /\ call' = [call EXCEPT !.pc = "copied"]
  /\ UNCHANGED <<abyssVars, files, fdVars, cwd, mounts>>

\* vfs_read of a chunk and vfs_write of it.
CopyChunk ==
  LET chunk == vfs_read(fd_table[call.src], CHUNK)
      n == WriteResult(fd_table[call.dst], chunk)
  IN  /\ call.pc = "loop"
      /\ chunk # <<>>
      /\ vfs_write(fd_table[call.dst], chunk)
      /\ fd_table' = [[fd_table EXCEPT ![call.src].f_pos = @ + Len(chunk)]
                        EXCEPT ![call.dst] = Advanced(@, n)]
      /\ call' = IF n = Len(chunk) THEN call ELSE [call EXCEPT !.pc = "failed"]
      /\ UNCHANGED <<next_fd, cwd, mounts>>

\* Mutated form of CloseBoth: only the end of a whole copy closes the source.
CloseBoth_leaks ==
  /\ call.pc \in {"copied", "failed"}
  /\ fd_table' = [fd \in Fds |-> IF fd = call.dst \/ (fd = call.src /\ call.pc = "copied")
                                   THEN NoFile ELSE fd_table[fd]]
  /\ call' = AfterClose
  /\ NoAbyss /\ UNCHANGED <<files, next_fd, cwd, mounts>>

\* vfs_close of the source and, when it was created, of the destination.
CloseBoth ==
  /\ call.pc \in {"copied", "failed"}
  /\ fd_table' = [fd \in Fds |-> IF fd \in {call.src, call.dst} THEN NoFile ELSE fd_table[fd]]
  /\ call' = AfterClose
  /\ NoAbyss /\ UNCHANGED <<files, next_fd, cwd, mounts>>

\* Mutated form of UnlinkSource: the destination is removed.
UnlinkSource_wrong ==
  /\ call.pc = "unlink"
  /\ vfs_unlink(call.msg.data)
  /\ call' = Idle
  /\ UNCHANGED <<fdVars, cwd, mounts>>

\* The vfs_unlink of the source that makes a copy a move.
UnlinkSource ==
  /\ call.pc = "unlink"
  /\ vfs_unlink(call.msg.path)
  /\ call' = IF Unlinked(call.msg.path) THEN Idle ELSE [call EXCEPT !.pc = "undo"]
  /\ UNCHANGED <<fdVars, cwd, mounts>>

\* Mutated form of UnlinkDestination: the source is removed.
UnlinkDestination_source ==
  /\ call.pc = "undo"
  /\ vfs_unlink(call.msg.path)
  /\ call' = Idle
  /\ UNCHANGED <<fdVars, cwd, mounts>>

\* The vfs_unlink of the destination after a move that failed.
UnlinkDestination ==
  /\ call.pc = "undo"
  /\ vfs_unlink(call.msg.data)
  /\ call' = Idle
  /\ UNCHANGED <<fdVars, cwd, mounts>>

-----------------------------------------------------------------------------

Transfer ==
  /\ fault = "none"
  /\ \/ CreateDestination
     \/ EndOfSource
     \/ CopyChunk
     \/ CloseBoth
     \/ UnlinkSource
     \/ UnlinkDestination

Next ==
  \/ \E c \in Contents : create_test_file(c)
  \/ \E m \in Requests : MSG_OPEN(m)
  \/ \E fd \in Fds : MSG_READ(fd)
  \/ \E m \in Requests : MSG_CREATE(m)
  \/ \E m \in Requests : MSG_MKDIR(m)
  \/ \E m \in Requests : MSG_REMOVE(m)
  \/ \E m \in Requests : remove_recursive(m)
  \/ \E m \in Requests : MSG_CHDIR(m)
  \/ \E m \in Requests : MSG_BIND(m)
  \/ \E m \in Requests : MSG_UNBIND(m)
  \/ \E m \in Requests : OpenSource(m)
  \/ Transfer

\* send_message goes on by itself once it has begun.
Spec == Init /\ [][Next]_vars /\ WF_vars(Transfer)

-----------------------------------------------------------------------------
(* Properties.                                                             *)

\* Descriptors lead to slots and inodes that exist, at positions inside the
\* arrays, and a copy in progress holds two descriptors that alloc_fd gave it.
TypeOK ==
  /\ A!TypeOK
  /\ next_fd \in 0 .. MAX_FD
  /\ \A fd \in Fds :
       \/ fd_table[fd] = NoFile
       \/ /\ fd < next_fd
          /\ \/ fd_table[fd].fs = "ramfs" /\ fd_table[fd].obj \in R!Slots
             \/ fd_table[fd].fs = "abyssfs" /\ fd_table[fd].obj \in A!Inodes
          /\ fd_table[fd].f_pos \in 0 .. MAX_CONTENT
  /\ \A i \in R!Slots : files[i].size \in 0 .. MAX_CONTENT
  /\ call.pc \in {"idle", "create", "loop", "copied", "failed", "unlink", "undo"}
  /\ call.src \in -1 .. next_fd - 1 /\ call.dst \in -1 .. next_fd - 1
  /\ call.pc = "loop" => call.src # -1 /\ call.dst > call.src

OpenRam(fd) == fd_table[fd].fs = "ramfs"

\* When the loop of MSG_COPY or MSG_MOVE between two RamFS files has come to the
\* end, a slot that was not in use has the destination's full path and the very
\* bytes that the source had when the message came, whatever an earlier file left
\* in that slot, and no other slot has changed.
CopyIsExact ==
  call.pc = "copied" /\ OpenRam(call.src) /\ OpenRam(call.dst) =>
    LET s == fd_table[call.src].obj
        d == fd_table[call.dst].obj
    IN  /\ call.before[d].path = R!Unused
        /\ files[d].path = full_path(cwd, call.msg.data)
        /\ R!Bytes(files[d]) = R!Bytes(call.before[s])
        /\ \A i \in R!Slots \ {d} : files[i] = call.before[i]

\* MSG_COPY and MSG_MOVE, when they fail half way included, leave every RamFS file
\* alone that was there before, but for the source at the vfs_unlink that ends a
\* move and for a file at the destination's path at the vfs_unlink that takes a
\* move back.
TransferTouchesNoOther ==
  [][call # Idle =>
       \A i \in R!Slots :
         \/ call.before[i].path = R!Unused
         \/ call.pc = "unlink" /\ call.before[i].path = call.msg.path
         \/ call.pc = "undo" /\ call.before[i].path = call.msg.data
         \/ files'[i] = call.before[i]]_vars

\* A MSG_MOVE to another path that returns 0 has removed the file that vfs_open
\* found, the first of its path, and not another of the same path; the
\* destination, when it is in RamFS, holds its bytes.
MoveMoves ==
  [][LET p == call.msg.path
         q == full_path(cwd, call.msg.data)
     IN  call.pc = "unlink" /\ call' = Idle /\ Begins(p, TMP_SLASH) /\ resolve_path(p) = p /\ p # q =>
           \E s \in R!Slots :
             /\ call.before[s].path = p
             /\ \A i \in R!Slots : call.before[i].path = p => s <= i
             /\ files'[s].path = R!Unused
             /\ \A i \in R!Slots \ {s} : call.before[i].path = p => files'[i] = call.before[i]
             /\ find_mount(q) = "ramfs" =>
                  \E d \in R!Slots : /\ files'[d].path = q /\ call.before[d].path = R!Unused
                                     /\ R!Bytes(files'[d]) = R!Bytes(call.before[s])]_vars

\* A message that copies or moves has closed both of its descriptors when it
\* returns, on every way out of it.
NoDescriptorLeak ==
  [][call # Idle /\ call' = Idle =>
       \A fd \in {call.src, call.dst} \ {-1} : fd_table'[fd] = NoFile]_vars

\* A descriptor that was closed never leads to a file again: a message that still
\* names it cannot read another file than the one it was opened for (alloc_fd).
ClosedStaysClosed ==
  [][\A fd \in Fds : fd < next_fd /\ fd_table[fd] = NoFile => fd_table'[fd] = NoFile]_vars

\* While there is a descriptor left, a file appears in RamFS only for a caller that
\* gets a descriptor for it, or by MSG_MKDIR or ramfs_create_file: ramfs_create gives
\* its slot back when kalloc refuses the vfs_file.
NoFileWithoutDescriptor ==
  [][(\E i \in R!Slots : files[i].path = R!Unused /\ files'[i].path # R!Unused) =>
       \/ next_fd' # next_fd
       \/ next_fd = MAX_FD
       \/ \E m \in Requests : MSG_MKDIR(m)
       \/ \E c \in Contents : create_test_file(c)]_vars

\* The current directory is always a plain absolute path, and MSG_CHDIR goes where
\* its path leads from the current directory component by component, or nowhere
\* (vfs_normalize_path).  Components are taken as AsTaken says: dots that are a
\* component of their own mean what they always do, but "cd /d/a.." goes to /d and
\* "cd /d/a." to /d/a, and neither to a directory of that name.
CdWalks ==
  [][cwd' # cwd =>
       /\ Canonical(cwd')
       /\ \E m \in Requests : /\ m.type = "MSG_CHDIR"
                              /\ cwd' = PathOf(Destination(full_path(cwd, m.path)))]_vars

\* Right after a MSG_BIND that made a binding, vfs_read_dir of the new path reads
\* the old one, whatever was bound there before (bind, resolve_namespace_path).
LatestBindingWins ==
  [][Len(mounts') > Len(mounts) =>
       \A m \in Requests :
         MSG_BIND(m) => resolve_namespace_path(m.path, TRUE)' = m.data]_vars

\* MSG_COPY and MSG_MOVE return, unless AbyssFS meets one of its faults on the way:
\* their loop ends for every source and destination.
TransferReturns == call # Idle ~> (call = Idle \/ fault # "none")

\* What the comment of MSG_REMOVE promises: the file that the path names is the one
\* that is removed.  An entry of the root goes only when the path, seen from the
\* current directory, has one component.
RemovesNamedFile ==
  [][\A m \in Requests :
       MSG_REMOVE(m) /\ dir'[A!RootBlock] # dir[A!RootBlock] =>
         Len(Components(full_path(cwd, m.path))) = 1]_vars

\* What the comment of MSG_BIND promises: opening a file below the new path opens
\* the file of the old path.
OpenShowsSource ==
  [][\A m \in Requests, k \in DOMAIN mounts :
       MSG_OPEN(m) /\ next_fd' # next_fd /\ Begins(m.path, mounts[k].new \o Slash) =>
         /\ fd_table'[next_fd].fs = "ramfs"
         /\ files[fd_table'[next_fd].obj].path
              = mounts[k].old \o After(m.path, Len(mounts[k].new))]_vars
=============================================================================
