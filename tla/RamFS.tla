------------------------------- MODULE RamFS -------------------------------
(***************************************************************************)
(* The file system for /tmp of src/src/fs/ramfs.c: a table of slots, each  *)
(* with a path, an array of bytes and a size.                              *)
(*                                                                         *)
(* A slot is used when it has a path; used = 0 is path = Unused.  Bytes    *)
(* are counted in units; unit 0 holds the '\0' that ends a string.  What   *)
(* the arrays of unused slots hold is kept, because an open file may still *)
(* lead there.  An open file remembers in live, which the code does not    *)
(* have, whether its file was removed since it was opened.                 *)
(***************************************************************************)
EXTENDS Integers, Sequences, Paths, FiniteSets

CONSTANTS
  MAX_FILES,      \* 16 in the code
  MAX_CONTENT,    \* 4096 bytes in the code
  MAX_OPEN,       \* bound: vfs_files that are in use at a time
  FilePaths,      \* bound: the paths that callers pass
  Contents,       \* bound: what ramfs_create_file stores, what is written
  Counts          \* bound: how much a caller asks to read

Slots == 0 .. MAX_FILES - 1
Offsets == 0 .. MAX_CONTENT - 1
Handles == 1 .. MAX_OPEN
Unused == <<>>
NO_SLOT == -1

ASSUME RamAssumption ==
  /\ MAX_FILES \in Nat /\ MAX_CONTENT \in Nat \ {0} /\ MAX_OPEN \in Nat
  /\ FilePaths \subseteq Seq(STRING) \ {Unused}
  /\ Contents \subseteq Seq(Nat \ {0}) \ {<<>>}
  /\ Counts \subseteq Nat \ {0}

VARIABLES
  files,          \* [path, content, size] of every slot
  opened,         \* [slot, f_pos, live] of every vfs_file, slot NO_SLOT for none
  out             \* what the last operation copied to its caller, if it was ramfs_read

vars == <<files, opened, out>>

NoFile == [slot |-> NO_SLOT, f_pos |-> 0, live |-> FALSE]

Init ==
  /\ files = [i \in Slots |-> [path |-> Unused, content |-> [k \in Offsets |-> 0], size |-> 0]]
  /\ opened = [h \in Handles |-> NoFile]
  /\ out = <<>>

Smaller(a, b) == IF a <= b THEN a ELSE b
Larger(a, b) == IF a >= b THEN a ELSE b

-----------------------------------------------------------------------------
(* Slots.                                                                  *)

\* i is the first slot with a path in P, NO_SLOT when there is none.
FirstWith(i, P) ==
  \/ i = NO_SLOT /\ \A j \in Slots : files[j].path \notin P
  \/ /\ i \in Slots /\ files[i].path \in P
     /\ \A j \in Slots : files[j].path \in P => i <= j

\* The array after buf is copied to offset pos.
Copied(content, pos, buf) ==
  [k \in Offsets |-> IF k \in pos .. pos + Len(buf) - 1 THEN buf[k - pos + 1] ELSE content[k]]

\* The units of slot i that belong to its file.
Bytes(f) == [k \in 1 .. f.size |-> f.content[k - 1]]

\* ramfs_create_file(path, content) fills slot i: no more than MAX_CONTENT - 1
\* units, and a '\0'.
FilledSlot(i, path, content) ==
  LET c == Smaller(Len(content), MAX_CONTENT - 1)
  IN  [path |-> path, size |-> c,
       content |-> Copied(files[i].content, 0, Append(SubSeq(content, 1, c), 0))]

\* Mutated form of EmptySlot: the size of the file before is kept.
EmptySlot_keeps_size(i, path) == [files[i] EXCEPT !.path = path, !.content[0] = 0]

\* ramfs_create and ramfs_mkdir take slot i; the array is not cleared.
EmptySlot(i, path) == [path |-> path, size |-> 0, content |-> [files[i].content EXCEPT ![0] = 0]]
DirSlot(i, path) == [files[i] EXCEPT !.path = path, !.size = 0]
FreedSlot(i) == [files[i] EXCEPT !.path = Unused, !.size = 0]

\* The full_path of ramfs_create.
CreatedPath(path) == IF Begins(path, TMP_SLASH) THEN path ELSE TMP_SLASH \o path

\* Mutated form of ramfs_create: used = 1 stays when kalloc refuses.
ramfs_create_keeps_slot(path, mem, i) ==
  \/ i = NO_SLOT /\ FirstWith(NO_SLOT, {Unused}) /\ UNCHANGED files
  \/ \E j \in Slots :
       /\ FirstWith(j, {Unused})
       /\ i = IF mem THEN j ELSE NO_SLOT
       /\ files' = [files EXCEPT ![j] = EmptySlot(j, CreatedPath(path))]

\* ramfs_create(path) takes slot i, or i is NO_SLOT and it returns NULL; mem tells
\* whether kalloc has room for the vfs_file.
ramfs_create(path, mem, i) ==
  \/ /\ i = NO_SLOT
     /\ FirstWith(NO_SLOT, {Unused})
     /\ UNCHANGED files
  \/ \E j \in Slots :
       LET new == EmptySlot(j, CreatedPath(path))
       IN  /\ FirstWith(j, {Unused})
           /\ i = IF mem THEN j ELSE NO_SLOT
           /\ files' = [files EXCEPT ![j] = IF mem THEN new ELSE [new EXCEPT !.path = Unused]]

\* ramfs_open(path) finds slot i.
ramfs_open(path, mem, i) ==
  \/ i = NO_SLOT /\ ~mem
  \/ mem /\ FirstWith(i, {path})

\* ramfs_create_file(path, content) returns r.
ramfs_create_file(path, content, r) ==
  \/ r = -1 /\ FirstWith(NO_SLOT, {Unused}) /\ UNCHANGED files
  \/ \E i \in Slots :
       /\ FirstWith(i, {Unused})
       /\ files' = [files EXCEPT ![i] = FilledSlot(i, path, content)]
       /\ r = 0

\* ramfs_mkdir(path) returns r.
ramfs_mkdir(path, r) ==
  \/ r = -1 /\ FirstWith(NO_SLOT, {Unused}) /\ UNCHANGED files
  \/ \E i \in Slots :
       /\ FirstWith(i, {Unused})
       /\ files' = [files EXCEPT ![i] = DirSlot(i, path)]
       /\ r = 0

\* ramfs_unlink(path) frees slot i, NO_SLOT when it returns -1.
ramfs_unlink(path, i) ==
  \/ i = NO_SLOT /\ FirstWith(NO_SLOT, {path}) /\ UNCHANGED files
  \/ /\ i \in Slots /\ FirstWith(i, {path})
     /\ files' = [files EXCEPT ![i] = FreedSlot(i)]

-----------------------------------------------------------------------------
(* Bytes.                                                                  *)

\* What ramfs_read(file, buf, count) returns, and copies.
ReadCount(f, pos, count) == IF pos >= f.size THEN 0 ELSE Smaller(count, f.size - pos)
ReadUnits(f, pos, count) == [k \in 1 .. ReadCount(f, pos, count) |-> f.content[pos + k - 1]]

\* Mutated form of WriteCount: the end of the array is not looked at.
WriteCount_unclipped(pos, buf) == Len(buf)

\* What ramfs_write(file, buf, count) returns, and the slot afterwards.
WriteCount(pos, buf) == Smaller(Len(buf), MAX_CONTENT - pos)

\* Mutated form of Written: the size is set to the new position.
Written_cuts(f, pos, buf) ==
  LET n == WriteCount(pos, buf)
  IN  IF n = 0 THEN f
      ELSE [f EXCEPT !.content = Copied(@, pos, SubSeq(buf, 1, n)), !.size = pos + n]

Written(f, pos, buf) ==
  LET n == WriteCount(pos, buf)
  IN  IF n = 0 THEN f
      ELSE [f EXCEPT !.content = Copied(@, pos, SubSeq(buf, 1, n)),
                     !.size = Larger(@, pos + n)]

-----------------------------------------------------------------------------
(* Directories.                                                            *)

\* Mutated form of is_file_in_dir: any path that begins with the directory's.
is_file_in_dir_prefix(file_path, dir_path) ==
  Begins(file_path, dir_path) /\ LastSlash(file_path) >= Len(dir_path)

is_file_in_dir(file_path, dir_path) ==
  /\ Begins(file_path, dir_path)
  /\ IF dir_path = TMP
       THEN /\ Len(file_path) > Len(dir_path) /\ file_path[Len(dir_path) + 1] = "/"
            /\ LastSlash(After(file_path, Len(dir_path) + 1)) = 0
       ELSE LastSlash(file_path) = Len(dir_path) + 1

get_basename(path) == After(path, LastSlash(path))

\* The slots that ramfs_read_dir lists after "." and "..", in their order.
Listed(path) ==
  SelectSeq([k \in 1 .. MAX_FILES |-> k - 1],
            LAMBDA i : files[i].path # Unused /\ is_file_in_dir(files[i].path, path))

\* The names that ramfs_read_dir(path, dirents, max_entries) stores.
ramfs_read_dir(path, max_entries) ==
  LET names == << <<".">>, <<"..">> >> \o
               [k \in 1 .. Len(Listed(path)) |-> get_basename(files[Listed(path)[k]].path)]
  IN  SubSeq(names, 1, Smaller(max_entries, Len(names)))

-----------------------------------------------------------------------------
(* What the VFS and the kernel's tests call.  A vfs_file is a handle.      *)

FreeHandle(h) == opened[h] = NoFile /\ \A g \in Handles : opened[g] = NoFile => h <= g

\* The handle of a file that was created or found in slot i.
Opened(h, i) ==
  IF i = NO_SLOT THEN opened
  ELSE [opened EXCEPT ![h] = [slot |-> i, f_pos |-> 0, live |-> TRUE]]

Create(path, mem, h) ==
  \E i \in Slots \cup {NO_SLOT} :
    /\ FreeHandle(h)
    /\ ramfs_create(path, mem, i)
    /\ opened' = Opened(h, i)
    /\ out' = <<>>

Open(path, mem, h) ==
  \E i \in Slots \cup {NO_SLOT} :
    /\ FreeHandle(h)
    /\ ramfs_open(path, mem, i)
    /\ opened' = Opened(h, i)
    /\ UNCHANGED files /\ out' = <<>>

CreateFile(path, content) ==
  /\ \E r \in {0, -1} : ramfs_create_file(path, content, r)
  /\ UNCHANGED opened /\ out' = <<>>

Mkdir(path) ==
  /\ \E r \in {0, -1} : ramfs_mkdir(path, r)
  /\ UNCHANGED opened /\ out' = <<>>

Unlink(path) ==
  \E i \in Slots \cup {NO_SLOT} :
    /\ ramfs_unlink(path, i)
    /\ opened' = [h \in Handles |->
                    IF opened[h].slot = i THEN [opened[h] EXCEPT !.live = FALSE] ELSE opened[h]]
    /\ out' = <<>>

Read(h, count) ==
  LET file == opened[h]
  IN  /\ file # NoFile
      /\ out' = ReadUnits(files[file.slot], file.f_pos, count)
      /\ opened' = [opened EXCEPT ![h].f_pos = @ + ReadCount(files[file.slot], @, count)]
      /\ UNCHANGED files

Write(h, buf) ==
  LET file == opened[h]
  IN  /\ file # NoFile
      /\ files' = [files EXCEPT ![file.slot] = Written(@, file.f_pos, buf)]
      /\ opened' = [opened EXCEPT ![h].f_pos = @ + WriteCount(@, buf)]
      /\ out' = <<>>

\* vfs_close: the vfs_file is given up, the slot stays.
Close(h) ==
  /\ opened[h] # NoFile
  /\ opened' = [opened EXCEPT ![h] = NoFile]
  /\ UNCHANGED files /\ out' = <<>>

Next ==
  \/ \E p \in FilePaths, c \in Contents : CreateFile(p, c)
  \/ \E p \in FilePaths : Mkdir(p)
  \/ \E p \in FilePaths : Unlink(p)
  \/ \E p \in FilePaths, mem \in BOOLEAN, h \in Handles : Create(p, mem, h)
  \/ \E p \in FilePaths, mem \in BOOLEAN, h \in Handles : Open(p, mem, h)
  \/ \E h \in Handles, n \in Counts : Read(h, n)
  \/ \E h \in Handles, buf \in Contents : Write(h, buf)
  \/ \E h \in Handles : Close(h)

Spec == Init /\ [][Next]_vars

-----------------------------------------------------------------------------
(* Properties.                                                             *)

Slot == [path : FilePaths \cup {CreatedPath(p) : p \in FilePaths} \cup {Unused},
         content : [Offsets -> Nat], size : 0 .. MAX_CONTENT]

TypeOK ==
  /\ files \in [Slots -> Slot]
  /\ opened \in [Handles -> [slot : Slots \cup {NO_SLOT}, f_pos : 0 .. MAX_CONTENT,
                             live : BOOLEAN]]
  /\ out \in Seq(Nat)

\* The position of an open file is never behind the end of its file (ramfs_read,
\* ramfs_write) as long as the file is not removed, so that a write never leaves
\* a gap that shows what an older file left in the slot's array.
PositionInFile ==
  \A h \in Handles : opened[h].live =>
    /\ opened[h].slot \in Slots
    /\ files[opened[h].slot].path # Unused
    /\ opened[h].f_pos <= files[opened[h].slot].size

\* The table of slots is a store of named files, of which each is changed only
\* through files opened on it (ramfs_create, ramfs_open, ramfs_read, ramfs_write,
\* ramfs_unlink, ramfs_mkdir, ramfs_create_file).
Store ==
  INSTANCE FileStore WITH
    name <- [i \in Slots |-> files[i].path],
    data <- [i \in Slots |-> IF files[i].path = Unused THEN <<>> ELSE Bytes(files[i])],
    Capacity <- MAX_CONTENT, Buffers <- Contents

IsFileStore == Store!Spec

\* The canonical paths that are the start of a file's path.
Directories == {d \in UNION {Prefixes(p) : p \in FilePaths} : Canonical(d) /\ d # Slash}

\* ramfs_read_dir of a directory other than the root lists the files one component
\* below it, and no others, under their last components: not the files below
\* those, nor the files of a directory whose name only begins like this one's.
ListsChildren ==
  \A d \in Directories :
    LET children == {i \in Slots : /\ files[i].path # Unused
                                   /\ Front(Components(files[i].path)) = Components(d)}
        names == ramfs_read_dir(d, MAX_FILES + 2)
    IN  /\ Len(names) = Cardinality(children) + 2
        /\ {names[k] : k \in 3 .. Len(names)} = {Last(Components(files[i].path)) : i \in children}
=============================================================================
