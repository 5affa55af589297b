---------------------------- MODULE Descriptors ----------------------------
(***************************************************************************)
(* The descriptors of src/src/fs/vfs.c, and what a copy or a move in       *)
(* progress (MSG_COPY and MSG_MOVE of src/src/kernel/message.c) remembers  *)
(* of them.                                                                *)
(***************************************************************************)
EXTENDS Integers

CONSTANT MAX_FD   \* 32 in the code

ASSUME DescriptorAssumption == MAX_FD \in Nat

VARIABLES
  fd_table,       \* [fs, obj, f_pos] of the vfs_file of each descriptor, or NoFile
  next_fd,
  call            \* [pc, msg, src, dst, before] of the copy or move in progress

fdVars == <<fd_table, next_fd>>

Fds == 0 .. MAX_FD - 1

\* The empty entry of fd_table.
NoFile == [fs |-> "none", obj |-> -1, f_pos |-> 0]

\* The vfs_file of slot or inode i, NoFile when the file system returned NULL.
VfsFile(fs, i) == IF i = -1 THEN NoFile ELSE [fs |-> fs, obj |-> i, f_pos |-> 0]

\* No copy and no move is in progress.
Idle == [pc |-> "idle", msg |-> <<>>, src |-> -1, dst |-> -1, before |-> <<>>]

\* Mutated form of alloc_fd: the first descriptor that is not in use.
alloc_fd_reuses(f, kept) ==
  LET unused == {fd \in Fds : fd_table[fd] = NoFile}
      fd == CHOOSE fd \in unused : \A g \in unused : fd <= g
  IN  IF f = NoFile \/ unused = {} THEN UNCHANGED fdVars
      ELSE /\ fd_table' = IF kept THEN [fd_table EXCEPT ![fd] = f] ELSE fd_table
           /\ next_fd' = IF fd = next_fd THEN next_fd + 1 ELSE next_fd

\* Mutated form of alloc_fd: one descriptor too many.
alloc_fd_one_more(f, kept) ==
  IF f = NoFile \/ next_fd > MAX_FD THEN UNCHANGED fdVars
  ELSE /\ fd_table' = IF kept THEN [fd_table EXCEPT ![next_fd] = f] ELSE fd_table
       /\ next_fd' = next_fd + 1

\* alloc_fd(file): descriptors are not used again, and when there is none left
\* the vfs_file is lost.  Without kept the caller closes the descriptor at once.
alloc_fd(f, kept) ==
  IF f = NoFile \/ next_fd >= MAX_FD THEN UNCHANGED fdVars
  ELSE /\ fd_table' = IF kept THEN [fd_table EXCEPT ![next_fd] = f] ELSE fd_table
       /\ next_fd' = next_fd + 1

\* Mutated form of Advanced: f_pos stays.
Advanced_stays(f, n) == f

Advanced(f, n) == IF f.fs = "ramfs" THEN [f EXCEPT !.f_pos = @ + n] ELSE f

\* What is left to do when the descriptors are closed.
AfterClose ==
  CASE call.msg.type = "MSG_COPY" -> Idle
    [] call.pc = "copied"         -> [call EXCEPT !.pc = "unlink"]
    [] call.dst # -1              -> [call EXCEPT !.pc = "undo"]
    [] OTHER                      -> Idle
=============================================================================
