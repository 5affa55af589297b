---------------------------- MODULE FilesProofs ----------------------------
(***************************************************************************)
(* Descriptors are not used again after they are closed, and a copy or a   *)
(* move closes the ones it took, for every number of descriptors, every    *)
(* set of messages and every state of the two file systems.  Each step of  *)
(* Files is of one of the kinds that DescriptorProofs is about.            *)
(***************************************************************************)
EXTENDS Files, DescriptorProofs

\* vfs_open touches the table through alloc_fd only.
LEMMA OpensAlloc ==
  ASSUME NEW path, NEW mem \in BOOLEAN, vfs_open(path, mem)
  PROVE  \E fs \in {"ramfs", "abyssfs"} : \E i : alloc_fd(VfsFile(fs, i), TRUE)
<1>1. CASE Begins(resolve_path(path), TMP_SLASH)
  BY <1>1 DEF vfs_open
<1>2. CASE ~Begins(resolve_path(path), TMP_SLASH)
  BY <1>2 DEF vfs_open
<1> QED
  BY <1>1, <1>2

\* So does vfs_create.
LEMMA CreatesAlloc ==
  ASSUME NEW path, NEW mem \in BOOLEAN, NEW kept \in BOOLEAN, vfs_create(path, mem, kept)
  PROVE  \E fs \in {"ramfs", "abyssfs"} : \E i : alloc_fd(VfsFile(fs, i), kept)
<1> DEFINE full == full_path(cwd, path)
           ram == Begins(full, TMP_SLASH) \/ find_mount(full) = "ramfs"
<1>1. CASE ram
  BY <1>1 DEF vfs_create
<1>2. CASE ~ram
  BY <1>2 DEF vfs_create
<1> QED
  BY <1>1, <1>2

\* The messages that are answered in one step.
LEMMA MessageStep ==
  ASSUME IInv, NEW m,
         \/ MSG_OPEN(m) \/ MSG_CREATE(m) \/ MSG_MKDIR(m) \/ MSG_REMOVE(m) \/ remove_recursive(m)
         \/ MSG_CHDIR(m) \/ MSG_BIND(m) \/ MSG_UNBIND(m)
  PROVE  Good
<1>1. call = Idle /\ UNCHANGED call
  BY DEF MSG_OPEN, MSG_CREATE, MSG_MKDIR, MSG_REMOVE, remove_recursive, MSG_CHDIR, MSG_BIND,
         MSG_UNBIND, Answers, Ready
<1>2. CASE MSG_OPEN(m)
  BY <1>1, <1>2, OpensAlloc, TakeKind DEF MSG_OPEN
<1>3. CASE MSG_CREATE(m)
  BY <1>1, <1>3, CreatesAlloc, TakeKind DEF MSG_CREATE
<1>4. CASE \/ MSG_MKDIR(m) \/ MSG_REMOVE(m) \/ remove_recursive(m)
           \/ MSG_CHDIR(m) \/ MSG_BIND(m) \/ MSG_UNBIND(m)
  <2>1. UNCHANGED fdVars
    BY <1>4 DEF MSG_MKDIR, MSG_REMOVE, remove_recursive, MSG_CHDIR, MSG_BIND, MSG_UNBIND
  <2> QED
    BY <1>1, <2>1, SameKind
<1> QED
  BY <1>2, <1>3, <1>4

\* MSG_READ of an open descriptor.
LEMMA ReadStep == ASSUME IInv, NEW fd \in Fds, MSG_READ(fd) PROVE Good
<1>1. /\ call = Idle /\ UNCHANGED call /\ fd_table[fd] # NoFile /\ next_fd' = next_fd
      /\ \E x : fd_table' = [fd_table EXCEPT ![fd] = [fd_table[fd] EXCEPT !.f_pos = x]]
  BY DEF MSG_READ, Ready
<1> QED
  BY <1>1, ReadKind

\* The vfs_open of the source.
LEMMA OpenSourceStep == ASSUME IInv, NEW m, OpenSource(m) PROVE Good
<1>1. call = Idle
  BY DEF OpenSource, Ready
<1>2. \E fs \in {"ramfs", "abyssfs"} : \E i : alloc_fd(VfsFile(fs, i), TRUE)
  BY OpensAlloc DEF OpenSource
<1>3. \E b : call' = IF next_fd' = next_fd THEN Idle
                     ELSE [pc |-> "create", msg |-> m, src |-> next_fd, dst |-> -1, before |-> b]
  BY DEF OpenSource
<1> QED
  BY <1>1, <1>2, <1>3, OpenKind

\* The vfs_create of the destination.
LEMMA CreateDestinationStep == ASSUME IInv, CreateDestination PROVE Good
<1>1. \E fs \in {"ramfs", "abyssfs"} : \E i : alloc_fd(VfsFile(fs, i), TRUE)
  BY CreatesAlloc DEF CreateDestination
<1>2. /\ call.pc = "create"
      /\ call' = IF next_fd' = next_fd THEN [call EXCEPT !.pc = "failed"]
                 ELSE [call EXCEPT !.pc = "loop", !.dst = next_fd]
  BY DEF CreateDestination
<1> QED
  BY <1>1, <1>2, CreateKind

\* vfs_read and vfs_write of a chunk.
LEMMA CopyChunkStep == ASSUME IInv, CopyChunk PROVE Good
<1>1. /\ call.pc = "loop" /\ next_fd' = next_fd
      /\ call' = call \/ call' = [call EXCEPT !.pc = "failed"]
      /\ \E x, n : fd_table' = [[fd_table EXCEPT ![call.src].f_pos = x]
                                  EXCEPT ![call.dst] = Advanced(@, n)]
  BY DEF CopyChunk
<1> QED
  BY <1>1, ChunkKind

\* The rest of a copy or a move.
LEMMA TransferStep == ASSUME IInv, Transfer PROVE Good
<1>1. CASE EndOfSource
  BY <1>1, EndKind DEF EndOfSource
<1>2. CASE CloseBoth
  BY <1>2, CloseKind DEF CloseBoth
<1>3. CASE UnlinkSource \/ UnlinkDestination
  BY <1>3, UnlinkKind DEF UnlinkSource, UnlinkDestination
<1> QED
  BY <1>1, <1>2, <1>3, CreateDestinationStep, CopyChunkStep DEF Transfer

\* The invariant holds when the kernel starts.
LEMMA InitIInv == Init => IInv
  BY StartKind DEF Init

\* Every step keeps the invariant, leaves closed descriptors closed, and ends a
\* copy or a move with both of its descriptors closed.
LEMMA NextIInv == IInv /\ [Next]_vars => Good
<1> SUFFICES ASSUME IInv, [Next]_vars PROVE Good
  OBVIOUS
<1>1. CASE UNCHANGED vars
  BY <1>1, SameKind DEF vars
<1>2. CASE \E c \in Contents : create_test_file(c)
  BY <1>2, SameKind DEF create_test_file
<1> QED
  BY <1>1, <1>2, MessageStep, ReadStep, OpenSourceStep, TransferStep DEF Next

-----------------------------------------------------------------------------

\* A descriptor that was closed never leads to a file again (alloc_fd, vfs_close),
\* for every number of descriptors and every sequence of messages.
THEOREM DescriptorsAreNotReused == Spec => ClosedStaysClosed
<1>1. Good => IInv' /\ \A fd \in Fds : fd < next_fd /\ fd_table[fd] = NoFile => fd_table'[fd] = NoFile
  BY DEF Good, TableStep
<1> QED
  BY InitIInv, NextIInv, <1>1, PTL DEF Spec, ClosedStaysClosed

\* MSG_COPY and MSG_MOVE return with both descriptors closed on every way out, for
\* every source, destination and state of the file systems.
THEOREM TransfersCloseDescriptors == Spec => NoDescriptorLeak
<1>1. Good => /\ IInv'
              /\ call # Idle /\ call' = Idle =>
                   \A fd \in {call.src, call.dst} \ {-1} : fd_table'[fd] = NoFile
  BY DEF Good, EndsClosed
<1> QED
  BY InitIInv, NextIInv, <1>1, PTL DEF Spec, NoDescriptorLeak
=============================================================================
