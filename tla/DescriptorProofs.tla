-------------------------- MODULE DescriptorProofs --------------------------
(***************************************************************************)
(* What the steps of Files do to fd_table and to the copy or move in       *)
(* progress, whatever they do to the file systems.  FilesProofs shows that *)
(* the steps are of these kinds.                                           *)
(***************************************************************************)
EXTENDS Descriptors, TLAPS

\* f is a vfs_file and not the empty entry of fd_table.
IsOpen(f) == "fs" \in DOMAIN f /\ f.fs # "none"

\* fd was handed out by alloc_fd.
Given(fd) == fd \in Fds /\ fd < next_fd

\* The table has open files and empty entries.
TableOK ==
  /\ next_fd \in Nat
  /\ DOMAIN fd_table = Fds
  /\ \A fd \in Fds : fd_table[fd] = NoFile \/ IsOpen(fd_table[fd])

\* What a copy or a move holds in each of its stages.
CallOK ==
  /\ DOMAIN call = {"pc", "msg", "src", "dst", "before"}
  /\ call.pc \in {"create", "loop"} => Given(call.src) /\ IsOpen(fd_table[call.src])
  /\ call.pc = "create" => call.dst = -1
  /\ call.pc = "loop" => Given(call.dst) /\ IsOpen(fd_table[call.dst])
  /\ call.pc \in {"copied", "failed"} => Given(call.src) /\ (call.dst = -1 \/ Given(call.dst))
  /\ call.pc \in {"unlink", "undo"} =>
       \A fd \in {call.src, call.dst} \ {-1} : Given(fd) /\ fd_table[fd] = NoFile

IInv == TableOK /\ CallOK

\* What a step may do to the table: hand out the next descriptor, and change
\* descriptors that are open.
TableStep ==
  /\ next_fd' \in Nat /\ next_fd <= next_fd'
  /\ \A fd \in Fds : fd < next_fd /\ fd_table[fd] = NoFile => fd_table'[fd] = NoFile

\* Both descriptors of a copy or a move that ends are closed.
EndsClosed ==
  call # Idle /\ call' = Idle =>
    \A fd \in {call.src, call.dst} \ {-1} : fd_table'[fd] = NoFile

\* What is shown of every step.
Good == IInv' /\ TableStep /\ EndsClosed

\* A change of f_pos keeps a file open.
LEMMA StaysOpen ==
  ASSUME NEW f, IsOpen(f), NEW x
  PROVE  IsOpen([f EXCEPT !.f_pos = x])
  BY DEF IsOpen

\* The empty entry is not an open file, and what a file system returned is one,
\* or nothing.
LEMMA VfsFileOpen ==
  ASSUME NEW fs \in {"ramfs", "abyssfs"}, NEW i
  PROVE  /\ ~IsOpen(NoFile)
         /\ VfsFile(fs, i) = NoFile \/ IsOpen(VfsFile(fs, i))
  BY DEF IsOpen, NoFile, VfsFile

\* A step that leaves the table alone.
LEMMA SameTable ==
  ASSUME TableOK, UNCHANGED fdVars
  PROVE  TableOK' /\ TableStep /\ fd_table' = fd_table /\ next_fd' = next_fd
<1>1. fd_table' = fd_table /\ next_fd' = next_fd
  BY DEF fdVars
<1>2. TableOK'
  BY <1>1 DEF TableOK, IsOpen, NoFile, Fds
<1>3. TableStep
  BY <1>1 DEF TableOK, TableStep
<1> QED
  BY <1>1, <1>2, <1>3

\* alloc_fd changes no descriptor that was handed out before.
LEMMA AllocFd ==
  ASSUME TableOK, NEW fs \in {"ramfs", "abyssfs"}, NEW i, NEW kept \in BOOLEAN,
         alloc_fd(VfsFile(fs, i), kept)
  PROVE  /\ TableOK' /\ TableStep
         /\ \A fd \in Fds : fd < next_fd => fd_table'[fd] = fd_table[fd]
         /\ next_fd' # next_fd => /\ next_fd \in Fds /\ next_fd' = next_fd + 1
                                  /\ kept => IsOpen(fd_table'[next_fd])
<1> DEFINE f == VfsFile(fs, i)
<1>1. f = NoFile \/ IsOpen(f)
  BY VfsFileOpen
<1>2. CASE f = NoFile \/ next_fd >= MAX_FD
  <2>1. UNCHANGED fdVars
    BY <1>2 DEF alloc_fd
  <2> QED
    BY <2>1, SameTable
<1>3. CASE ~(f = NoFile \/ next_fd >= MAX_FD)
  <2>1. /\ fd_table' = IF kept THEN [fd_table EXCEPT ![next_fd] = f] ELSE fd_table
        /\ next_fd' = next_fd + 1
    BY <1>3 DEF alloc_fd
  <2> HIDE DEF f
  <2>2. next_fd \in Fds /\ next_fd \in Nat
    BY <1>3, DescriptorAssumption DEF TableOK, Fds
  <2>3. DOMAIN fd_table' = Fds
    BY <2>1 DEF TableOK, Fds
  <2>4. \A fd \in Fds : fd_table'[fd] = IF kept /\ fd = next_fd THEN f ELSE fd_table[fd]
    BY <2>1 DEF TableOK
  <2>5. IsOpen(f)
    BY <1>1, <1>3
  <2>6. \A fd \in Fds : fd_table'[fd] = NoFile \/ IsOpen(fd_table'[fd])
    BY <2>4, <2>5 DEF TableOK
  <2>7. TableOK'
    BY <2>1, <2>2, <2>3, <2>6 DEF TableOK, IsOpen, NoFile, Fds
  <2>8. \A fd \in Fds : fd < next_fd => fd_table'[fd] = fd_table[fd]
    BY <2>2, <2>4
  <2> QED
    BY <2>1, <2>2, <2>4, <2>5, <2>7, <2>8 DEF TableStep
<1> QED
  BY <1>2, <1>3

\* A message that is answered in one step and leaves the table alone, or takes a
\* descriptor.
LEMMA AnswerStep ==
  ASSUME IInv, call = Idle, UNCHANGED call, TableOK', TableStep
  PROVE  IInv' /\ TableStep /\ EndsClosed
<1>1. call' = Idle /\ Idle.pc = "idle" /\ DOMAIN Idle = {"pc", "msg", "src", "dst", "before"}
  BY DEF Idle
<1>2. CallOK'
  BY <1>1 DEF CallOK
<1> QED
  BY <1>1, <1>2 DEF IInv, EndsClosed

\* The kernel starts with an empty table.
LEMMA StartKind ==
  ASSUME fd_table = [fd \in Fds |-> NoFile], next_fd = 0, call = Idle
  PROVE  IInv
<1>1. TableOK
  BY DEF TableOK
<1>2. CallOK
  BY DEF CallOK, Idle
<1> QED
  BY <1>1, <1>2 DEF IInv

\* Nothing happens to the descriptors.
LEMMA SameKind ==
  ASSUME IInv, UNCHANGED fdVars, call' = call
  PROVE  Good
<1>1. TableOK' /\ TableStep /\ fd_table' = fd_table /\ next_fd' = next_fd
  BY SameTable DEF IInv
<1>2. CallOK'
  BY <1>1 DEF IInv, CallOK, Given, IsOpen, NoFile, Fds
<1> QED
  BY <1>1, <1>2 DEF Good, IInv, EndsClosed

\* A message takes a descriptor, or none.
LEMMA TakeKind ==
  ASSUME IInv, call = Idle, UNCHANGED call, NEW kept \in BOOLEAN,
         NEW fs \in {"ramfs", "abyssfs"}, NEW i, alloc_fd(VfsFile(fs, i), kept)
  PROVE  Good
<1>1. TableOK' /\ TableStep
  BY AllocFd DEF IInv
<1> QED
  BY <1>1, AnswerStep DEF Good

\* A message moves the position of an open file.
LEMMA ReadKind ==
  ASSUME IInv, call = Idle, UNCHANGED call, next_fd' = next_fd, NEW fd \in Fds,
         fd_table[fd] # NoFile, NEW x,
         fd_table' = [fd_table EXCEPT ![fd] = [fd_table[fd] EXCEPT !.f_pos = x]]
  PROVE  Good
<1>3. IsOpen(fd_table[fd])
  BY DEF IInv, TableOK
<1>4. IsOpen([fd_table[fd] EXCEPT !.f_pos = x])
  BY <1>3, StaysOpen
<1>5. \A g \in Fds : fd_table'[g] = IF g = fd THEN [fd_table[fd] EXCEPT !.f_pos = x] ELSE fd_table[g]
  BY DEF IInv, TableOK
<1>6. \A g \in Fds : fd_table'[g] = NoFile \/ IsOpen(fd_table'[g])
  BY <1>4, <1>5 DEF IInv, TableOK
<1>7. DOMAIN fd_table' = Fds
  BY DEF IInv, TableOK
<1>8. TableOK'
  BY <1>6, <1>7 DEF IInv, TableOK, IsOpen, NoFile, Fds
<1>9. TableStep
  BY <1>5 DEF IInv, TableOK, TableStep
<1> QED
  BY <1>8, <1>9, AnswerStep DEF Good

\* A copy or a move begins with a descriptor for the source.
LEMMA OpenKind ==
  ASSUME IInv, call = Idle, NEW m, NEW b,
         NEW fs \in {"ramfs", "abyssfs"}, NEW i, alloc_fd(VfsFile(fs, i), TRUE),
         call' = IF next_fd' = next_fd THEN Idle
                 ELSE [pc |-> "create", msg |-> m, src |-> next_fd, dst |-> -1, before |-> b]
  PROVE  Good
<1>3. /\ TableOK' /\ TableStep
      /\ next_fd' # next_fd => /\ next_fd \in Fds /\ next_fd' = next_fd + 1
                               /\ IsOpen(fd_table'[next_fd])
  BY AllocFd DEF IInv
<1>4. CallOK'
  <2>1. CASE next_fd' = next_fd
    <3>1. call' = Idle
      BY <2>1
    <3> QED
      BY <3>1 DEF CallOK, Idle
  <2>2. CASE next_fd' # next_fd
    <3>1. call' = [pc |-> "create", msg |-> m, src |-> next_fd, dst |-> -1, before |-> b]
      BY <2>2
    <3>2. /\ call'.pc = "create" /\ call'.src = next_fd /\ call'.dst = -1
          /\ DOMAIN call' = {"pc", "msg", "src", "dst", "before"}
      BY <3>1
    <3>3. next_fd < next_fd'
      BY <1>3, <2>2 DEF IInv, TableOK
    <3> QED
      BY <1>3, <2>2, <3>2, <3>3 DEF CallOK, Given, IsOpen, Fds
  <2> QED
    BY <2>1, <2>2
<1> QED
  BY <1>3, <1>4 DEF Good, IInv, EndsClosed

\* What a change of call.pc leaves as it is.
LEMMA NewStage ==
  ASSUME CallOK, NEW stage
  PROVE  LET c == [call EXCEPT !.pc = stage]
         IN  /\ DOMAIN c = {"pc", "msg", "src", "dst", "before"}
             /\ c.pc = stage /\ c.src = call.src /\ c.dst = call.dst
  BY DEF CallOK

\* It takes a descriptor for the destination.
LEMMA CreateKind ==
  ASSUME IInv, call.pc = "create",
         NEW fs \in {"ramfs", "abyssfs"}, NEW i, alloc_fd(VfsFile(fs, i), TRUE),
         call' = IF next_fd' = next_fd THEN [call EXCEPT !.pc = "failed"]
                 ELSE [call EXCEPT !.pc = "loop", !.dst = next_fd]
  PROVE  Good
<1>1. /\ call.pc = "create" /\ call.dst = -1 /\ Given(call.src) /\ IsOpen(fd_table[call.src])
  BY DEF IInv, CallOK
<1>3. /\ TableOK' /\ TableStep
      /\ \A fd \in Fds : fd < next_fd => fd_table'[fd] = fd_table[fd]
      /\ next_fd' # next_fd => /\ next_fd \in Fds /\ next_fd' = next_fd + 1
                               /\ IsOpen(fd_table'[next_fd])
  BY AllocFd DEF IInv
<1>4. call.src \in Fds /\ call.src < next_fd /\ call.src < next_fd' /\ IsOpen(fd_table'[call.src])
  BY <1>1, <1>3 DEF IInv, TableOK, TableStep, Given, Fds
<1>5. CASE next_fd' = next_fd
  <2>1. call' = [call EXCEPT !.pc = "failed"]
    BY <1>5
  <2>2. /\ call'.pc = "failed" /\ call'.src = call.src /\ call'.dst = -1
        /\ DOMAIN call' = {"pc", "msg", "src", "dst", "before"}
    BY <1>1, <2>1, NewStage DEF IInv
  <2>3. CallOK'
    BY <1>4, <2>2 DEF CallOK, Given, Fds
  <2> QED
    BY <1>3, <2>2, <2>3 DEF Good, IInv, EndsClosed, Idle
<1>6. CASE next_fd' # next_fd
  <2>1. call' = [call EXCEPT !.pc = "loop", !.dst = next_fd]
    BY <1>6
  <2>2. /\ call'.pc = "loop" /\ call'.src = call.src /\ call'.dst = next_fd
        /\ DOMAIN call' = {"pc", "msg", "src", "dst", "before"}
    BY <2>1 DEF IInv, CallOK
  <2>3. next_fd < next_fd'
    BY <1>3, <1>6 DEF IInv, TableOK
  <2>4. CallOK'
    BY <1>3, <1>4, <1>6, <2>2, <2>3 DEF CallOK, Given, IsOpen, Fds
  <2> QED
    BY <1>3, <2>2, <2>4 DEF Good, IInv, EndsClosed, Idle
<1> QED
  BY <1>5, <1>6

\* The loop ends.
LEMMA EndKind ==
  ASSUME IInv, call.pc = "loop", call' = [call EXCEPT !.pc = "copied"], UNCHANGED fdVars
  PROVE  Good
<1>2. /\ call'.pc = "copied" /\ call'.src = call.src /\ call'.dst = call.dst
      /\ DOMAIN call' = {"pc", "msg", "src", "dst", "before"}
  BY NewStage DEF IInv
<1>3. TableOK' /\ TableStep /\ next_fd' = next_fd
  BY SameTable DEF IInv
<1>4. CallOK'
  BY <1>2, <1>3 DEF IInv, CallOK, Given, Fds
<1> QED
  BY <1>2, <1>3, <1>4 DEF Good, IInv, EndsClosed, Idle

\* A chunk moves the positions of two open files.
LEMMA ChunkKind ==
  ASSUME IInv, call.pc = "loop", next_fd' = next_fd,
         call' = call \/ call' = [call EXCEPT !.pc = "failed"], NEW x, NEW n,
         fd_table' = [[fd_table EXCEPT ![call.src].f_pos = x] EXCEPT ![call.dst] = Advanced(@, n)]
  PROVE  Good
<1> DEFINE s == call.src
           d == call.dst
<1>3. Given(s) /\ IsOpen(fd_table[s]) /\ Given(d) /\ IsOpen(fd_table[d])
  BY DEF IInv, CallOK
<1> DEFINE t == [fd_table EXCEPT ![s] = [fd_table[s] EXCEPT !.f_pos = x]]
<1>4. fd_table' = [t EXCEPT ![d] = Advanced(t[d], n)]
  OBVIOUS
<1>5. /\ DOMAIN t = Fds /\ \A g \in Fds \ {s} : t[g] = fd_table[g]
      /\ t[s] = [fd_table[s] EXCEPT !.f_pos = x]
  BY <1>3, <1>4 DEF IInv, TableOK, Given
<1>6. IsOpen(t[s]) /\ IsOpen(t[d])
  BY <1>3, <1>5, StaysOpen DEF Given
<1>7. IsOpen(Advanced(t[d], n))
  <2>1. ASSUME NEW f, IsOpen(f) PROVE IsOpen(Advanced(f, n))
    BY <2>1, StaysOpen DEF Advanced
  <2> QED
    BY <1>6, <2>1
<1> HIDE DEF s, d, t
<1>8. /\ DOMAIN fd_table' = Fds
      /\ \A g \in Fds \ {s, d} : fd_table'[g] = fd_table[g]
      /\ IsOpen(fd_table'[s]) /\ IsOpen(fd_table'[d])
  BY <1>3, <1>4, <1>5, <1>6, <1>7 DEF Given
<1>9. \A g \in Fds : fd_table'[g] = NoFile \/ IsOpen(fd_table'[g])
  BY <1>8 DEF IInv, TableOK
<1>10. TableOK'
  BY <1>8, <1>9 DEF IInv, TableOK, IsOpen, NoFile, Fds
<1>11. TableStep
  <2>1. fd_table[s] # NoFile /\ fd_table[d] # NoFile
    BY <1>3, VfsFileOpen
  <2> QED
    BY <1>8, <2>1 DEF IInv, TableOK, TableStep
<1>12. /\ DOMAIN call' = {"pc", "msg", "src", "dst", "before"}
       /\ call'.pc \in {"loop", "failed"} /\ call'.src = s /\ call'.dst = d
  BY NewStage DEF IInv, CallOK, s, d
<1>13. CallOK'
  BY <1>3, <1>8, <1>12 DEF CallOK, Given, IsOpen, Fds
<1> QED
  BY <1>10, <1>11, <1>12, <1>13 DEF Good, IInv, EndsClosed, Idle

\* Both descriptors are closed.
LEMMA CloseKind ==
  ASSUME IInv, call.pc \in {"copied", "failed"}, call' = AfterClose, next_fd' = next_fd,
         fd_table' = [fd \in Fds |-> IF fd \in {call.src, call.dst} THEN NoFile ELSE fd_table[fd]]
  PROVE  Good
<1>2. /\ DOMAIN fd_table' = Fds
      /\ \A fd \in Fds : fd_table'[fd] = NoFile \/ IsOpen(fd_table'[fd])
      /\ \A fd \in Fds : fd_table[fd] = NoFile => fd_table'[fd] = NoFile
  BY DEF IInv, TableOK
<1>3. TableOK'
  BY <1>2 DEF IInv, TableOK, IsOpen, NoFile, Fds
<1>4. TableStep
  BY <1>2 DEF IInv, TableOK, TableStep
<1>5. \A fd \in {call.src, call.dst} \ {-1} : Given(fd) /\ fd_table'[fd] = NoFile
  BY DEF IInv, CallOK, Given
<1>6. \/ call' = Idle
      \/ \E stage \in {"unlink", "undo"} : call' = [call EXCEPT !.pc = stage]
  BY DEF AfterClose
<1>7. CASE call' = Idle
  <2>1. CallOK'
    BY <1>7 DEF CallOK, Idle
  <2> QED
    BY <1>3, <1>4, <1>5, <2>1 DEF IInv, EndsClosed, Good
<1>8. ASSUME NEW stage \in {"unlink", "undo"}, call' = [call EXCEPT !.pc = stage]
      PROVE  Good
  <2>1. /\ DOMAIN call' = {"pc", "msg", "src", "dst", "before"}
        /\ call'.pc = stage /\ call'.src = call.src /\ call'.dst = call.dst
    BY <1>8, NewStage DEF IInv
  <2>2. CallOK'
    BY <1>5, <2>1 DEF CallOK, Given, NoFile, Fds
  <2> QED
    BY <1>3, <1>4, <1>5, <2>2 DEF IInv, EndsClosed, Good
<1> QED
  BY <1>4, <1>6, <1>7, <1>8 DEF Good

\* The descriptors are closed already.
LEMMA UnlinkKind ==
  ASSUME IInv, call.pc \in {"unlink", "undo"}, UNCHANGED fdVars,
         call' = Idle \/ call' = [call EXCEPT !.pc = "undo"]
  PROVE  Good
<1>2. TableOK' /\ TableStep /\ fd_table' = fd_table /\ next_fd' = next_fd
  BY SameTable DEF IInv
<1>3. \A fd \in {call.src, call.dst} \ {-1} : Given(fd) /\ fd_table[fd] = NoFile
  BY DEF IInv, CallOK
<1>4. CASE call' = Idle
  BY <1>2, <1>3, <1>4 DEF Good, IInv, CallOK, EndsClosed, Idle
<1>5. CASE call' = [call EXCEPT !.pc = "undo"]
  <2>1. /\ DOMAIN call' = {"pc", "msg", "src", "dst", "before"}
        /\ call'.pc = "undo" /\ call'.src = call.src /\ call'.dst = call.dst
    BY <1>5, NewStage DEF IInv
  <2>2. CallOK'
    BY <1>2, <1>3, <2>1 DEF CallOK, Given, NoFile, Fds
  <2> QED
    BY <1>2, <1>3, <2>2 DEF Good, IInv, EndsClosed
<1> QED
  BY <1>4, <1>5
=============================================================================
