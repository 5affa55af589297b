----------------------------- MODULE RamFSProofs -----------------------------
(***************************************************************************)
(* The slots of RamFS and the files that are open on them, for every       *)
(* number of slots, every size of a slot and every set of paths.           *)
(*                                                                         *)
(* PositionInFile is inductive together with the types and OpenHaveSlots:  *)
(* a file that is open and not removed keeps its slot in use, so that no   *)
(* create takes that slot and sets its size back to 0.                     *)
(***************************************************************************)
EXTENDS RamFS, TLAPS

\* An open file, removed or not, leads to a slot.
OpenHaveSlots == \A h \in Handles : opened[h] # NoFile => opened[h].slot \in Slots

IInv == TypeOK /\ OpenHaveSlots /\ PositionInFile

-----------------------------------------------------------------------------
(* Facts about the operators.                                              *)

\* No path that a slot is given is the mark of an unused slot.
LEMMA PathsAreUsed == \A p \in FilePaths : p # Unused /\ CreatedPath(p) # Unused
<1> SUFFICES ASSUME NEW p \in FilePaths PROVE p # Unused /\ CreatedPath(p) # Unused
  OBVIOUS
<1> DEFINE T == STRING \cup {"/", "tmp"}
<1>1. p # Unused /\ p \in Seq(T)
  <2>1. ASSUME NEW S, NEW U, NEW q \in Seq(S) PROVE q \in Seq(S \cup U)
    OBVIOUS
  <2> QED
    BY <2>1, RamAssumption, Zenon
<1>2. TMP_SLASH \in Seq(T) /\ Len(TMP_SLASH) = 3
  <2>1. ASSUME NEW S, NEW a \in S, NEW b \in S, NEW c \in S
        PROVE  <<a, b, c>> \in Seq(S) /\ Len(<<a, b, c>>) = 3
    OBVIOUS
  <2> QED
    BY <2>1, Zenon DEF TMP_SLASH
<1>3. Len(TMP_SLASH \o p) = 3 + Len(p) /\ Len(p) \in Nat
  <2>1. ASSUME NEW S, NEW q \in Seq(S), NEW r \in Seq(S)
        PROVE  Len(q \o r) = Len(q) + Len(r) /\ Len(r) \in Nat
    OBVIOUS
  <2> QED
    BY <1>1, <1>2, <2>1, Zenon
<1>4. Len(Unused) = 0
  BY DEF Unused
<1> QED
  BY <1>1, <1>3, <1>4 DEF CreatedPath

\* What Copied leaves in a slot's array.
LEMMA CopiedType ==
  ASSUME NEW content \in [Offsets -> Nat], NEW pos \in Nat, NEW buf \in Seq(Nat)
  PROVE  Copied(content, pos, buf) \in [Offsets -> Nat]
<1>1. ASSUME NEW k \in Offsets, k \in pos .. pos + Len(buf) - 1 PROVE buf[k - pos + 1] \in Nat
  <2>1. k - pos + 1 \in 1 .. Len(buf)
    BY <1>1 DEF Offsets
  <2> QED
    BY <2>1
<1> QED
  BY <1>1 DEF Copied

\* A write fits in what is left of the array.
LEMMA WriteCountFits ==
  ASSUME NEW pos \in 0 .. MAX_CONTENT, NEW buf \in Seq(Nat)
  PROVE  /\ WriteCount(pos, buf) \in 0 .. Len(buf)
         /\ pos + WriteCount(pos, buf) \in 0 .. MAX_CONTENT
  BY RamAssumption DEF WriteCount, Smaller

\* A written slot keeps its path and its type, and its size covers the position.
LEMMA WrittenSlot ==
  ASSUME NEW f \in Slot, NEW pos \in 0 .. MAX_CONTENT, NEW buf \in Seq(Nat)
  PROVE  /\ Written(f, pos, buf) \in Slot
         /\ Written(f, pos, buf).path = f.path
         /\ Written(f, pos, buf).size >= f.size
         /\ pos <= f.size => pos + WriteCount(pos, buf) <= Written(f, pos, buf).size
<1> DEFINE n == WriteCount(pos, buf)
<1>1. n \in 0 .. Len(buf) /\ pos + n \in 0 .. MAX_CONTENT
  BY WriteCountFits
<1>2. SubSeq(buf, 1, n) \in Seq(Nat)
  BY <1>1
<1>3. f.content \in [Offsets -> Nat] /\ f.size \in 0 .. MAX_CONTENT
  BY DEF Slot
<1>4. Copied(f.content, pos, SubSeq(buf, 1, n)) \in [Offsets -> Nat]
  <2>1. pos \in Nat
    BY RamAssumption
  <2> HIDE DEF n
  <2> QED
    BY <1>2, <1>3, <2>1, CopiedType
<1>5. MAX_CONTENT \in Nat
  BY RamAssumption
<1>6. Larger(f.size, pos + n) \in 0 .. MAX_CONTENT /\ Larger(f.size, pos + n) >= f.size
      /\ Larger(f.size, pos + n) >= pos + n
  BY <1>1, <1>3, <1>5 DEF Larger
<1> HIDE DEF n
<1>7. CASE n = 0
  BY <1>3, <1>5, <1>7 DEF Written, n
<1>8. CASE n # 0
  <2>1. Written(f, pos, buf) = [f EXCEPT !.content = Copied(f.content, pos, SubSeq(buf, 1, n)),
                                         !.size = Larger(f.size, pos + n)]
    BY <1>8 DEF Written, n
  <2> QED
    BY <1>4, <1>6, <2>1 DEF Slot, n
<1> QED
  BY <1>7, <1>8

\* A read stays inside the file.
LEMMA ReadUnitsType ==
  ASSUME NEW f \in Slot, NEW pos \in 0 .. MAX_CONTENT, NEW count \in Nat
  PROVE  /\ ReadCount(f, pos, count) \in Nat
         /\ pos + ReadCount(f, pos, count) \in 0 .. MAX_CONTENT
         /\ pos <= f.size => pos + ReadCount(f, pos, count) <= f.size
         /\ ReadUnits(f, pos, count) \in Seq(Nat)
<1>1. f.size \in 0 .. MAX_CONTENT /\ f.content \in [Offsets -> Nat] /\ MAX_CONTENT \in Nat
  BY RamAssumption DEF Slot
<1>2. /\ ReadCount(f, pos, count) \in Nat
      /\ pos + ReadCount(f, pos, count) \in 0 .. MAX_CONTENT
      /\ pos <= f.size => pos + ReadCount(f, pos, count) <= f.size
      /\ ReadCount(f, pos, count) > 0 => pos + ReadCount(f, pos, count) <= f.size
  BY <1>1 DEF ReadCount, Smaller
<1>3. ASSUME NEW k \in 1 .. ReadCount(f, pos, count) PROVE f.content[pos + k - 1] \in Nat
  <2>1. pos + k - 1 \in Offsets
    BY <1>1, <1>2 DEF Offsets
  <2> QED
    BY <1>1, <2>1
<1> QED
  BY <1>2, <1>3 DEF ReadUnits

\* The slots that the creating operations fill in, and the one that a removal
\* leaves, have the right types.
LEMMA NewSlots ==
  ASSUME TypeOK, NEW j \in Slots
  PROVE  /\ \A p \in FilePaths : /\ EmptySlot(j, CreatedPath(p)) \in Slot
                                 /\ [EmptySlot(j, CreatedPath(p)) EXCEPT !.path = Unused] \in Slot
                                 /\ DirSlot(j, p) \in Slot
         /\ FreedSlot(j) \in Slot
<1>1. /\ files[j] \in Slot /\ files[j].content \in [Offsets -> Nat]
      /\ 0 \in 0 .. MAX_CONTENT
  BY RamAssumption DEF TypeOK, Slot
<1>2. ASSUME NEW p \in FilePaths
      PROVE  /\ EmptySlot(j, CreatedPath(p)) \in Slot
             /\ [EmptySlot(j, CreatedPath(p)) EXCEPT !.path = Unused] \in Slot
             /\ DirSlot(j, p) \in Slot
  <2>1. EmptySlot(j, CreatedPath(p)) \in Slot
    BY <1>1 DEF EmptySlot, Slot
  <2>2. [EmptySlot(j, CreatedPath(p)) EXCEPT !.path = Unused] \in Slot
    BY <1>1 DEF EmptySlot, Slot
  <2>3. DirSlot(j, p) \in Slot
    BY <1>1 DEF DirSlot, Slot
  <2> QED
    BY <2>1, <2>2, <2>3
<1>3. FreedSlot(j) \in Slot
  BY <1>1 DEF FreedSlot, Slot
<1> QED
  BY <1>2, <1>3

\* So has the slot that ramfs_create_file fills.
LEMMA FilledSlotType ==
  ASSUME TypeOK, NEW j \in Slots, NEW p \in FilePaths, NEW c \in Contents
  PROVE  FilledSlot(j, p, c) \in Slot
<1> DEFINE n == Smaller(Len(c), MAX_CONTENT - 1)
           s == Append(SubSeq(c, 1, n), 0)
<1>1. files[j].content \in [Offsets -> Nat]
  BY DEF TypeOK, Slot
<1>2. c \in Seq(Nat) /\ Len(c) \in Nat
  BY RamAssumption
<1>3. n \in 0 .. MAX_CONTENT /\ n <= Len(c)
  BY <1>2, RamAssumption DEF Smaller
<1>4. s \in Seq(Nat)
  BY <1>2, <1>3
<1>5. FilledSlot(j, p, c) = [path |-> p, size |-> n, content |-> Copied(files[j].content, 0, s)]
  BY DEF FilledSlot
<1> HIDE DEF n, s
<1>6. Copied(files[j].content, 0, s) \in [Offsets -> Nat]
  BY <1>1, <1>4, CopiedType
<1> QED
  BY <1>3, <1>5, <1>6 DEF Slot

-----------------------------------------------------------------------------
(* The invariant.                                                          *)

\* A slot that is not in use is taken: no open file is behind its new end, since
\* none that was not removed leads there.
LEMMA TakeSlot ==
  ASSUME IInv, NEW j \in Slots, files[j].path = Unused, NEW f \in Slot,
         files' = [files EXCEPT ![j] = f], UNCHANGED opened, out' = <<>>
  PROVE  IInv'
<1>1. TypeOK'
  BY DEF IInv, TypeOK
<1>2. OpenHaveSlots'
  BY DEF IInv, OpenHaveSlots
<1>3. PositionInFile'
  BY DEF IInv, TypeOK, PositionInFile
<1> QED
  BY <1>1, <1>2, <1>3 DEF IInv

\* A file is opened at its start.
LEMMA OpenSlot ==
  ASSUME IInv, NEW i \in Slots, NEW h \in Handles, NEW f \in Slot, f.path # Unused,
         \/ files[i] = f
         \/ files[i].path = Unused,
         files' = [files EXCEPT ![i] = f], opened' = Opened(h, i), out' = <<>>
  PROVE  IInv'
<1>1. /\ opened' = [opened EXCEPT ![h] = [slot |-> i, f_pos |-> 0, live |-> TRUE]]
      /\ 0 \in 0 .. MAX_CONTENT /\ MAX_CONTENT \in Nat
  BY RamAssumption DEF Opened, Slots, NO_SLOT
<1>2. TypeOK'
  BY <1>1 DEF IInv, TypeOK
<1>3. OpenHaveSlots'
  BY <1>1 DEF IInv, TypeOK, OpenHaveSlots
<1>4. PositionInFile'
  <2> SUFFICES ASSUME NEW g \in Handles, opened'[g].live
               PROVE  /\ opened'[g].slot \in Slots
                      /\ files'[opened'[g].slot].path # Unused
                      /\ opened'[g].f_pos <= files'[opened'[g].slot].size
    BY DEF PositionInFile
  <2>1. CASE g = h
    BY <1>1, <2>1 DEF IInv, TypeOK, Slot
  <2>2. CASE g # h
    BY <1>1, <2>2 DEF IInv, TypeOK, PositionInFile
  <2> QED
    BY <2>1, <2>2
<1> QED
  BY <1>2, <1>3, <1>4 DEF IInv

\* Nothing but out changes.
LEMMA RefuseIInv ==
  ASSUME IInv, UNCHANGED <<files, opened>>, out' = <<>>
  PROVE  IInv'
  BY DEF IInv, TypeOK, OpenHaveSlots, PositionInFile

\* ramfs_create and the vfs_file it returns.
LEMMA CreateIInv ==
  ASSUME IInv, NEW p \in FilePaths, NEW mem \in BOOLEAN, NEW h \in Handles, Create(p, mem, h)
  PROVE  IInv'
<1> DEFINE new(j) == EmptySlot(j, CreatedPath(p))
<1>1. PICK i \in Slots \cup {NO_SLOT} :
        ramfs_create(p, mem, i) /\ opened' = Opened(h, i) /\ out' = <<>>
  BY DEF Create
<1>2. \A j \in Slots : /\ new(j) \in Slot /\ new(j).path = CreatedPath(p)
                       /\ [new(j) EXCEPT !.path = Unused] \in Slot
  BY NewSlots DEF IInv, EmptySlot
<1>3. NO_SLOT \notin Slots
  BY DEF NO_SLOT, Slots
<1>4. CASE i = NO_SLOT /\ UNCHANGED files
  BY <1>1, <1>4, RefuseIInv DEF Opened
<1>5. ASSUME NEW j \in Slots, FirstWith(j, {Unused}), i = (IF mem THEN j ELSE NO_SLOT),
             files' = [files EXCEPT ![j] = IF mem THEN new(j) ELSE [new(j) EXCEPT !.path = Unused]]
      PROVE  IInv'
  <2>1. files[j].path = Unused
    BY <1>3, <1>5 DEF FirstWith
  <2>2. CASE mem
    BY <1>1, <1>2, <1>5, <2>1, <2>2, OpenSlot, PathsAreUsed
  <2>3. CASE ~mem
    <3>1. UNCHANGED opened
      BY <1>1, <1>5, <2>3 DEF Opened
    <3> QED
      BY <1>1, <1>2, <1>5, <2>1, <2>3, <3>1, TakeSlot
  <2> QED
    BY <2>2, <2>3
<1> QED
  BY <1>1, <1>4, <1>5 DEF ramfs_create

\* ramfs_open.
LEMMA OpenIInv ==
  ASSUME IInv, NEW p \in FilePaths, NEW mem \in BOOLEAN, NEW h \in Handles, Open(p, mem, h)
  PROVE  IInv'
<1>1. PICK i \in Slots \cup {NO_SLOT} :
        ramfs_open(p, mem, i) /\ opened' = Opened(h, i) /\ UNCHANGED files /\ out' = <<>>
  BY DEF Open
<1>2. CASE i = NO_SLOT
  BY <1>1, <1>2, RefuseIInv DEF Opened
<1>3. CASE i \in Slots
  <2>1. i # NO_SLOT
    BY <1>3 DEF NO_SLOT, Slots
  <2>2. files[i].path = p /\ p # Unused
    BY <1>1, <2>1, PathsAreUsed DEF ramfs_open, FirstWith
  <2>3. files[i] \in Slot /\ files' = [files EXCEPT ![i] = files[i]]
    BY <1>1, <1>3 DEF IInv, TypeOK
  <2> QED
    BY <1>1, <1>3, <2>2, <2>3, OpenSlot
<1> QED
  BY <1>2, <1>3

\* ramfs_create_file and ramfs_mkdir.
LEMMA MakeIInv ==
  ASSUME IInv, NEW p \in FilePaths,
         \/ \E c \in Contents : CreateFile(p, c)
         \/ Mkdir(p)
  PROVE  IInv'
<1>1. UNCHANGED opened /\ out' = <<>>
  BY DEF CreateFile, Mkdir
<1>2. CASE UNCHANGED files
  BY <1>1, <1>2, RefuseIInv
<1>3. ASSUME NEW j \in Slots, FirstWith(j, {Unused}), NEW f \in Slot,
             files' = [files EXCEPT ![j] = f]
      PROVE  IInv'
  <2>1. files[j].path = Unused
    BY <1>3 DEF FirstWith, NO_SLOT, Slots
  <2> QED
    BY <1>1, <1>3, <2>1, TakeSlot
<1>4. ASSUME NEW c \in Contents, CreateFile(p, c) PROVE IInv'
  <2>1. \A j \in Slots : FilledSlot(j, p, c) \in Slot
    BY FilledSlotType DEF IInv
  <2> QED
    BY <1>2, <1>3, <1>4, <2>1 DEF CreateFile, ramfs_create_file
<1>5. CASE Mkdir(p)
  <2>1. \A j \in Slots : DirSlot(j, p) \in Slot
    BY NewSlots DEF IInv
  <2> QED
    BY <1>2, <1>3, <1>5, <2>1 DEF Mkdir, ramfs_mkdir
<1> QED
  BY <1>4, <1>5

\* ramfs_unlink.
LEMMA UnlinkIInv ==
  ASSUME IInv, NEW p \in FilePaths, Unlink(p)
  PROVE  IInv'
<1>1. PICK i \in Slots \cup {NO_SLOT} :
        /\ ramfs_unlink(p, i)
        /\ opened' = [h \in Handles |->
                        IF opened[h].slot = i THEN [opened[h] EXCEPT !.live = FALSE] ELSE opened[h]]
        /\ out' = <<>>
  BY DEF Unlink
<1>2. /\ \A s \in Slots : s # i => files'[s] = files[s]
      /\ files' \in [Slots -> Slot]
  <2>1. CASE UNCHANGED files
    BY <2>1 DEF IInv, TypeOK
  <2>2. CASE i \in Slots /\ files' = [files EXCEPT ![i] = FreedSlot(i)]
    <3>1. FreedSlot(i) \in Slot
      BY <2>2, NewSlots DEF IInv
    <3> QED
      BY <2>2, <3>1 DEF IInv, TypeOK
  <2> QED
    BY <1>1, <2>1, <2>2 DEF ramfs_unlink
<1>3. \A h \in Handles : /\ opened'[h].slot = opened[h].slot /\ opened'[h].f_pos = opened[h].f_pos
                         /\ opened'[h].live => opened[h].live /\ opened[h].slot # i
                         /\ opened'[h] \in [slot : Slots \cup {NO_SLOT}, f_pos : 0 .. MAX_CONTENT,
                                            live : BOOLEAN]
  BY <1>1 DEF IInv, TypeOK
<1>4. TypeOK'
  BY <1>1, <1>2, <1>3 DEF IInv, TypeOK
<1>5. OpenHaveSlots'
  <2> SUFFICES ASSUME NEW h \in Handles, opened'[h] # NoFile, opened'[h].slot \notin Slots
               PROVE  FALSE
    BY DEF OpenHaveSlots
  <2>1. opened[h] = NoFile
    BY <1>3 DEF IInv, OpenHaveSlots
  <2>2. [NoFile EXCEPT !.live = FALSE] = NoFile
    <3>1. /\ NoFile \in [slot : {NO_SLOT}, f_pos : {0}, live : BOOLEAN]
          /\ NoFile.live = FALSE
      BY DEF NoFile
    <3> QED
      BY <3>1
  <2> QED
    BY <1>1, <2>1, <2>2
<1>6. PositionInFile'
  BY <1>2, <1>3 DEF IInv, PositionInFile
<1> QED
  BY <1>4, <1>5, <1>6 DEF IInv

\* ramfs_read.
LEMMA ReadIInv ==
  ASSUME IInv, NEW h \in Handles, NEW n \in Counts, Read(h, n)
  PROVE  IInv'
<1> DEFINE o == opened[h]
           f == files[o.slot]
           c == ReadCount(f, o.f_pos, n)
<1>1. /\ o \in [slot : Slots \cup {NO_SLOT}, f_pos : 0 .. MAX_CONTENT, live : BOOLEAN]
      /\ o.slot \in Slots /\ f \in Slot /\ n \in Nat
  BY RamAssumption DEF IInv, TypeOK, OpenHaveSlots, Read
<1>2. /\ out' = ReadUnits(f, o.f_pos, n)
      /\ opened' = [opened EXCEPT ![h].f_pos = o.f_pos + c]
      /\ UNCHANGED files
  BY DEF Read
<1>3. /\ o.f_pos + c \in 0 .. MAX_CONTENT
      /\ o.f_pos <= f.size => o.f_pos + c <= f.size
      /\ ReadUnits(f, o.f_pos, n) \in Seq(Nat)
  BY <1>1, ReadUnitsType
<1> HIDE DEF c
<1>4. TypeOK'
  <2>1. opened' \in [Handles -> [slot : Slots \cup {NO_SLOT}, f_pos : 0 .. MAX_CONTENT,
                                live : BOOLEAN]]
    BY <1>1, <1>2, <1>3 DEF IInv, TypeOK
  <2>2. files' \in [Slots -> Slot] /\ out' \in Seq(Nat)
    BY <1>2, <1>3, Zenon DEF IInv, TypeOK
  <2> QED
    BY <2>1, <2>2 DEF TypeOK
<1>5. OpenHaveSlots'
  BY <1>1, <1>2 DEF IInv, TypeOK, OpenHaveSlots
<1>6. PositionInFile'
  BY <1>1, <1>2, <1>3 DEF IInv, TypeOK, PositionInFile
<1> QED
  BY <1>4, <1>5, <1>6 DEF IInv

\* ramfs_write.
LEMMA WriteIInv ==
  ASSUME IInv, NEW h \in Handles, NEW buf \in Contents, Write(h, buf)
  PROVE  IInv'
<1> DEFINE o == opened[h]
           f == files[o.slot]
           w == Written(f, o.f_pos, buf)
           c == WriteCount(o.f_pos, buf)
<1>1. /\ o \in [slot : Slots \cup {NO_SLOT}, f_pos : 0 .. MAX_CONTENT, live : BOOLEAN]
      /\ o.slot \in Slots /\ f \in Slot /\ buf \in Seq(Nat)
  BY RamAssumption DEF IInv, TypeOK, OpenHaveSlots, Write
<1>2. /\ files' = [files EXCEPT ![o.slot] = w]
      /\ opened' = [opened EXCEPT ![h].f_pos = o.f_pos + c]
      /\ out' = <<>>
  BY DEF Write
<1>3. /\ w \in Slot /\ w.path = f.path /\ w.size >= f.size
      /\ o.f_pos + c \in 0 .. MAX_CONTENT
      /\ o.f_pos <= f.size => o.f_pos + c <= w.size
  BY <1>1, WrittenSlot, WriteCountFits
<1> HIDE DEF c, w
<1>4. TypeOK'
  <2>1. opened' \in [Handles -> [slot : Slots \cup {NO_SLOT}, f_pos : 0 .. MAX_CONTENT,
                                live : BOOLEAN]]
    BY <1>1, <1>2, <1>3 DEF IInv, TypeOK
  <2>2. files' \in [Slots -> Slot] /\ out' \in Seq(Nat)
    BY <1>1, <1>2, <1>3 DEF IInv, TypeOK
  <2> QED
    BY <2>1, <2>2 DEF TypeOK
<1>5. OpenHaveSlots'
  BY <1>1, <1>2 DEF IInv, TypeOK, OpenHaveSlots
<1>6. PositionInFile'
  <2> SUFFICES ASSUME NEW g \in Handles, opened'[g].live
               PROVE  /\ opened'[g].slot \in Slots
                      /\ files'[opened'[g].slot].path # Unused
                      /\ opened'[g].f_pos <= files'[opened'[g].slot].size
    BY DEF PositionInFile
  <2>1. /\ opened[g].live /\ opened'[g].slot = opened[g].slot
        /\ g # h => opened'[g].f_pos = opened[g].f_pos
        /\ g = h => opened'[g].f_pos = o.f_pos + c
    BY <1>1, <1>2 DEF IInv, TypeOK
  <2>2. /\ opened[g].slot \in Slots /\ files[opened[g].slot].path # Unused
        /\ opened[g].f_pos <= files[opened[g].slot].size
    BY <2>1 DEF IInv, PositionInFile
  <2>3. /\ files[opened[g].slot].size \in Nat /\ opened[g].f_pos \in Nat
        /\ w.size \in Nat /\ f.size \in Nat
    BY <1>1, <1>3, <2>2, RamAssumption DEF IInv, TypeOK, Slot
  <2>4. files'[opened[g].slot] = IF opened[g].slot = o.slot THEN w ELSE files[opened[g].slot]
    BY <1>1, <1>2, <2>2 DEF IInv, TypeOK
  <2> QED
    BY <1>1, <1>3, <2>1, <2>2, <2>3, <2>4
<1> QED
  BY <1>4, <1>5, <1>6 DEF IInv

\* vfs_close.
LEMMA CloseIInv ==
  ASSUME IInv, NEW h \in Handles, Close(h)
  PROVE  IInv'
<1>1. /\ opened' = [opened EXCEPT ![h] = NoFile] /\ UNCHANGED files /\ out' = <<>>
      /\ 0 \in 0 .. MAX_CONTENT
  BY RamAssumption DEF Close
<1>2. TypeOK'
  BY <1>1 DEF IInv, TypeOK, NoFile
<1>3. OpenHaveSlots'
  BY <1>1 DEF IInv, TypeOK, OpenHaveSlots
<1>4. PositionInFile'
  BY <1>1 DEF IInv, TypeOK, PositionInFile, NoFile
<1> QED
  BY <1>2, <1>3, <1>4 DEF IInv

\* The table is empty at first.
LEMMA InitIInv == Init => IInv
  BY RamAssumption DEF Init, IInv, TypeOK, OpenHaveSlots, PositionInFile, NoFile, Slot

\* Every operation keeps the invariant.
LEMMA NextIInv == IInv /\ [Next]_vars => IInv'
<1> SUFFICES ASSUME IInv, [Next]_vars PROVE IInv'
  OBVIOUS
<1>1. CASE UNCHANGED vars
  BY <1>1 DEF vars, IInv, TypeOK, OpenHaveSlots, PositionInFile
<1> QED
  BY <1>1, CreateIInv, OpenIInv, MakeIInv, UnlinkIInv, ReadIInv, WriteIInv, CloseIInv DEF Next

\* Positions, sizes and slot numbers stay in their ranges whatever is read, written,
\* removed and created: ramfs_write never writes behind the end of a slot's array.
THEOREM RamTypes == Spec => []TypeOK
<1>1. IInv => TypeOK
  BY DEF IInv
<1> QED
  BY InitIInv, NextIInv, <1>1, PTL DEF Spec

\* The position of a file that is open and not removed is never behind the end of
\* the file (ramfs_read, ramfs_write), for every number and size of slots.
THEOREM PositionsStayInFiles == Spec => []PositionInFile
<1>1. IInv => PositionInFile
  BY DEF IInv
<1> QED
  BY InitIInv, NextIInv, <1>1, PTL DEF Spec

-----------------------------------------------------------------------------
(* RamFS implements FileStore.                                             *)

\* The names and the files that FileStore sees.
DataOf(i) == IF files[i].path = Unused THEN <<>> ELSE Bytes(files[i])
Names == [i \in Slots |-> files[i].path]
Data == [i \in Slots |-> DataOf(i)]

\* What FileStore sees does not change when no slot does.
LEMMA SameView == ASSUME UNCHANGED files PROVE Names' = Names /\ Data' = Data
  BY DEF Names, Data, DataOf, Bytes

\* The bytes of an empty slot, and of one that ramfs_create_file filled.
LEMMA NewBytes ==
  ASSUME TypeOK, NEW j \in Slots, NEW p \in FilePaths
  PROVE  /\ Bytes(EmptySlot(j, CreatedPath(p))) = <<>>
         /\ Bytes(DirSlot(j, p)) = <<>>
         /\ \A c \in Contents : Bytes(FilledSlot(j, p, c))
                                  = SubSeq(c, 1, Smaller(Len(c), MAX_CONTENT - 1))
<1>1. ASSUME NEW f, f.size = 0 PROVE Bytes(f) = <<>>
  BY <1>1 DEF Bytes
<1>2. EmptySlot(j, CreatedPath(p)).size = 0
  BY DEF EmptySlot
<1>3. DirSlot(j, p).size = 0
  BY DEF DirSlot, TypeOK, Slot
<1>4. ASSUME NEW c \in Contents
      PROVE  Bytes(FilledSlot(j, p, c)) = SubSeq(c, 1, Smaller(Len(c), MAX_CONTENT - 1))
  <2> DEFINE n == Smaller(Len(c), MAX_CONTENT - 1)
             s == SubSeq(c, 1, n)
             a == Append(s, 0)
  <2>1. c \in Seq(Nat) /\ Len(c) \in Nat
    BY RamAssumption
  <2>2. n \in Nat /\ n <= Len(c) /\ n < MAX_CONTENT /\ MAX_CONTENT \in Nat
    BY <2>1, RamAssumption DEF Smaller
  <2>3. s \in Seq(Nat) /\ Len(s) = n
    BY <2>1, <2>2
  <2>4. /\ FilledSlot(j, p, c).size = n
        /\ FilledSlot(j, p, c).content = Copied(files[j].content, 0, a)
    BY DEF FilledSlot
  <2> HIDE DEF n, s
  <2>5. Len(a) = n + 1 /\ \A k \in 1 .. n : a[k] = s[k]
    BY <2>2, <2>3
  <2> HIDE DEF a
  <2>6. \A k \in 1 .. n : Copied(files[j].content, 0, a)[k - 1] = s[k]
    <3> SUFFICES ASSUME NEW k \in 1 .. n PROVE Copied(files[j].content, 0, a)[k - 1] = s[k]
      OBVIOUS
    <3>1. k - 1 \in Offsets /\ k - 1 \in 0 .. 0 + Len(a) - 1 /\ k - 1 - 0 + 1 = k
      BY <2>2, <2>5 DEF Offsets
    <3> QED
      BY <2>5, <3>1 DEF Copied
  <2>7. Bytes(FilledSlot(j, p, c)) = [k \in 1 .. n |-> s[k]]
    BY <2>4, <2>6 DEF Bytes
  <2>8. s = [k \in 1 .. n |-> s[k]]
    BY <2>3
  <2> QED
    BY <2>7, <2>8 DEF s, n
<1> QED
  BY <1>1, <1>2, <1>3, <1>4

\* Taking a slot makes a file.
LEMMA MakeStep ==
  ASSUME IInv, NEW j \in Slots, files[j].path = Unused, NEW f \in Slot, f.path # Unused,
         files' = [files EXCEPT ![j] = f], out' = <<>>,
         \/ Bytes(f) = <<>>
         \/ \E c \in Contents : Bytes(f) = SubSeq(c, 1, Smaller(Len(c), MAX_CONTENT - 1))
  PROVE  Store!Make(j)
<1>1. /\ Names[j] = Unused /\ Names'[j] # Unused /\ Data'[j] = Bytes(f)
      /\ \A t \in Slots \ {j} : Names'[t] = Names[t] /\ Data'[t] = Data[t]
  BY DEF IInv, TypeOK, Names, Data, DataOf, Bytes
<1>2. \/ Data'[j] = <<>>
      \/ \E c \in Contents : Data'[j] = SubSeq(c, 1, Store!Shorter(Len(c), MAX_CONTENT - 1))
  BY <1>1 DEF Store!Shorter, Smaller
<1> QED
  BY <1>1, <1>2 DEF Store!Make, Store!OthersKept, Names, Data, DataOf

\* A handle that is given to slot i.
LEMMA OpensStep ==
  ASSUME IInv, NEW i \in Slots, NEW h \in Handles, opened' = Opened(h, i),
         files'[i].path # Unused
  PROVE  Store!Opens(h, i)
<1>1. opened' = [opened EXCEPT ![h] = [slot |-> i, f_pos |-> 0, live |-> TRUE]]
  BY DEF Opened, Slots, NO_SLOT
<1> QED
  BY <1>1 DEF IInv, TypeOK, Store!Opens, Store!OtherHandlesKept

\* An operation that changes nothing but out.
LEMMA RefuseStep ==
  ASSUME Names' = Names, Data' = Data, UNCHANGED opened, out' = <<>>
  PROVE  Store!Refuse
  BY DEF Store!Refuse, Names, Data, DataOf

\* ramfs_create makes and opens a file, or refuses.
LEMMA CreateStep ==
  ASSUME IInv, NEW p \in FilePaths, NEW mem \in BOOLEAN, NEW h \in Handles, Create(p, mem, h)
  PROVE  Store!Next
<1> DEFINE new(j) == EmptySlot(j, CreatedPath(p))
<1>1. PICK i \in Slots \cup {NO_SLOT} :
        ramfs_create(p, mem, i) /\ opened' = Opened(h, i) /\ out' = <<>>
  BY DEF Create
<1>2. CASE i = NO_SLOT /\ UNCHANGED files
  <2>1. UNCHANGED opened
    BY <1>1, <1>2 DEF Opened
  <2> QED
    BY <1>1, <1>2, <2>1, SameView, RefuseStep DEF Store!Next
<1>3. ASSUME NEW j \in Slots, FirstWith(j, {Unused}), i = (IF mem THEN j ELSE NO_SLOT),
             files' = [files EXCEPT ![j] = IF mem THEN new(j) ELSE [new(j) EXCEPT !.path = Unused]]
      PROVE  Store!Next
  <2>1. files[j].path = Unused
    BY <1>3 DEF FirstWith, NO_SLOT, Slots
  <2>2. new(j) \in Slot /\ new(j).path # Unused /\ Bytes(new(j)) = <<>>
    BY NewSlots, NewBytes, PathsAreUsed DEF IInv, EmptySlot
  <2>3. CASE mem
    <3>1. files' = [files EXCEPT ![j] = new(j)] /\ i = j
      BY <1>3, <2>3
    <3> HIDE DEF new
    <3>2. Store!Make(j)
      BY <1>1, <2>1, <2>2, <3>1, MakeStep
    <3>3. Store!Opens(h, j)
      BY <1>1, <2>2, <3>1, OpensStep DEF IInv, TypeOK
    <3> QED
      BY <3>2, <3>3 DEF Store!Next
  <2>4. CASE ~mem
    <3> DEFINE f == [new(j) EXCEPT !.path = Unused]
    <3>1. files' = [files EXCEPT ![j] = f] /\ UNCHANGED opened /\ f.path = Unused
      BY <1>1, <1>3, <2>2, <2>4 DEF Opened, Slot
    <3> HIDE DEF f
    <3>2. Names' = Names /\ Data' = Data
      BY <2>1, <3>1 DEF IInv, TypeOK, Names, Data, DataOf, Bytes
    <3> QED
      BY <1>1, <3>1, <3>2, RefuseStep DEF Store!Next
  <2> QED
    BY <2>3, <2>4
<1> QED
  BY <1>1, <1>2, <1>3 DEF ramfs_create

\* ramfs_open opens a file that is there, or refuses.
LEMMA OpenStep ==
  ASSUME IInv, NEW p \in FilePaths, NEW mem \in BOOLEAN, NEW h \in Handles, Open(p, mem, h)
  PROVE  Store!Next
<1>1. PICK i \in Slots \cup {NO_SLOT} :
        ramfs_open(p, mem, i) /\ opened' = Opened(h, i) /\ UNCHANGED files /\ out' = <<>>
  BY DEF Open
<1>2. Names' = Names /\ Data' = Data
  BY <1>1, SameView
<1>3. CASE i = NO_SLOT
  BY <1>1, <1>2, <1>3, RefuseStep DEF Opened, Store!Next
<1>4. CASE i \in Slots
  <2>1. i # NO_SLOT
    BY <1>4 DEF NO_SLOT, Slots
  <2>2. files'[i].path # Unused
    BY <1>1, <2>1, PathsAreUsed DEF ramfs_open, FirstWith
  <2>3. Store!Opens(h, i)
    BY <1>1, <1>4, <2>2, OpensStep
  <2> QED
    BY <1>1, <1>2, <1>4, <2>3 DEF Store!Next, Names, Data, DataOf
<1> QED
  BY <1>3, <1>4

\* ramfs_create_file and ramfs_mkdir make a file, or refuse.
LEMMA MakeNext ==
  ASSUME IInv, NEW p \in FilePaths,
         \/ \E c \in Contents : CreateFile(p, c)
         \/ Mkdir(p)
  PROVE  Store!Next
<1>1. UNCHANGED opened /\ out' = <<>>
  BY DEF CreateFile, Mkdir
<1>2. CASE UNCHANGED files
  BY <1>1, <1>2, SameView, RefuseStep DEF Store!Next
<1>3. ASSUME NEW j \in Slots, FirstWith(j, {Unused}), NEW f \in Slot, f.path # Unused,
             files' = [files EXCEPT ![j] = f],
             \/ Bytes(f) = <<>>
             \/ \E c \in Contents : Bytes(f) = SubSeq(c, 1, Smaller(Len(c), MAX_CONTENT - 1))
      PROVE  Store!Next
  <2>1. files[j].path = Unused
    BY <1>3 DEF FirstWith, NO_SLOT, Slots
  <2>2. Store!Make(j)
    BY <1>1, <1>3, <2>1, MakeStep
  <2> QED
    BY <1>1, <2>2 DEF Store!Next
<1>4. ASSUME NEW c \in Contents, CreateFile(p, c) PROVE Store!Next
  <2>1. ASSUME NEW j \in Slots
        PROVE  /\ FilledSlot(j, p, c) \in Slot /\ FilledSlot(j, p, c).path # Unused
               /\ Bytes(FilledSlot(j, p, c)) = SubSeq(c, 1, Smaller(Len(c), MAX_CONTENT - 1))
    <3>1. FilledSlot(j, p, c).path = p
      BY DEF FilledSlot
    <3> QED
      BY <3>1, FilledSlotType, NewBytes, PathsAreUsed DEF IInv
  <2> QED
    BY <1>2, <1>3, <1>4, <2>1 DEF CreateFile, ramfs_create_file
<1>5. CASE Mkdir(p)
  <2>1. ASSUME NEW j \in Slots
        PROVE  /\ DirSlot(j, p) \in Slot /\ DirSlot(j, p).path # Unused
               /\ Bytes(DirSlot(j, p)) = <<>>
    <3>1. DirSlot(j, p).path = p
      BY DEF DirSlot, IInv, TypeOK, Slot
    <3> QED
      BY <3>1, NewSlots, NewBytes, PathsAreUsed DEF IInv
  <2> QED
    BY <1>2, <1>3, <1>5, <2>1 DEF Mkdir, ramfs_mkdir
<1> QED
  BY <1>4, <1>5

\* ramfs_unlink removes a file, or refuses.
LEMMA UnlinkStep ==
  ASSUME IInv, NEW p \in FilePaths, Unlink(p)
  PROVE  Store!Next
<1>1. PICK i \in Slots \cup {NO_SLOT} :
        /\ ramfs_unlink(p, i)
        /\ opened' = [h \in Handles |->
                        IF opened[h].slot = i THEN [opened[h] EXCEPT !.live = FALSE] ELSE opened[h]]
        /\ out' = <<>>
  BY DEF Unlink
<1>2. CASE i = NO_SLOT /\ UNCHANGED files
  <2>1. \A h \in Handles : opened[h].slot = NO_SLOT => [opened[h] EXCEPT !.live = FALSE] = opened[h]
    <3> SUFFICES ASSUME NEW h \in Handles, opened[h].slot = NO_SLOT
                 PROVE  [opened[h] EXCEPT !.live = FALSE] = opened[h]
      OBVIOUS
    <3>1. opened[h].live = FALSE
      BY DEF IInv, TypeOK, PositionInFile, NO_SLOT, Slots
    <3>2. opened[h] \in [slot : Slots \cup {NO_SLOT}, f_pos : 0 .. MAX_CONTENT, live : BOOLEAN]
      BY DEF IInv, TypeOK
    <3> QED
      BY <3>1, <3>2
  <2>2. UNCHANGED opened
    BY <1>1, <1>2, <2>1 DEF IInv, TypeOK
  <2> QED
    BY <1>1, <1>2, <2>2, SameView, RefuseStep DEF Store!Next
<1>3. CASE i \in Slots /\ FirstWith(i, {p}) /\ files' = [files EXCEPT ![i] = FreedSlot(i)]
  <2>1. files[i].path = p /\ p # Unused
    BY <1>3, PathsAreUsed DEF FirstWith, NO_SLOT, Slots
  <2>2. FreedSlot(i).path = Unused
    BY <1>3 DEF FreedSlot, IInv, TypeOK, Slot
  <2>3. /\ Names[i] # Unused /\ Names'[i] = Unused /\ Data'[i] = <<>>
        /\ \A t \in Slots \ {i} : Names'[t] = Names[t] /\ Data'[t] = Data[t]
    BY <1>3, <2>1, <2>2 DEF IInv, TypeOK, Names, Data, DataOf, Bytes
  <2>4. Store!Remove(i)
    BY <1>1, <1>3, <2>3 DEF Store!Remove, Store!OthersKept, Names, Data, DataOf
  <2> QED
    BY <1>3, <2>4 DEF Store!Next
<1> QED
  BY <1>1, <1>2, <1>3 DEF ramfs_unlink

\* A read returns what the file holds at the position, unless it was removed.
LEMMA ReadStep ==
  ASSUME IInv, NEW h \in Handles, NEW n \in Counts, Read(h, n)
  PROVE  Store!Next
<1> DEFINE o == opened[h]
           f == files[o.slot]
           c == ReadCount(f, o.f_pos, n)
<1>1. /\ o \in [slot : Slots \cup {NO_SLOT}, f_pos : 0 .. MAX_CONTENT, live : BOOLEAN]
      /\ o.slot \in Slots /\ f \in Slot /\ n \in Nat /\ n # 0
  BY RamAssumption DEF IInv, TypeOK, OpenHaveSlots, Read
<1>2. /\ out' = ReadUnits(f, o.f_pos, n)
      /\ opened' = [opened EXCEPT ![h].f_pos = o.f_pos + c]
      /\ UNCHANGED files
  BY DEF Read
<1>3. Names' = Names /\ Data' = Data
  BY <1>2, SameView
<1>4. CASE ~o.live
  <2>1. /\ opened'[h].slot = o.slot /\ ~opened'[h].live
        /\ \A g \in Handles \ {h} : opened'[g] = opened[g]
    BY <1>1, <1>2, <1>4 DEF IInv, TypeOK
  <2>2. Store!Stale(h)
    BY <1>1, <1>3, <1>4, <2>1 DEF Store!Stale, Store!OtherHandlesKept, Names, Data, DataOf
  <2> QED
    BY <2>2 DEF Store!Next
<1>5. CASE o.live
  <2>1. f.path # Unused /\ o.f_pos <= f.size
    BY <1>5 DEF IInv, PositionInFile
  <2>2. f.size \in Nat /\ o.f_pos \in Nat
    BY <1>1, RamAssumption DEF Slot
  <2>3. Data[o.slot] = Bytes(f) /\ Len(Bytes(f)) = f.size
    <3>1. Data[o.slot] = Bytes(f)
      BY <1>1, <2>1 DEF Data, DataOf
    <3>2. ASSUME NEW m \in Nat, NEW g PROVE Len([k \in 1 .. m |-> g[k - 1]]) = m
      OBVIOUS
    <3> QED
      BY <2>2, <3>1, <3>2 DEF Bytes
  <2>4. c = Store!Shorter(n, Len(Data[o.slot]) - o.f_pos) /\ c \in Nat /\ o.f_pos + c <= f.size
    <3>1. Len(Data[o.slot]) = f.size
      BY <2>3
    <3>2. ASSUME NEW a \in Nat, NEW b \in Nat, NEW z \in Nat, b <= z
          PROVE  LET r == IF b >= z THEN 0 ELSE IF a <= z - b THEN a ELSE z - b
                 IN  r = (IF a <= z - b THEN a ELSE z - b) /\ r \in Nat /\ b + r <= z
      BY <3>2
    <3>3. c = IF o.f_pos >= f.size THEN 0 ELSE IF n <= f.size - o.f_pos THEN n ELSE f.size - o.f_pos
      BY DEF ReadCount, Smaller
    <3> HIDE DEF c, o, f
    <3> QED
      BY <1>1, <2>1, <2>2, <3>1, <3>2, <3>3 DEF Store!Shorter
  <2>5. out' = SubSeq(Data[o.slot], o.f_pos + 1, o.f_pos + c)
    <3>1. ReadUnits(f, o.f_pos, n) = [k \in 1 .. c |-> f.content[o.f_pos + k - 1]]
      BY DEF ReadUnits
    <3> HIDE DEF c
    <3>2. SubSeq(Bytes(f), o.f_pos + 1, o.f_pos + c) = [k \in 1 .. c |-> Bytes(f)[o.f_pos + k]]
      <4> DEFINE a == o.f_pos
                 q == Bytes(f)
      <4>1. a \in Nat /\ c \in Nat
        BY <2>2, <2>4
      <4> HIDE DEF a, q
      <4>2. SubSeq(q, a + 1, a + c) = [k \in 1 .. c |-> q[a + k]]
        BY <4>1
      <4> QED
        BY <4>2 DEF a, q
    <3>3. ASSUME NEW k \in 1 .. c PROVE Bytes(f)[o.f_pos + k] = f.content[o.f_pos + k - 1]
      <4>1. o.f_pos + k \in 1 .. f.size
        BY <2>2, <2>4
      <4>2. ASSUME NEW m, NEW g, NEW j \in 1 .. m
            PROVE  [i \in 1 .. m |-> g[i - 1]][j] = g[j - 1]
        OBVIOUS
      <4>3. Bytes(f)[o.f_pos + k] = f.content[(o.f_pos + k) - 1]
        BY <4>1, <4>2, Zenon DEF Bytes
      <4>4. (o.f_pos + k) - 1 = o.f_pos + k - 1
        BY <2>2, <2>4
      <4> QED
        BY <4>3, <4>4
    <3> QED
      BY <1>2, <2>3, <3>1, <3>2, <3>3
  <2>6. Store!Read(h, n)
    BY <1>2, <1>3, <1>5, <2>4, <2>5 DEF Store!Read, Names, Data, DataOf
  <2> QED
    BY <2>6 DEF Store!Next
<1> QED
  BY <1>1, <1>4, <1>5

\* The units of a written slot are the old ones with the written ones laid over.
LEMMA WrittenBytes ==
  ASSUME NEW f \in Slot, NEW pos \in 0 .. MAX_CONTENT, pos <= f.size, NEW buf \in Seq(Nat)
  PROVE  Bytes(Written(f, pos, buf))
           = Store!Overlay(Bytes(f), pos, SubSeq(buf, 1, WriteCount(pos, buf)))
<1> DEFINE n == WriteCount(pos, buf)
           b == SubSeq(buf, 1, n)
           d == Bytes(f)
           w == Written(f, pos, buf)
           m == IF pos + n > f.size THEN pos + n ELSE f.size
<1>1. n \in 0 .. Len(buf) /\ pos + n \in 0 .. MAX_CONTENT /\ Len(buf) \in Nat
  BY WriteCountFits
<1>2. /\ f.size \in Nat /\ f.size <= MAX_CONTENT /\ MAX_CONTENT \in Nat /\ pos \in Nat
      /\ f.content \in [Offsets -> Nat]
  BY RamAssumption DEF Slot
<1>3. b \in Seq(Nat) /\ Len(b) = n
  BY <1>1
<1>4. Len(d) = f.size
  <2>1. ASSUME NEW z \in Nat, NEW g PROVE Len([k \in 1 .. z |-> g[k - 1]]) = z
    OBVIOUS
  <2> QED
    BY <1>2, <2>1 DEF Bytes
<1> HIDE DEF n, b
<1>5. Store!Overlay(d, pos, b)
        = [k \in 1 .. m |-> IF k > pos /\ k <= pos + n THEN b[k - pos] ELSE d[k]]
  BY <1>3, <1>4 DEF Store!Overlay
<1>6. m \in Nat /\ m <= MAX_CONTENT
  BY <1>1, <1>2
<1> HIDE DEF d
<1>7. w.size = m
  <2>1. CASE n = 0
    <3>1. w = f
      BY <2>1 DEF Written, n
    <3> QED
      BY <1>2, <2>1, <3>1
  <2>2. CASE n # 0
    <3>1. w.size = Larger(f.size, pos + n)
      BY <2>2 DEF Written, n, Slot
    <3> QED
      BY <1>1, <1>2, <3>1 DEF Larger
  <2> QED
    BY <2>1, <2>2
<1>8. ASSUME NEW k \in 1 .. m
      PROVE  w.content[k - 1] = IF k > pos /\ k <= pos + n THEN b[k - pos] ELSE d[k]
  <2>1. k \in Nat /\ k - 1 \in Offsets
    <3> HIDE DEF m
    <3> QED
      BY <1>2, <1>6 DEF Offsets
  <2>2. ~(k > pos /\ k <= pos + n) => k \in 1 .. f.size
    BY <1>1, <1>2
  <2>3. k \in 1 .. f.size => d[k] = f.content[k - 1]
    <3>1. ASSUME NEW z, NEW g, NEW j \in 1 .. z PROVE [i \in 1 .. z |-> g[i - 1]][j] = g[j - 1]
      OBVIOUS
    <3> QED
      BY <3>1, Zenon DEF Bytes, d
  <2>4. CASE n = 0
    <3>1. w = f
      BY <2>4 DEF Written, n
    <3> QED
      BY <1>1, <1>2, <2>1, <2>2, <2>3, <2>4, <3>1
  <2>5. CASE n # 0
    <3>1. w.content = Copied(f.content, pos, b)
      BY <2>5 DEF Written, n, b, Slot
    <3>2. w.content[k - 1] = IF k - 1 \in pos .. pos + Len(b) - 1
                               THEN b[k - 1 - pos + 1] ELSE f.content[k - 1]
      BY <2>1, <3>1 DEF Copied
    <3>3. k - 1 \in pos .. pos + Len(b) - 1 <=> k > pos /\ k <= pos + n
      BY <1>1, <1>2, <1>3, <2>1
    <3>4. k - 1 - pos + 1 = k - pos
      BY <1>2, <2>1
    <3> QED
      BY <2>2, <2>3, <3>2, <3>3, <3>4
  <2> QED
    BY <2>4, <2>5
<1> HIDE DEF m, w
<1>9. Bytes(w) = [k \in 1 .. m |-> w.content[k - 1]]
  BY <1>7 DEF Bytes
<1> QED
  BY <1>5, <1>8, <1>9 DEF n, b, d, w

\* A write lays its units over the file from the position on, unless it was removed.
LEMMA WriteStep ==
  ASSUME IInv, NEW h \in Handles, NEW buf \in Contents, Write(h, buf)
  PROVE  Store!Next
<1> DEFINE o == opened[h]
           f == files[o.slot]
           w == Written(f, o.f_pos, buf)
           c == WriteCount(o.f_pos, buf)
<1>1. /\ o \in [slot : Slots \cup {NO_SLOT}, f_pos : 0 .. MAX_CONTENT, live : BOOLEAN]
      /\ o.slot \in Slots /\ f \in Slot /\ buf \in Seq(Nat)
  BY RamAssumption DEF IInv, TypeOK, OpenHaveSlots, Write
<1>2. /\ files' = [files EXCEPT ![o.slot] = w]
      /\ opened' = [opened EXCEPT ![h].f_pos = o.f_pos + c]
      /\ out' = <<>>
  BY DEF Write
<1>3. w.path = f.path
  BY <1>1, WrittenSlot
<1> HIDE DEF w, c
<1>4. /\ Names' = Names
      /\ Data' = [Data EXCEPT ![o.slot] = IF f.path = Unused THEN <<>> ELSE Bytes(w)]
  BY <1>1, <1>2, <1>3 DEF IInv, TypeOK, Names, Data, DataOf, Bytes
<1>5. CASE ~o.live
  <2>1. /\ opened'[h].slot = o.slot /\ ~opened'[h].live
        /\ \A g \in Handles \ {h} : opened'[g] = opened[g]
    BY <1>1, <1>2, <1>5 DEF IInv, TypeOK
  <2>2. /\ \A s \in Slots \ {o.slot} : Data'[s] = Data[s]
        /\ \A s \in Slots : Names[s] = Unused => Data'[s] = Data[s]
    BY <1>1, <1>4 DEF Names, Data, DataOf
  <2>3. Store!Stale(h)
    BY <1>1, <1>4, <1>5, <2>1, <2>2 DEF Store!Stale, Store!OtherHandlesKept, Names, Data, DataOf
  <2> QED
    BY <2>3 DEF Store!Next
<1>6. CASE o.live
  <2>1. f.path # Unused /\ o.f_pos <= f.size
    BY <1>6 DEF IInv, PositionInFile
  <2>2. Data[o.slot] = Bytes(f)
    BY <1>1, <2>1 DEF Data, DataOf
  <2>3. Bytes(w) = Store!Overlay(Data[o.slot], o.f_pos, SubSeq(buf, 1, c))
    BY <1>1, <2>1, <2>2, WrittenBytes DEF w, c
  <2>4. c = Store!Shorter(Len(buf), MAX_CONTENT - o.f_pos)
    BY DEF c, WriteCount, Smaller, Store!Shorter
  <2>5. Data' = [Data EXCEPT ![o.slot] = Store!Overlay(@, o.f_pos, SubSeq(buf, 1, c))]
    BY <1>4, <2>1, <2>3
  <2>6. Store!Write(h, buf)
    BY <1>2, <1>4, <1>6, <2>4, <2>5 DEF Store!Write, Names, Data, DataOf
  <2> QED
    BY <2>6 DEF Store!Next
<1> QED
  BY <1>1, <1>5, <1>6

\* A file that is given up has no promise left.
LEMMA CloseStep ==
  ASSUME IInv, NEW h \in Handles, Close(h)
  PROVE  Store!Next
<1>1. ~opened'[h].live /\ \A g \in Handles \ {h} : opened'[g] = opened[g]
  BY DEF Close, NoFile, IInv, TypeOK
<1>2. Names' = Names /\ Data' = Data
  BY SameView DEF Close
<1>3. Store!Close(h)
  BY <1>1, <1>2 DEF Close, Store!Close, Store!OtherHandlesKept, Names, Data, DataOf
<1> QED
  BY <1>3 DEF Store!Next

\* RamFS is a store of named files (IsFileStore): every step of ramfs_create,
\* ramfs_open, ramfs_create_file, ramfs_mkdir, ramfs_unlink, ramfs_read,
\* ramfs_write and vfs_close is a step of FileStore, for every number of slots,
\* array length, set of paths and set of buffers.
THEOREM RamImplementsStore == Spec => IsFileStore
<1>1. Init => Store!Init
  BY DEF Init, Store!Init, NoFile
<1>2. IInv /\ [Next]_vars => [Store!Next]_<<Names, Data, opened, out>>
  <2> SUFFICES ASSUME IInv, [Next]_vars PROVE [Store!Next]_<<Names, Data, opened, out>>
    OBVIOUS
  <2>1. CASE UNCHANGED vars
    BY <2>1, SameView DEF vars
  <2>2. CASE Next
    BY <2>2, CreateStep, OpenStep, MakeNext, UnlinkStep, ReadStep, WriteStep, CloseStep DEF Next
  <2> QED
    BY <2>1, <2>2
<1>3. [][Store!Next]_<<Names, Data, opened, out>> /\ Store!Init => Store!Spec
  BY DEF Store!Spec, Store!vars, Names, Data, DataOf
<1> QED
  BY InitIInv, NextIInv, <1>1, <1>2, <1>3, PTL DEF Spec, IsFileStore
=============================================================================
