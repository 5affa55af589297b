----------------------------- MODULE FileStore -----------------------------
(***************************************************************************)
(* What RamFS promises: named sequences of units.  Each file is changed    *)
(* only by its removal and by writes through files opened on it, a write   *)
(* goes to the position behind the last read or write of that open file,   *)
(* and a read returns what the file holds there.  The promise ends for an  *)
(* open file when its file is removed: from then on, what it reads, where  *)
(* it is, and what it writes into whatever took the slot, is open.         *)
(***************************************************************************)
EXTENDS Integers, Sequences

CONSTANTS
  Slots, Handles, Unused,
  Capacity,     \* units that a file can hold
  Buffers,      \* what callers store
  Counts        \* how much callers ask to read

VARIABLES
  name,       \* the path of each file, Unused for no file
  data,       \* the units of each file
  opened,     \* [slot, f_pos, live] of each open file, live FALSE when removed
  out         \* what the last operation returned, if it was a read

vars == <<name, data, opened, out>>

\* d with buf laid over it from position pos on.
Overlay(d, pos, buf) ==
  LET n == IF pos + Len(buf) > Len(d) THEN pos + Len(buf) ELSE Len(d)
  IN  [k \in 1 .. n |-> IF k > pos /\ k <= pos + Len(buf) THEN buf[k - pos] ELSE d[k]]

Init ==
  /\ \A s \in Slots : name[s] = Unused /\ data[s] = <<>>
  /\ \A h \in Handles : ~opened[h].live
  /\ out = <<>>

OthersKept(s) == \A t \in Slots \ {s} : name'[t] = name[t] /\ data'[t] = data[t]
OtherHandlesKept(h) == \A g \in Handles \ {h} : opened'[g] = opened[g]

Shorter(a, b) == IF a <= b THEN a ELSE b

\* A file appears in an unused slot, empty or with the start of a buffer that
\* leaves room for one more unit.
Make(s) ==
  /\ name[s] = Unused /\ name'[s] # Unused
  /\ \/ data'[s] = <<>>
     \/ \E buf \in Buffers : data'[s] = SubSeq(buf, 1, Shorter(Len(buf), Capacity - 1))
  /\ OthersKept(s)
  /\ out' = <<>>

\* A file that exists is opened at its start.
Opens(h, s) ==
  /\ name'[s] # Unused
  /\ opened'[h].slot = s /\ opened'[h].f_pos = 0 /\ opened'[h].live
  /\ OtherHandlesKept(h)

Remove(s) ==
  /\ name[s] # Unused /\ name'[s] = Unused /\ data'[s] = <<>>
  /\ OthersKept(s)
  /\ \A h \in Handles : opened'[h] = IF opened[h].slot = s
                                       THEN [opened[h] EXCEPT !.live = FALSE] ELSE opened[h]
  /\ out' = <<>>

Close(h) == ~opened'[h].live /\ OtherHandlesKept(h) /\ UNCHANGED <<name, data>> /\ out' = <<>>

\* A read of a file that was not removed.
Read(h, count) ==
  LET o == opened[h]
      n == Shorter(count, Len(data[o.slot]) - o.f_pos)
  IN  /\ o.live
      /\ out' = SubSeq(data[o.slot], o.f_pos + 1, o.f_pos + n)
      /\ opened' = [opened EXCEPT ![h].f_pos = @ + n]
      /\ UNCHANGED <<name, data>>

\* A write to a file that was not removed, as far as there is room.
Write(h, buf) ==
  LET o == opened[h]
      n == Shorter(Len(buf), Capacity - o.f_pos)
  IN  /\ o.live
      /\ data' = [data EXCEPT ![o.slot] = Overlay(@, o.f_pos, SubSeq(buf, 1, n))]
      /\ opened' = [opened EXCEPT ![h].f_pos = @ + n]
      /\ UNCHANGED name /\ out' = <<>>

\* A read or a write through an open file whose file was removed.
Stale(h) ==
  /\ opened[h].slot \in Slots /\ ~opened[h].live
  /\ opened'[h].slot = opened[h].slot /\ ~opened'[h].live
  /\ OtherHandlesKept(h)
  /\ UNCHANGED name
  /\ \A s \in Slots \ {opened[h].slot} : data'[s] = data[s]
  /\ \A s \in Slots : name[s] = Unused => data'[s] = data[s]

\* An operation that fails.
Refuse == UNCHANGED <<name, data, opened>> /\ out' = <<>>

Next ==
  \/ Refuse
  \/ \E s \in Slots : Make(s) /\ (UNCHANGED opened \/ \E h \in Handles : Opens(h, s))
  \/ \E s \in Slots, h \in Handles : Opens(h, s) /\ UNCHANGED <<name, data>> /\ out' = <<>>
  \/ \E s \in Slots : Remove(s)
  \/ \E h \in Handles, count \in Counts : Read(h, count)
  \/ \E h \in Handles, buf \in Buffers : Write(h, buf)
  \/ \E h \in Handles : Close(h) \/ Stale(h)

Spec == Init /\ [][Next]_vars
=============================================================================
