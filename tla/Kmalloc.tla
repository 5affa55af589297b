------------------------------ MODULE Kmalloc ------------------------------
(***************************************************************************)
(* The kernel heap of src/src/mm/kmalloc.c: kalloc hands out the next      *)
(* bytes of one array, kfree does nothing.  Addresses are offsets in       *)
(* heap[]; size_t arithmetic is modulo SIZE_MOD (2^64).                    *)
(***************************************************************************)
EXTENDS Integers

CONSTANTS
  HEAP_SIZE,    \* sizeof(heap), 1 MiB in the code
  SIZE_MOD,     \* 2^64, one more than the largest size_t
  Sizes         \* the sizes that are asked for

\* Every caller asks for the size of a structure, a path or the file system's
\* blocks, so that heap_pos + size does not wrap round.
ASSUME HeapAssumption ==
  /\ HEAP_SIZE \in Nat /\ SIZE_MOD \in Nat
  /\ Sizes \subseteq Nat
  /\ \A s \in Sizes : HEAP_SIZE + s < SIZE_MOD

VARIABLES
  heap_pos,
  given,        \* the [start, size] areas that kalloc returned
  freed,        \* those that were handed to kfree
  ptr           \* what the last kalloc returned, NULL = -1

vars == <<heap_pos, given, freed, ptr>>

NULL == -1

Area == [start : Nat, size : Nat]

Init == heap_pos = 0 /\ given = {} /\ freed = {} /\ ptr = NULL

\* Mutated form of kalloc: the size is left out of the test.
kalloc_no_size(size) ==
  \/ heap_pos > HEAP_SIZE /\ ptr' = NULL /\ UNCHANGED <<heap_pos, given, freed>>
  \/ /\ heap_pos <= HEAP_SIZE
     /\ ptr' = heap_pos
     /\ given' = given \cup {[start |-> heap_pos, size |-> size]}
     /\ heap_pos' = (heap_pos + size) % SIZE_MOD
     /\ UNCHANGED freed

kalloc(size) ==
  LET end == (heap_pos + size) % SIZE_MOD
  IN  \/ end > HEAP_SIZE /\ ptr' = NULL /\ UNCHANGED <<heap_pos, given, freed>>
      \/ /\ end <= HEAP_SIZE
         /\ ptr' = heap_pos
         /\ given' = given \cup {[start |-> heap_pos, size |-> size]}
         /\ heap_pos' = end
         /\ UNCHANGED freed

\* Mutated form of kfree: the heap is cut back to the freed area.
kfree_cut(a) ==
  /\ heap_pos' = a.start
  /\ freed' = freed \cup {a}
  /\ UNCHANGED <<given, ptr>>

\* kfree changes nothing but the caller's right to use the area.
kfree(a) ==
  /\ freed' = freed \cup {a}
  /\ UNCHANGED <<heap_pos, given, ptr>>

Next == (\E s \in Sizes : kalloc(s)) \/ (\E a \in given \ freed : kfree(a))

Spec == Init /\ [][Next]_vars

-----------------------------------------------------------------------------
TypeOK ==
  /\ heap_pos \in 0 .. HEAP_SIZE
  /\ given \subseteq Area
  /\ freed \subseteq given
  /\ ptr \in Nat \cup {NULL}

\* Two areas that kalloc returned never share a byte, whether or not one of them
\* was handed to kfree, and no area goes past the end of the heap.
AreasDisjoint ==
  /\ \A a \in given : a.start + a.size <= HEAP_SIZE
  /\ \A a, b \in given : a # b => a.start + a.size <= b.start \/ b.start + b.size <= a.start

\* Every area lies below heap_pos, which makes AreasDisjoint inductive: the next
\* area starts there.
BelowPos == \A a \in given : a.start + a.size <= heap_pos

\* Memory never comes back: once kalloc has refused a size, it refuses that size
\* for ever, however much is freed.
RefusalIsFinal ==
  [][\A s \in Sizes : heap_pos + s > HEAP_SIZE => heap_pos' + s > HEAP_SIZE]_vars
=============================================================================
