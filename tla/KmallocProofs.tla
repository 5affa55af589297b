--------------------------- MODULE KmallocProofs ---------------------------
(***************************************************************************)
(* For every heap size and every set of sizes: the areas that kalloc       *)
(* returns are disjoint and inside the heap, and a refusal is final.       *)
(***************************************************************************)
EXTENDS Kmalloc, TLAPS

\* The inductive invariant: an area starts at heap_pos, and all the earlier ones
\* end there or before.
IInv == TypeOK /\ BelowPos /\ AreasDisjoint

\* heap_pos + size does not wrap round.
LEMMA NoWrap ==
  ASSUME NEW p \in 0 .. HEAP_SIZE, NEW s \in Sizes
  PROVE  /\ (p + s) % SIZE_MOD = p + s
         /\ s \in Nat
<1>1. s \in Nat /\ p + s \in 0 .. SIZE_MOD - 1 /\ SIZE_MOD \in Nat \ {0}
  BY HeapAssumption
<1>2. \A a, n \in Nat : a < n => a % n = a
  OBVIOUS
<1> QED
  BY <1>1, <1>2

\* IInv holds before the first kalloc.
LEMMA InitIInv == Init => IInv
  BY HeapAssumption DEF Init, IInv, TypeOK, BelowPos, AreasDisjoint, NULL

\* kalloc and kfree preserve IInv.
LEMMA NextIInv == IInv /\ [Next]_vars => IInv'
<1> SUFFICES ASSUME IInv, [Next]_vars PROVE IInv'
  OBVIOUS
<1> USE HeapAssumption
<1>1. ASSUME NEW s \in Sizes, kalloc(s) PROVE IInv'
  <2>1. (heap_pos + s) % SIZE_MOD = heap_pos + s /\ s \in Nat
    BY NoWrap DEF IInv, TypeOK
  <2>2. CASE UNCHANGED <<heap_pos, given, freed>> /\ ptr' = NULL
    BY <2>2 DEF IInv, TypeOK, BelowPos, AreasDisjoint
  <2>3. CASE /\ heap_pos + s <= HEAP_SIZE
             /\ ptr' = heap_pos
             /\ given' = given \cup {[start |-> heap_pos, size |-> s]}
             /\ heap_pos' = heap_pos + s
             /\ UNCHANGED freed
    <3>1. TypeOK'
      BY <2>1, <2>3 DEF IInv, TypeOK, Area
    <3>2. BelowPos'
      BY <2>1, <2>3 DEF IInv, TypeOK, BelowPos, Area
    <3>3. AreasDisjoint'
      BY <2>1, <2>3 DEF IInv, TypeOK, BelowPos, AreasDisjoint, Area
    <3> QED
      BY <3>1, <3>2, <3>3 DEF IInv
  <2> QED
    BY <1>1, <2>1, <2>2, <2>3 DEF kalloc
<1>2. ASSUME NEW a \in given \ freed, kfree(a) PROVE IInv'
  BY <1>2 DEF kfree, IInv, TypeOK, BelowPos, AreasDisjoint
<1>3. CASE UNCHANGED vars
  BY <1>3 DEF vars, IInv, TypeOK, BelowPos, AreasDisjoint
<1> QED
  BY <1>1, <1>2, <1>3 DEF Next

\* kalloc never returns memory that it has returned before, nor memory outside
\* heap[] (kmalloc.c:6-13), for every heap size and every caller that asks for
\* sizes that do not wrap size_t.
THEOREM AreasAreDisjoint == Spec => [](TypeOK /\ AreasDisjoint)
<1>1. IInv => TypeOK /\ AreasDisjoint
  BY DEF IInv
<1> QED
  BY InitIInv, NextIInv, <1>1, PTL DEF Spec

\* heap_pos never leaves heap[].
THEOREM HeapTypes == Spec => []TypeOK
  BY AreasAreDisjoint, PTL

\* kfree (kmalloc.c:15-19) never makes room: a size that was refused once is
\* refused for ever.
THEOREM RefusalsAreFinal == Spec => RefusalIsFinal
<1>1. ASSUME IInv, [Next]_vars
      PROVE  [\A s \in Sizes : heap_pos + s > HEAP_SIZE => heap_pos' + s > HEAP_SIZE]_vars
  <2> USE HeapAssumption
  <2>1. heap_pos \in Nat /\ heap_pos' \in Nat /\ heap_pos' >= heap_pos
    <3>1. ASSUME NEW s \in Sizes, kalloc(s) PROVE heap_pos' \in Nat /\ heap_pos' >= heap_pos
      <4>1. (heap_pos + s) % SIZE_MOD = heap_pos + s /\ s \in Nat
        BY <1>1, NoWrap DEF IInv, TypeOK
      <4> QED
        BY <1>1, <3>1, <4>1 DEF kalloc, IInv, TypeOK
    <3>2. ASSUME NEW a \in given \ freed, kfree(a) PROVE heap_pos' = heap_pos
      BY <3>2 DEF kfree
    <3>3. CASE UNCHANGED vars
      BY <1>1, <3>3 DEF vars, IInv, TypeOK
    <3> QED
      BY <1>1, <3>1, <3>2, <3>3 DEF Next, IInv, TypeOK
  <2>2. ASSUME NEW s \in Sizes, heap_pos + s > HEAP_SIZE PROVE heap_pos' + s > HEAP_SIZE
    <3>1. \A a, b, c, n \in Nat : b >= a /\ a + c > n => b + c > n
      OBVIOUS
    <3> QED
      BY <2>1, <2>2, <3>1
  <2> QED
    BY <2>2
<1> QED
  BY InitIInv, NextIInv, <1>1, PTL DEF Spec, RefusalIsFinal
=============================================================================
