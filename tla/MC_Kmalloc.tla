---------------------------- MODULE MC_Kmalloc ----------------------------
(* Instance of Kmalloc for TLC: sizes that fit, that end exactly at the    *)
(* end of the heap, that do not fit, and zero.                             *)
EXTENDS Kmalloc

MCSizes == {0, 1, 2, 5, 6}
=============================================================================
