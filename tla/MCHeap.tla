------------------------------- MODULE MCHeap -------------------------------
(***************************************************************************)
(* Small heaps for TLC.  Nodes are alike, so any permutation of those with *)
(* a reference maps behaviours to behaviours; so do those of the spare     *)
(* nodes and of the heaps.                                                 *)
(*                                                                         *)
(* Three trees of one degree meet only in a heap of six nodes, whatever    *)
(* the priorities.  The spare nodes are there for that: they are in heaps  *)
(* only while nothing is cached, all priorities are the same and no item   *)
(* has left its node.  The others may exchange their items in the heaps; a *)
(* node that leaves with another's item is not used again.                 *)
(***************************************************************************)
EXTENDS Heap

CONSTANT Spare \* nodes without a reference, used only as Bounded says

SpareIdle ==
    \A n \in Spare : ~heap_node_in_heap(n) /\ store.value[n] = n /\ prio[n] = 1

AllAlike ==
    /\ \A n \in Nodes : store.value[n] = n /\ prio[n] = 1
    /\ \A h \in Heaps : store.min[h] = NULL

LeftAsTheyCame == \A n \in Nodes : ~heap_node_in_heap(n) => store.value[n] = n

Bounded == (SpareIdle /\ LeftAsTheyCame) \/ AllAlike

Symmetry ==
    Permutations(WithRef) \cup Permutations(Spare) \cup Permutations(Heaps)
=============================================================================
