---------------------------- MODULE MCNachosList ----------------------------
(* NachosList in a small memory. *)
EXTENDS NachosList, TLC

(* The lists of the kernel: queues, the pending interrupts, and the lists that
   elements are taken out of.                                                *)
Kinds == {{"Append", "Prepend"}, {"SortedInsert"}, {"Append", "RemoveElement"}}

(* Nobody sees where an element is in memory, or what an item is. *)
Symmetry == Permutations(Cell) \cup Permutations(Item)
=============================================================================
