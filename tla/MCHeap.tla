------------------------------- MODULE MCHeap -------------------------------
(* Heaps for TLC in which a header takes two units of alignment, as in the *)
(* kernel, so that a header can be written over half of a stale one, and a *)
(* split must leave one unit: room for four blocks, requests that are and  *)
(* are not multiples of the alignment, that split a block, that leave too  *)
(* little to split and that fail.                                          *)
EXTENDS Heap
============================================================================
