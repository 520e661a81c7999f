------------------------- MODULE MCOptionOrderBook -------------------------
(* Instances of the order book for TLC. *)
EXTENDS OptionOrderBook

CONSTANTS o1, o2, o3, o4

(* The book compares ids for equality only. *)
IdSymmetry == Permutations(OrderId)
=============================================================================
