----------------------- MODULE MCOptionOrderGenerator -----------------------
(* Instances of the order generator and its book for TLC. *)
EXTENDS OptionOrderGenerator

(* The whole band of prices the configuration can reach. *)
MCPrice == 0..6
MCOrderId == 0..(IdModulus - 1)
=============================================================================
