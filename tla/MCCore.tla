------------------------------- MODULE MCCore -------------------------------
(* Instances of the trading client and its market server for TLC. *)
EXTENDS Core
=============================================================================
