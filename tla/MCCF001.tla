------------------------------ MODULE MCCF001 ------------------------------
(* Two concurrent requests, two orders and two devices. *)
EXTENDS CF001, TLC

Symm == Permutations(Requests)
=============================================================================
