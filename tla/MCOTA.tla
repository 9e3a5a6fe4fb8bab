------------------------------- MODULE MCOTA -------------------------------
(* Small roll-outs of Module OTA: one device over two stages, or two devices  *)
(* that the first stage samples together.                                     *)
EXTENDS OTA

CONSTANTS d1, d2

MCSamplings == {[d \in Devices |-> IF d = d1 THEN 1 ELSE 3], [d \in Devices |-> 1]}
=============================================================================
