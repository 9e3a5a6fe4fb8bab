------------------------------ MODULE MCAlarm ------------------------------
(* Instances of Alarm for TLC. One time unit stands for about two minutes.  *)
EXTENDS Alarm

CONSTANTS e1, e2, e3, p1, p2

\* Two safety events of one (sn, code) pair and one that is no safety event.
MCPair == [e \in Events |-> IF e = e3 THEN p2 ELSE p1]
MCTs == [e \in Events |-> IF e = e2 THEN 1 ELSE 0]
=============================================================================
