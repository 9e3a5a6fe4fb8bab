---------------------------- MODULE MCFleetQueue ----------------------------
(* A queue of two items for one device, two replicas of the scheduler.     *)
EXTENDS FleetQueue
=============================================================================
