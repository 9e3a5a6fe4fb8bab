----------------------------- MODULE MCLinkage -----------------------------
(* One pairing and two replicas of accessory-svc.                           *)
EXTENDS Linkage
=============================================================================
