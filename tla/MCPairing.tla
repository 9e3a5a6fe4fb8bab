----------------------------- MODULE MCPairing -----------------------------
(* Two hosts and one accessory, whose owners change while two requests     *)
(* pair, unpair or switch it, the linkage engine fills the cache and the   *)
(* reconciler goes round.                                                  *)
EXTENDS Pairing
=============================================================================
