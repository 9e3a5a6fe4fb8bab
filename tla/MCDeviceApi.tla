---------------------------- MODULE MCDeviceApi ----------------------------
(* deviceapi: its commands with their audit and grants (Command), and the  *)
(* desired documents (Desired). They share no state, so a behaviour is one *)
(* of the one or of the other.                                             *)
EXTENDS Command

CONSTANTS Patchers, Loaders, MaxEdits

VARIABLES
    part,      \* "command" or "desired"
    row, cache, device, should, patch, load, round, edits, unlocked, raced

D == INSTANCE Desired WITH rec <- round
desiredVars == <<row, cache, device, should, patch, load, round, edits, unlocked, raced>>
allVars == <<vars, desiredVars, part>>

MCInit == Init /\ D!Init /\ part \in {"command", "desired"}
MCNext ==
    \/ part = "command" /\ Next /\ UNCHANGED <<desiredVars, part>>
    \/ part = "desired" /\ D!Next /\ UNCHANGED <<vars, part>>

(* The fairness of Command!FairSpec and Desired!FairSpec, each in its part. *)
MCSpec ==
    /\ MCInit /\ [][MCNext]_allVars
    /\ WF_vars(part = "command" /\ RecReadCmds) /\ WF_vars(part = "command" /\ RecCompare)
    /\ WF_vars(part = "command" /\ \E m \in stream : HandleAudit(m, TRUE))
    /\ WF_desiredVars(part = "desired" /\ \E p \in Patchers : D!Patching(p))
    /\ WF_desiredVars(part = "desired" /\ \E l \in Loaders : D!LoadSet(l))
    /\ WF_desiredVars(part = "desired" /\ D!CacheExpires)
    /\ WF_desiredVars(part = "desired" /\ D!UnlockRunsOut)
    /\ WF_desiredVars(part = "desired" /\ D!ReconcileStart)
    /\ SF_desiredVars(part = "desired" /\ D!ReconcileRead)
    /\ SF_desiredVars(part = "desired" /\ D!ReconcileMerge)

(* Desired!StaleDeviceRaced: the device is behind only while a PATCH is    *)
(* under way or when PATCHes overlapped or were not published (server.go   *)
(* patchDesired).                                                          *)
StaleDeviceRaced == D!StaleDeviceRaced

(* Desired!DesiredConverges: once people stop editing, the cache shows the *)
(* stored document, an unlock that ran out is taken back and the lock      *)
(* follows the timetable (INC-5-11, loadDesired, ReconcileOnce).           *)
DesiredConverges == <>[](part = "desired" => D!Settled)
=============================================================================
