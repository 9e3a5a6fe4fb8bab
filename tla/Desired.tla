------------------------------ MODULE Desired ------------------------------
(***************************************************************************)
(* The desired state of one device (iot_shard.shadow_desired) and its      *)
(* three kinds of writers and readers: deviceapi's PATCH /desired and      *)
(* GET /shadow with the Redis cache desired:{sn}, and fleet-svc's temporary *)
(* unlock and schedule reconciliation, which write the same row. The       *)
(* device applies what arrives on down/{sn}/desired.                       *)
(*                                                                         *)
(* Of the JSON document the lock fields are kept, and one switch that      *)
(* stands for all others. lock_expires_at is none, live (in the future) or *)
(* past.                                                                   *)
(***************************************************************************)
EXTENDS Naturals, FiniteSets

CONSTANTS
    Patchers,   \* concurrent PATCH requests
    Loaders,    \* concurrent GET /shadow requests
    MaxEdits    \* bound: changes made by people (patches, unlocks, timetable)

Unset == "unset"
Switch == {"on", "off"}            \* a PATCH changes it
Empty == [ver |-> 0, lock |-> Unset, exp |-> "none", switch |-> Unset]
NoCache == [Empty EXCEPT !.lock = "no cache"]

VARIABLES
    row,      \* shadow_desired
    cache,    \* Redis desired:{sn}
    device,   \* the document the device has applied
    should,   \* schedule.ShouldLock at this moment
    patch,    \* patch[p]: locals of patchDesired
    load,     \* load[l]: locals of loadDesired
    rec,      \* locals of ReconcileOnce for this device
    edits,    \* changes made so far
    unlocked, \* history: a temporary unlock is running
    raced     \* history: the last PATCH merged while another was under way, or
              \* was not published

vars == <<row, cache, device, should, patch, load, rec, edits, unlocked, raced>>

Idle == [pc |-> "idle", doc |-> Empty]
NoRec == [pc |-> "idle", lock |-> "off", clear |-> FALSE]

Init ==
    /\ row = Empty /\ cache = NoCache /\ device = Empty
    /\ should = "off"
    /\ patch = [p \in Patchers |-> Idle] /\ load = [l \in Loaders |-> Idle]
    /\ rec = NoRec
    /\ edits = 0 /\ unlocked = FALSE /\ raced = FALSE

Edit == edits < MaxEdits /\ edits' = edits + 1

\* INSERT ... ON CONFLICT DO UPDATE SET desired = desired || patch, version + 1:
\* the fields of f that are not "keep" replace those of the document.
Merged(doc, f) ==
    LET pick(old, new) == IF new = "keep" THEN old ELSE new
    IN [ver |-> doc.ver + 1, switch |-> pick(doc.switch, f.switch),
        lock |-> pick(doc.lock, f.lock), exp |-> pick(doc.exp, f.exp)]

Fields(switch, lock, exp) == [switch |-> switch, lock |-> lock, exp |-> exp]

-----------------------------------------------------------------------------
(* deviceapi.                                                              *)

\* PATCH: the merge; then the cache is invalidated; then the result published.
PatchMerge(p, v) ==
    /\ patch[p].pc = "idle" /\ Edit
    /\ row' = Merged(row, Fields(v, "keep", "keep"))
    /\ patch' = [patch EXCEPT ![p] = [pc |-> "del", doc |-> row']]
    /\ raced' = \E q \in Patchers \ {p} : patch[q] # Idle
    /\ UNCHANGED <<cache, device, should, load, rec, unlocked>>

\* Mutant: a failed DEL ends the request.
PatchDelReturns(p) ==
    /\ patch[p].pc = "del"
    /\ \/ cache' = NoCache /\ patch' = [patch EXCEPT ![p].pc = "publish"]
       \/ patch' = [patch EXCEPT ![p] = Idle] /\ UNCHANGED cache
    /\ UNCHANGED <<row, device, should, load, rec, edits, unlocked, raced>>

\* A failed DEL is only logged.
PatchDel(p) ==
    /\ patch[p].pc = "del"
    /\ cache' \in {NoCache, cache}
    /\ patch' = [patch EXCEPT ![p].pc = "publish"]
    /\ UNCHANGED <<row, device, should, load, rec, edits, unlocked, raced>>

\* The device applies what it is sent, whatever version it has.
PatchPublish(p) ==
    /\ patch[p].pc = "publish"
    /\ device' = patch[p].doc
    /\ patch' = [patch EXCEPT ![p] = Idle]
    /\ UNCHANGED <<row, cache, should, load, rec, edits, unlocked, raced>>

\* The publication fails, which is only logged, or the handler dies before it.
PatchNotPublished(p) ==
    /\ patch[p].pc # "idle"
    /\ patch' = [patch EXCEPT ![p] = Idle]
    /\ raced' = TRUE
    /\ UNCHANGED <<row, cache, device, should, load, rec, edits, unlocked>>

\* GET /shadow: a hit answers from the cache and changes nothing; a miss reads
\* the row and then fills the cache, if Redis takes it.
LoadMiss(l) ==
    /\ load[l].pc = "idle" /\ cache = NoCache
    /\ load' = [load EXCEPT ![l] = [pc |-> "set", doc |-> row]]
    /\ UNCHANGED <<row, cache, device, should, patch, rec, edits, unlocked, raced>>

LoadSet(l) ==
    /\ load[l].pc = "set"
    /\ cache' \in {load[l].doc, cache}
    /\ load' = [load EXCEPT ![l] = Idle]
    /\ UNCHANGED <<row, device, should, patch, rec, edits, unlocked, raced>>

\* DesiredCacheTTL, one hour.
CacheExpires ==
    /\ cache # NoCache
    /\ cache' = NoCache
    /\ UNCHANGED <<row, device, should, patch, load, rec, edits, unlocked, raced>>

-----------------------------------------------------------------------------
(* fleet-svc.                                                              *)

\* Unlock: one merge, without the cache and without MQTT.
Unlock ==
    /\ Edit
    /\ row' = Merged(row, Fields("keep", "off", "live"))
    /\ unlocked' = TRUE
    /\ UNCHANGED <<cache, device, should, patch, load, rec, raced>>

UnlockRunsOut ==
    /\ unlocked
    /\ unlocked' = FALSE
    /\ row' = [row EXCEPT !.exp = IF @ = "live" THEN "past" ELSE @]
    /\ UNCHANGED <<cache, device, should, patch, load, rec, edits, raced>>

\* A lesson begins or ends, or PutPolicy changes the timetable.
Timetable ==
    /\ Edit
    /\ should' = IF should = "on" THEN "off" ELSE "on"
    /\ UNCHANGED <<row, cache, device, patch, load, rec, unlocked, raced>>

ReconcileLockKeepsUnlock(lock, doc) == doc.exp = "none" /\ doc.lock # lock

\* model.go: whether a patch is due, given the document read.
ReconcileLock(lock, doc) ==
    \/ doc.exp = "past"
    \/ doc.exp = "none" /\ doc.lock # lock

\* ReconcileOnce: ShouldLock for the site, then for each device GetDesiredLock
\* and ReconcileLock, then MergeDesired.
ReconcileStart ==
    /\ rec.pc = "idle"
    /\ rec' = [NoRec EXCEPT !.pc = "read", !.lock = should]
    /\ UNCHANGED <<row, cache, device, should, patch, load, edits, unlocked, raced>>

ReconcileRead ==
    /\ rec.pc = "read"
    /\ rec' = IF ReconcileLock(rec.lock, row)
                 THEN [pc |-> "merge", lock |-> rec.lock, clear |-> row.exp = "past"]
                 ELSE NoRec
    /\ UNCHANGED <<row, cache, device, should, patch, load, edits, unlocked, raced>>

ReconcileMerge ==
    /\ rec.pc = "merge"
    /\ row' = Merged(row, Fields("keep", rec.lock, IF rec.clear THEN "none" ELSE "keep"))
    /\ rec' = NoRec
    /\ UNCHANGED <<cache, device, should, patch, load, edits, unlocked, raced>>

ReconcileErr ==
    /\ rec.pc # "idle"
    /\ rec' = NoRec
    /\ UNCHANGED <<row, cache, device, should, patch, load, edits, unlocked, raced>>

-----------------------------------------------------------------------------
Patching(p) == PatchDel(p) \/ PatchPublish(p)
Reconcile == ReconcileStart \/ ReconcileRead \/ ReconcileMerge

Next ==
    \/ \E p \in Patchers : Patching(p) \/ PatchNotPublished(p) \/ \E v \in Switch \ {row.switch} : PatchMerge(p, v)
    \/ \E l \in Loaders : LoadMiss(l) \/ LoadSet(l)
    \/ CacheExpires
    \/ Unlock \/ UnlockRunsOut \/ Timetable
    \/ Reconcile \/ ReconcileErr

Spec == Init /\ [][Next]_vars

\* Handlers run to their end, entries and unlocks run out, and the reconciler's
\* ticker keeps running; its write does not fail for ever.
FairSpec ==
    /\ Spec
    /\ WF_vars(\E p \in Patchers : Patching(p)) /\ WF_vars(\E l \in Loaders : LoadSet(l))
    /\ WF_vars(CacheExpires) /\ WF_vars(UnlockRunsOut)
    /\ WF_vars(ReconcileStart) /\ SF_vars(ReconcileRead) /\ SF_vars(ReconcileMerge)

-----------------------------------------------------------------------------
(* Properties.                                                             *)

Docs == [ver : Nat, lock : Switch \cup {Unset}, exp : {"none", "live", "past"}, switch : Switch \cup {Unset}]

\* Types; cached, loaded and published documents are never ahead of the row.
TypeOK ==
    /\ row \in Docs /\ device \in Docs /\ cache \in Docs \cup {NoCache}
    /\ should \in Switch /\ unlocked \in BOOLEAN /\ raced \in BOOLEAN /\ edits \in 0 .. MaxEdits
    /\ patch \in [Patchers -> [pc : {"idle", "del", "publish"}, doc : Docs]]
    /\ load \in [Loaders -> [pc : {"idle", "set"}, doc : Docs]]
    /\ rec \in [pc : {"idle", "read", "merge"}, lock : Switch, clear : BOOLEAN]
    /\ \A d \in {device} \cup {patch[p].doc : p \in Patchers} \cup {load[l].doc : l \in Loaders} : d.ver <= row.ver

\* The device shows the switches of the last PATCH, and fleet-svc's merges and
\* stale caches do not get in between: it is behind only while a PATCH is under
\* way, or when the last one was not published or overlapped another one, whose
\* document may arrive last (server.go patchDesired).
StaleDeviceRaced ==
    device.switch = row.switch \/ raced \/ \E p \in Patchers : patch[p] # Idle

\* INC-5-11, DesiredCacheTTL: once people stop editing, readers see the stored
\* document for good although a slow GET may fill the cache with an older one, a
\* temporary unlock that has run out is taken back, and the lock follows the
\* timetable although PATCH and ReconcileOnce write the same row.
Settled ==
    /\ cache = NoCache \/ cache.ver = row.ver
    /\ row.exp = "none" /\ row.lock = should
DesiredConverges == <>[]Settled
=============================================================================
