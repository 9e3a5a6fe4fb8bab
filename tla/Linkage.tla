------------------------------ MODULE Linkage ------------------------------
(***************************************************************************)
(* accessory-svc's linkage engine (internal/accessory) for one host and    *)
(* its paired purifier. Every replica consumes the stream of host and      *)
(* accessory messages, scans the off timers and reconciles; all it shares  *)
(* with the others is in Redis (dedupe keys, the timer's ZSET entry and    *)
(* meta, the vent window) and the devices. What a replica remembers        *)
(* (current, prevWorkState, lastJobStart) is lost when it dies.            *)
(*                                                                         *)
(* Handle is one step up to its decision, then one step per action, the    *)
(* ack with the last of them. pglock (module PgLock) keeps FireDueOff and  *)
(* ReconcileOnce to one replica at a time; here it is always the same one. *)
(* The delay of an off is any time. Linkage is enabled for the pairing and *)
(* AllowOff is set.                                                        *)
(***************************************************************************)
EXTENDS Naturals, Sequences, FiniteSets

CONSTANTS
    Procs,        \* replicas
    Leader,       \* the replica that wins the advisory locks
    MaxUpsets     \* bound: upsets of one behaviour, of any kind: the host starts
                  \* or ends work, SMOKE_HIGH, the purifier's own switch, a
                  \* crash, a failed call or query

ASSUME LinkageConstants == MaxUpsets \in Nat /\ Leader \in Procs

VARIABLES
    host,      \* the host's work_state, which its shadow follows
    upsets,    \* upsets so far
    msgs,      \* messages the consumer has not been acked for: [kind, n]
    seen,      \* linkage:seen keys of messages not yet acked
    timer,     \* the purifier has an entry in linkage:off
    meta,      \* linkage:offmeta: [st, since]
    vent,      \* linkage:safety key exists
    want,      \* desired state under way to the purifier, or none
    acc,       \* what the purifier does and reports: [power, src]
    mem,       \* mem[p]: [current, prev]
    h,         \* h[p]: the message p handles, its actions left and their meta
    fire,      \* FireDueOff: [pc, meta]
    rec        \* ReconcileOnce: the action decided on and its meta

shared == <<msgs, seen, timer, meta, vent, want>>
world == <<host, acc>>
vars == <<world, upsets, shared, mem, h, fire, rec>>

Upset == upsets < MaxUpsets /\ upsets' = upsets + 1

\* OffMeta. A blank one has lost its host, so that no JOB_START is found for it;
\* since: the replicas whose lastJobStart is not before ScheduledAt.
NoMeta == [st |-> "none", since |-> {}]
Blank == [st |-> "blank", since |-> {}]
Scheduled == [st |-> "set", since |-> {}]

\* A replica that remembers no target acts like one that remembers off.
NoMem == [current |-> "off", prev |-> "unknown"]
NoHandle == [msg |-> [kind |-> "none", n |-> 0], todo |-> << >>, meta |-> NoMeta]
NoFire == [pc |-> "idle", meta |-> NoMeta]
NoRec == [act |-> "none", meta |-> NoMeta]

Init ==
    /\ upsets = 0
    /\ msgs = {} /\ seen = {}
    /\ timer = FALSE /\ meta = NoMeta /\ vent = FALSE /\ want = "none"
    /\ \/ host = "idle" /\ acc = [power |-> "off", src |-> "cloud"]
       \/ host = "work" /\ acc = [power |-> "on", src |-> "cloud"]
    /\ mem = [p \in Procs |-> NoMem]
    /\ h = [p \in Procs |-> NoHandle]
    /\ fire = NoFire /\ rec = NoRec

-----------------------------------------------------------------------------
(* The devices, the people and time.                                       *)

\* The host starts or ends work: an event and a telemetry frame, which QoS 0
\* may lose.
HostChanges ==
    LET to == IF host = "idle" THEN "work" ELSE "idle"
        evt == [kind |-> IF to = "work" THEN "JOB_START" ELSE "JOB_DONE", n |-> upsets]
        tele == [kind |-> IF to = "work" THEN "TELE_WORK" ELSE "TELE_IDLE", n |-> upsets]
    IN /\ Upset
       /\ host' = to
       /\ \E sent \in {{evt}, {evt, tele}} : msgs' = msgs \cup sent
       /\ UNCHANGED <<acc, seen, timer, meta, vent, want, mem, h, fire, rec>>

Smoke ==
    /\ Upset
    /\ msgs' = msgs \cup {[kind |-> "SMOKE", n |-> upsets]}
    /\ UNCHANGED <<host, acc, seen, timer, meta, vent, want, mem, h, fire, rec>>

UserToggles ==
    /\ Upset
    /\ acc' = [power |-> IF acc.power = "off" THEN "on" ELSE "off", src |-> "local"]
    /\ UNCHANGED <<host, shared, mem, h, fire, rec>>

DeviceApplies ==
    /\ want # "none"
    /\ acc' = [power |-> want, src |-> "cloud"]
    /\ want' = "none"
    /\ UNCHANGED <<host, upsets, msgs, seen, timer, meta, vent, mem, h, fire, rec>>

VentExpires ==
    /\ vent /\ vent' = FALSE
    /\ UNCHANGED <<world, upsets, msgs, seen, timer, meta, want, mem, h, fire, rec>>

-----------------------------------------------------------------------------
(* Handle, up to the decision.                                             *)

Held == {h[p].msg : p \in Procs}

\* The consumer hands out the oldest message that no replica is busy with.
Delivered(p, m) ==
    /\ h[p] = NoHandle
    /\ m \in msgs \ Held /\ \A k \in msgs \ Held : m.n <= k.n

IsTele(m) == m.kind \in {"TELE_WORK", "TELE_IDLE"}
WorkState(m) == IF m.kind = "TELE_WORK" THEN "work" ELSE "idle"

\* rules.go. The snapshot taken for p: its cached target, the shadow in place of
\* an unknown previous work_state, the vent window.
StartActions(p) ==
    LET level == IF vent THEN "max" ELSE "on"
    IN IF mem[p].current = level THEN <<"cancel">> ELSE <<"cancel", level>>
EndActions == <<"schedule">>
VentActions(p) ==
    IF mem[p].current = "max" THEN <<"cancel", "vent">> ELSE <<"cancel", "vent", "max">>

Prev(p) == IF mem[p].prev = "unknown" THEN host ELSE mem[p].prev

\* Decide. The debounce of a telemetry frame within JobStartDebounce of a
\* JOB_START has the effect of a stale frame, see HandleDropped.
Decide(p, m) ==
    CASE m.kind = "SMOKE" -> VentActions(p)
      [] m.kind = "JOB_START" -> StartActions(p)
      [] m.kind = "JOB_DONE" -> EndActions
      [] IsTele(m) /\ Prev(p) = WorkState(m) -> << >>
      [] m.kind = "TELE_WORK" /\ Prev(p) # "work" -> StartActions(p)
      [] m.kind = "TELE_IDLE" /\ Prev(p) # "idle" -> EndActions

\* A JOB_START handled by p is not before any ScheduledAt so far.
WithStart(p, mt) == IF mt.st = "set" THEN [mt EXCEPT !.since = @ \cup {p}] ELSE mt

\* Effect of p's JOB_START on every off meta about: stored, held by a FireOff,
\* or about to be stored by a handler or reconciler.
NoteStart(p, hh) ==
    /\ meta' = WithStart(p, meta)
    /\ fire' = [fire EXCEPT !.meta = WithStart(p, @)]
    /\ rec' = [rec EXCEPT !.meta = WithStart(p, @)]
    /\ h' = [q \in Procs |-> IF q = p THEN hh ELSE [h[q] EXCEPT !.meta = WithStart(p, @)]]

\* The message is acked; its dedupe key outlives it.
Ack(m) == msgs' = msgs \ {m} /\ seen' = seen \ {m}

\* Steps 1 and 2: the pairing is found, and alarm_context written for SMOKE_HIGH
\* (a failed INSERT is a nak, that is, the message stays). A failed pairing
\* lookup passes for "no pairing" and the message is acked.
LookupErr(p, m) ==
    /\ Delivered(p, m) /\ Upset
    /\ Ack(m)
    /\ mem' = IF IsTele(m) THEN [mem EXCEPT ![p].prev = WorkState(m)] ELSE mem
    /\ UNCHANGED <<world, timer, meta, vent, want, h, fire, rec>>

\* Step 3: a message older than MaxEventAge, as any may have become, or an event
\* whose key another delivery took, is acked.
HandleDropped(p, m) ==
    /\ Delivered(p, m)
    /\ Ack(m)
    /\ mem' = IF IsTele(m) THEN [mem EXCEPT ![p].prev = WorkState(m)] ELSE mem
    /\ UNCHANGED <<world, upsets, timer, meta, vent, want, h, fire, rec>>

\* Step 4. Without actions the message is acked.
HandleDecided(p, m) ==
    /\ Delivered(p, m)
    /\ IsTele(m) \/ m \notin seen
    /\ mem' = [mem EXCEPT ![p].prev = IF IsTele(m) THEN WorkState(m) ELSE Prev(p)]
    /\ LET todo == Decide(p, m)
           hh == IF todo = << >> THEN NoHandle
                 ELSE [msg |-> m, todo |-> todo, meta |-> IF todo = EndActions THEN Scheduled ELSE NoMeta]
       IN /\ IF todo = << >> THEN Ack(m)
             ELSE msgs' = msgs /\ seen' = IF IsTele(m) THEN seen ELSE seen \cup {m}
          /\ IF m.kind = "JOB_START" THEN NoteStart(p, hh)
             ELSE h' = [h EXCEPT ![p] = hh] /\ UNCHANGED <<meta, fire, rec>>
    /\ UNCHANGED <<world, upsets, timer, vent, want>>

-----------------------------------------------------------------------------
(* Apply.                                                                  *)

Desired == {"off", "on", "max"}

\* SetDesired succeeded: the target is on its way and remembered.
SetDesired(p, level) ==
    /\ want' = level
    /\ mem' = [mem EXCEPT ![p].current = level]

\* ScheduleOff: the ZSET entry and its meta in one MULTI.
ScheduleOff(mt) == timer' = TRUE /\ meta' = mt

\* CancelOff: ZREM, then DEL of the meta.
CancelOff == timer' = FALSE /\ meta' = NoMeta

\* The safety key, for the length of the vent window.
OpenVent == vent' = TRUE

\* One action takes effect.
Apply(p, act, mt) ==
    \/ /\ act \in Desired
       /\ SetDesired(p, act) /\ UNCHANGED <<timer, meta, vent, fire>>
    \/ act = "schedule" /\ ScheduleOff(mt) /\ UNCHANGED <<want, mem, vent, fire>>
    \/ act = "cancel" /\ CancelOff /\ UNCHANGED <<want, mem, vent, fire>>
    \/ act = "vent" /\ OpenVent /\ UNCHANGED <<want, mem, timer, meta, fire>>

\* A failed action is logged and the next one tried; a target whose answer was
\* lost is on its way all the same.
ApplyErr(act) ==
    /\ Upset
    /\ want' \in {want} \cup ({act} \cap Desired)
    /\ UNCHANGED <<timer, meta, vent, mem, fire>>

HandleApply(p) ==
    LET m == h[p].msg  rest == Tail(h[p].todo) IN
    /\ h[p] # NoHandle
    /\ \/ Apply(p, Head(h[p].todo), h[p].meta) /\ UNCHANGED upsets
       \/ ApplyErr(Head(h[p].todo))
    /\ h' = [h EXCEPT ![p] = IF rest = << >> THEN NoHandle ELSE [@ EXCEPT !.todo = rest]]
    /\ IF rest = << >> THEN Ack(m) ELSE UNCHANGED <<msgs, seen>>
    /\ UNCHANGED <<world, rec>>

-----------------------------------------------------------------------------
(* FireDueOff.                                                             *)

\* PopDue: ZRANGEBYSCORE, and ZREM to claim what it found.
PopDue ==
    /\ fire = NoFire /\ timer
    /\ timer' = FALSE
    /\ fire' = [NoFire EXCEPT !.pc = "read"]
    /\ UNCHANGED <<world, upsets, msgs, seen, meta, vent, want, mem, h, rec>>

\* FireOff: GET and DEL of the meta; a missing one is taken for a blank one. A
\* job started since drops the off.
FireRead ==
    LET mt == IF meta.st = "none" THEN Blank ELSE meta IN
    /\ fire.pc = "read"
    /\ fire' = IF Leader \in mt.since THEN NoFire ELSE [fire EXCEPT !.pc = "ttl", !.meta = mt]
    /\ meta' = NoMeta
    /\ UNCHANGED <<world, upsets, msgs, seen, timer, vent, want, mem, h, rec>>

\* The vent window is open: put off to its end. A TTL that fails is no window.
FireTTL ==
    /\ fire.pc = "ttl"
    /\ \/ /\ ~vent
          /\ fire' = [fire EXCEPT !.pc = "send"]
          /\ UNCHANGED <<timer, meta, upsets>>
       \/ /\ vent
          /\ ScheduleOff(fire.meta)
          /\ fire' = NoFire
          /\ UNCHANGED upsets
       \/ /\ vent /\ Upset
          /\ fire' = [fire EXCEPT !.pc = "send"]
          /\ UNCHANGED <<timer, meta>>
    /\ UNCHANGED <<world, msgs, seen, vent, want, mem, h, rec>>

\* A failed request is put off by OffRetryWait.
FireSend ==
    /\ fire.pc = "send"
    /\ \/ SetDesired(Leader, "off") /\ UNCHANGED <<timer, meta, upsets>>
       \/ ScheduleOff(fire.meta) /\ Upset /\ want' \in {want, "off"} /\ UNCHANGED mem
    /\ fire' = NoFire
    /\ UNCHANGED <<world, msgs, seen, vent, h, rec>>

-----------------------------------------------------------------------------
(* ReconcileOnce.                                                          *)

OffWhileWorkingCached == host = "work" /\ mem[Leader].current = "off"

\* ReconcileDecide, on the shadows of both devices and the timer.
OffWhileWorking == host = "work" /\ acc.power = "off"
LongOn == host = "idle" /\ acc.power # "off" /\ acc.src = "cloud" /\ ~timer

ReconcileRead ==
    /\ rec = NoRec
    /\ \/ OffWhileWorking /\ rec' = [act |-> "on", meta |-> NoMeta]
       \/ LongOn /\ rec' = [act |-> "schedule", meta |-> Scheduled]
    /\ UNCHANGED <<world, upsets, shared, mem, h, fire>>

ReconcileApply ==
    /\ rec # NoRec
    /\ \/ Apply(Leader, rec.act, rec.meta) /\ UNCHANGED upsets
       \/ ApplyErr(rec.act)
    /\ rec' = NoRec
    /\ UNCHANGED <<world, msgs, seen, h>>

-----------------------------------------------------------------------------
\* The replica dies: its memory is gone, and with it its lastJobStart; the
\* message it held is delivered again.
Crash(p) ==
    LET without(mt) == [mt EXCEPT !.since = @ \ {p}]
        left(job, none) == IF p = Leader THEN none ELSE [job EXCEPT !.meta = without(@)]
    IN /\ Upset
       /\ mem' = [mem EXCEPT ![p] = NoMem]
       /\ h' = [q \in Procs |-> IF q = p THEN NoHandle ELSE [h[q] EXCEPT !.meta = without(@)]]
       /\ fire' = left(fire, NoFire) /\ rec' = left(rec, NoRec)
       /\ meta' = without(meta)
       /\ UNCHANGED <<world, msgs, seen, timer, vent, want>>

Firing == FireRead \/ FireTTL \/ FireSend
Receive(p, m) == HandleDropped(p, m) \/ HandleDecided(p, m)

Next ==
    \/ HostChanges \/ Smoke \/ UserToggles \/ DeviceApplies \/ VentExpires
    \/ PopDue \/ Firing \/ ReconcileRead \/ ReconcileApply
    \/ \E p \in Procs : \/ HandleApply(p) \/ Crash(p)
                        \/ \E m \in msgs : Receive(p, m) \/ LookupErr(p, m)

Spec == Init /\ [][Next]_vars

\* The stream is consumed, a replica that took something up goes on with it,
\* and the tickers of some replica keep running.
FairSpec ==
    /\ Spec
    /\ WF_vars(DeviceApplies) /\ WF_vars(VentExpires)
    /\ WF_vars(\E p \in Procs, m \in msgs : Receive(p, m))
    /\ \A p \in Procs : WF_vars(HandleApply(p))
    /\ WF_vars(PopDue) /\ WF_vars(Firing)
    /\ WF_vars(ReconcileRead) /\ WF_vars(ReconcileApply)

-----------------------------------------------------------------------------
(* Properties.                                                             *)

Metas == [st : {"none", "blank", "set"}, since : SUBSET Procs]
Messages == [kind : {"JOB_START", "JOB_DONE", "TELE_WORK", "TELE_IDLE", "SMOKE"}, n : 0 .. MaxUpsets - 1]

\* Types; only handlers that hold a message are busy.
TypeOK ==
    /\ host \in {"idle", "work"} /\ vent \in BOOLEAN
    /\ timer \in BOOLEAN /\ meta \in Metas
    /\ want \in Desired \cup {"none"} /\ acc \in [power : Desired, src : {"cloud", "local"}]
    /\ msgs \subseteq Messages /\ seen \subseteq msgs
    /\ mem \in [Procs -> [current : Desired, prev : {"idle", "work", "unknown"}]]
    /\ \A p \in Procs : h[p] = NoHandle \/ (h[p].msg \in msgs /\ h[p].todo # << >>)
    /\ fire \in [pc : {"idle", "read", "ttl", "send"}, meta : Metas]
    /\ rec \in [act : {"none", "on", "schedule"}, meta : Metas]

\* INC-2-03, INC-2-04: whatever events were lost, stale, repeated or out of order,
\* whatever a replica forgot, and whichever off was sent too late, the purifier
\* ends up running while the host works, and off once it is idle unless a
\* person switched it on (Handle, FireOff, ReconcileOnce).
LinkageConverges ==
    <>[](IF host = "work" THEN acc.power # "off" ELSE acc.power = "off" \/ acc.src = "local")
=============================================================================
