------------------------------- MODULE Health -------------------------------
(***************************************************************************)
(* health-svc (internal/health): the hourly batch that scores the laser    *)
(* module of every device from its TDengine hour buckets and reminds the   *)
(* user when the score crosses 80, 50 or 20.                               *)
(*                                                                         *)
(* A round runs behind pglock, behind -once and behind POST                *)
(* /internal/health/run, and runMu serialises it in one process only, so   *)
(* rounds of several replicas interleave: a round reads the buckets, reads *)
(* and scores each device, gives up when too many inputs are missing, and  *)
(* then decides, writes and records device by device. Hours are whole, all *)
(* shares weigh 1, one over-temperature event costs OverPenalty points.    *)
(* Cfg rows, SKUs and end-of-life dates are left out.                      *)
(***************************************************************************)
EXTENDS Integers, Sequences, FiniteSets, FiniteSetsExt

CONSTANTS
    Replicas,
    NumDevices,    \* serial numbers in the order sort.Strings gives them
    Busy,          \* devices that work by themselves; the others only in upsets
    Models,        \* laser module models
    Rated,         \* rated_weighted_hours of every model
    OverPenalty,
    Cooldown,      \* hours between two reminders of a device
    FuseNum, FuseDen,  \* IOT_HEALTH_FUSE_RATIO
    MaxNow,        \* bound: hours
    MaxUpsets,     \* bound: changes of a device other than an hour's work
    MaxOverlaps,   \* bound: rounds begun while another replica's is running
    MaxFaults      \* bound: aborted rounds and failed writes

HealthConstants ==
    /\ {NumDevices, Rated, FuseDen, MaxNow} \subseteq Nat \ {0}
    /\ {OverPenalty, Cooldown, FuseNum, MaxUpsets, MaxOverlaps, MaxFaults} \subseteq Nat
    /\ Busy \subseteq 1 .. NumDevices
    /\ "" \notin Models

Devices == 1 .. NumDevices
Levels == {80, 50, 20}
NoHours == -1                       \* a bucket whose laser_hours is NULL
NoBucket == -2
Absent == -1                        \* no laser_hours recorded, no health row

VARIABLES
    now,       \* the current hour
    hours,     \* hours[d]: the laser hour counter of the module in device d
    module,    \* module[d]: its model
    tele,      \* tele[d][t]: the bucket of hour t, of the frames TDengine has
    over,      \* OVER_TEMP events in the window
    shadow,    \* reported state in Redis: model, working, optout, readable
    row,       \* consumable_health(d, 'module').health
    explain,   \* health_explain(d, 'module')
    reminders, \* health_reminder, in insertion order
    rnd,       \* rnd[r]: locals of RunOnce on replica r
    rewound,   \* history: devices that an outdated round has overwritten
    worked,    \* history: worked[d][t]: hours device d worked up to bucket t
    upsets, overlaps, faults

world == <<now, hours, module, tele, over, shadow, worked, upsets>>
tables == <<row, explain, reminders>>
vars == <<world, tables, rnd, rewound, overlaps, faults>>

(* A missing row of health_explain reads as this one. since and done are   *)
(* history fields: the hours worked when the charge of this module began   *)
(* and when the counter stood at lastHours. So are two fields of a round:  *)
(* the hours worked when it read the buckets (wrk), and the devices that   *)
(* another replica wrote since it read them (dirty).                       *)
NoExplain == [lastTs |-> 0, lastHours |-> Absent, used |-> 0, model |-> "", levels |-> {},
              life |-> 0, since |-> 0, done |-> 0]
Idle == [pc |-> "idle", at |-> 0, seen |-> <<>>, wrk |-> <<>>, over |-> <<>>, todo |-> {}, row |-> Absent,
         writes |-> <<>>, skipped |-> 0, dirty |-> {}, dec |-> [action |-> "none", level |-> 0]]

Init ==
    /\ now = 1
    /\ hours = [d \in Devices |-> 0]
    /\ module \in [Devices -> {CHOOSE m \in Models : TRUE}]
    /\ tele = [d \in Devices |-> [t \in 1 .. MaxNow |-> NoBucket]]
    /\ over = [d \in Devices |-> 0]
    /\ shadow = [d \in Devices |-> [model |-> module[d], working |-> FALSE, optout |-> FALSE, ok |-> TRUE]]
    /\ row = [d \in Devices |-> Absent]
    /\ explain = [d \in Devices |-> NoExplain]
    /\ reminders = <<>>
    /\ rnd = [r \in Replicas |-> Idle]
    /\ rewound = {}
    /\ worked = [d \in Devices |-> [t \in 0 .. MaxNow |-> 0]]
    /\ upsets = 0 /\ overlaps = 0 /\ faults = 0

-----------------------------------------------------------------------------
(* model.go: the pure rules                                                *)

\* WeightedHours: at most one hour per bucket, nothing when the counter fell
Charged(from, to) == IF to < from THEN 0 ELSE IF to - from > 1 THEN 1 ELSE to - from

\* Health
Score(used, overtemp) ==
    LET penalty == IF OverPenalty * overtemp > 10 THEN 10 ELSE OverPenalty * overtemp
        score == 100 - (100 * used) \div Rated - penalty
    IN IF score < 0 THEN 0 ELSE score

\* Monotonic
Kept(prev, score, swapped) == IF swapped \/ prev = Absent \/ score <= prev THEN score ELSE prev

\* DetectSwap: hs[1] is the counter of the round before, the rest are new
DetectSwap(prevModel, model, hs) ==
    \/ prevModel # "" /\ model # "" /\ prevModel # model
    \/ /\ hs[1] > 0
       /\ \E i \in 2 .. Len(hs) - 1 : hs[i] * 20 < hs[1] /\ hs[i + 1] * 20 < hs[1]

\* DecideReminder: of several levels crossed at once the lowest
Crossed(prev, health, levels) == {l \in Levels \ levels : prev > l /\ l >= health}

\* Mutant: no cooldown.
DecideReminderNoCooldown(prev, health, levels, lastSent, u, at) ==
    LET crossed == Crossed(prev, health, levels)
    IN IF crossed = {} THEN [action |-> "none", level |-> 0]
       ELSE [level |-> Min(crossed),
             action |-> IF u.optout THEN "optout" ELSE IF u.working THEN "deferred" ELSE "send"]

DecideReminder(prev, health, levels, lastSent, u, at) ==
    LET crossed == Crossed(prev, health, levels)
    IN IF crossed = {} THEN [action |-> "none", level |-> 0]
       ELSE [level |-> Min(crossed),
             action |-> IF u.optout THEN "optout"
                        ELSE IF lastSent # Absent /\ at - lastSent < Cooldown THEN "cooldown"
                        ELSE IF u.working THEN "deferred" ELSE "send"]

\* ShouldFuseBatch
ShouldFuseBatch(skipped, total) == skipped > 0 /\ skipped * FuseDen > FuseNum * total

\* CooldownViolations: neighbours of one device in the order of sent_at
Sent(d) == {i \in DOMAIN reminders : reminders[i].d = d /\ reminders[i].action = "send"}
CooldownViolations ==
    {v \in (DOMAIN reminders) \X (DOMAIN reminders) :
        LET i == v[1]
            j == v[2]
        IN /\ i # j /\ reminders[i].d = reminders[j].d
           /\ {i, j} \subseteq Sent(reminders[i].d)
           /\ reminders[j].at - reminders[i].at \in 0 .. Cooldown - 1
           /\ reminders[i].at = reminders[j].at => i < j
           /\ ~\E k \in Sent(reminders[i].d) :
                 reminders[i].at < reminders[k].at /\ reminders[k].at < reminders[j].at}

-----------------------------------------------------------------------------
(* The devices. A frame reaches the bucket of the hour it was sent in; the *)
(* bucket of the current hour may still grow after a round has read it.    *)

Frame(d, h) ==
    /\ tele' = [tele EXCEPT ![d][now] = IF h = NoHours /\ @ # NoBucket THEN @ ELSE h]
    /\ worked' = [worked EXCEPT ![d] = [t \in 0 .. MaxNow |->
                     IF t >= now /\ h > hours[d] THEN worked[d][now] + 1 ELSE worked[d][t]]]

Tick == now < MaxNow /\ now' = now + 1
        /\ UNCHANGED <<hours, module, tele, over, shadow, worked, upsets>>

\* The laser works at most one hour in an hour.
Work(d) ==
    /\ d \in Busy /\ worked[d][now] = worked[d][now - 1]
    /\ Frame(d, hours[d] + 1) /\ hours' = [hours EXCEPT ![d] = @ + 1]
    /\ UNCHANGED <<now, module, over, shadow, upsets>>

Upset ==
    /\ upsets < MaxUpsets /\ upsets' = upsets + 1 /\ UNCHANGED now
    /\ \E d \in Devices :
         \* a frame without laser_hours, or a frame of an idle device
         \/ /\ \E h \in {NoHours, hours[d]} : Frame(d, h)
            /\ UNCHANGED <<hours, module, over, shadow>>
         \* the user puts another module in, which the shadow learns later
         \/ /\ \E m \in Models : module' = [module EXCEPT ![d] = m]
            /\ hours[d] > 0 /\ hours' = [hours EXCEPT ![d] = 0]
            /\ UNCHANGED <<tele, over, shadow, worked>>
         \/ /\ over' = [over EXCEPT ![d] = 1 - @]
            /\ UNCHANGED <<hours, module, tele, shadow, worked>>
         \/ /\ shadow' \in {[shadow EXCEPT ![d].working = ~@], [shadow EXCEPT ![d].optout = ~@],
                            [shadow EXCEPT ![d].ok = ~@], [shadow EXCEPT ![d].model = ""]}
            /\ UNCHANGED <<hours, module, tele, over, worked>>

ReportModel(d) ==
    /\ shadow[d].model # module[d] /\ shadow' = [shadow EXCEPT ![d].model = module[d]]
    /\ UNCHANGED <<now, hours, module, tele, over, worked, upsets>>

World == /\ Tick \/ Upset \/ \E d \in Devices : Work(d) \/ ReportModel(d)
         /\ UNCHANGED <<tables, rnd, rewound, overlaps, faults>>

-----------------------------------------------------------------------------
(* scoreDevice                                                             *)

\* Mutant: every bucket of the window is new.
NewBucketsAll(e, b) == {t \in DOMAIN b : b[t] # NoBucket}

NewBuckets(e, b) == {t \in DOMAIN b : b[t] # NoBucket /\ t > e.lastTs}

\* Ordered values of the buckets that carry laser_hours
HoursOf(ts, b) ==
    LET v == {t \in ts : b[t] # NoHours}
    IN [i \in 1 .. Cardinality(v) |-> b[CHOOSE t \in v : Cardinality({u \in v : u <= t}) = i]]

Update(d, prevRow, e, b, w, overtemp, sh) ==
    LET new == NewBuckets(e, b)
        model == IF sh.model # "" THEN sh.model ELSE e.model
        read == HoursOf(new, b)
        swapped == DetectSwap(e.model, model, IF e.lastHours = Absent THEN read ELSE <<e.lastHours>> \o read)
        chain == IF e.lastHours = Absent \/ swapped THEN read ELSE <<e.lastHours>> \o read
        used == (IF swapped THEN 0 ELSE e.used)
                + MapThenSumSet(LAMBDA i : Charged(chain[i - 1], chain[i]), 2 .. Len(chain))
        prev == IF swapped THEN Absent ELSE prevRow
    IN CASE new = {} -> [kind |-> "unchanged"]
         [] new # {} /\ (~sh.ok \/ model = "" \/ read = <<>>) -> [kind |-> "skip"]
         [] OTHER ->
              [kind |-> "write", d |-> d, swapped |-> swapped,
               health |-> Kept(prev, Score(used, overtemp), swapped),
               prev |-> IF prev = Absent THEN 101 ELSE prev,
               working |-> sh.working, optout |-> sh.optout,
               explain |-> [lastTs |-> Max(new), lastHours |-> read[Len(read)], used |-> used,
                            model |-> model, levels |-> IF swapped THEN {} ELSE e.levels,
                            life |-> IF swapped THEN e.life + 1 ELSE e.life,
                            since |-> IF swapped THEN worked[d][e.lastTs] ELSE e.since,
                            done |-> w[Max({t \in new : b[t] # NoHours})]]]

-----------------------------------------------------------------------------
(* RunOnce                                                                 *)

Goes(r, f) == rnd' = [rnd EXCEPT ![r] = f]
Then(r) == IF Len(rnd[r].writes) = 1 THEN Idle
           ELSE [rnd[r] EXCEPT !.pc = "decide", !.writes = Tail(@), !.dec = Idle.dec]

\* Replica r writes device d: a round that has read d has read an older state
HasRead(q, d) == \/ rnd[q].pc = "score" /\ d = Min(rnd[q].todo)
                 \/ \E i \in DOMAIN rnd[q].writes : rnd[q].writes[i].d = d
Touches(r, d, f) == rnd' = [q \in Replicas |->
    IF q = r THEN f ELSE IF HasRead(q, d) THEN [rnd[q] EXCEPT !.dirty = @ \cup {d}] ELSE rnd[q]]

RoundStart(r, only) ==
    /\ rnd[r].pc = "idle"
    /\ IF \A q \in Replicas : rnd[q].pc = "idle" THEN UNCHANGED overlaps
       ELSE overlaps < MaxOverlaps /\ overlaps' = overlaps + 1
    /\ LET todo == {d \in only : \E t \in 1 .. MaxNow : tele[d][t] # NoBucket}
       IN todo # {} /\ Goes(r, [Idle EXCEPT !.pc = "row", !.at = now, !.seen = tele,
                                            !.wrk = worked, !.over = over, !.todo = todo])
    /\ UNCHANGED <<tables, rewound, faults>>

Round(r) == RoundStart(r, Devices) /\ UNCHANGED world

\* POST /internal/health/run?sn=...
PartialRound(r) ==
    /\ upsets < MaxUpsets /\ upsets' = upsets + 1
    /\ \E only \in (SUBSET Devices) \ {{}, Devices} : RoundStart(r, only)
    /\ UNCHANGED <<now, hours, module, tele, over, shadow, worked>>

\* HealthRow is one statement, Explain another
ReadRow(r) ==
    /\ rnd[r].pc = "row"
    /\ Goes(r, [rnd[r] EXCEPT !.pc = "score", !.row = row[Min(rnd[r].todo)]])
    /\ UNCHANGED <<world, tables, rewound, overlaps, faults>>

ScoreDevice(r) ==
    /\ rnd[r].pc = "score"
    /\ LET d == Min(rnd[r].todo)
           u == Update(d, rnd[r].row, explain[d], rnd[r].seen[d], rnd[r].wrk[d], rnd[r].over[d], shadow[d])
           f == [rnd[r] EXCEPT !.pc = "row", !.row = Absent, !.todo = @ \ {d},
                    !.writes = IF u.kind = "write" THEN Append(@, u) ELSE @,
                    !.skipped = IF u.kind = "skip" THEN @ + 1 ELSE @]
           dropped == f.writes = <<>> \/ ShouldFuseBatch(f.skipped, f.skipped + Len(f.writes))
       IN Goes(r, IF f.todo # {} THEN f ELSE IF dropped THEN Idle
                  ELSE [f EXCEPT !.pc = "decide", !.seen = <<>>, !.wrk = <<>>, !.over = <<>>, !.skipped = 0])
    /\ UNCHANGED <<world, tables, rewound, overlaps, faults>>

LastSentAt(d) == IF Sent(d) = {} THEN Absent ELSE Max({reminders[i].at : i \in Sent(d)})

CommitDecide(r) ==
    /\ rnd[r].pc = "decide"
    /\ LET u == Head(rnd[r].writes)
       IN Goes(r, [rnd[r] EXCEPT !.pc = "write",
                     !.dec = DecideReminder(u.prev, u.health, u.explain.levels, LastSentAt(u.d), u, rnd[r].at)])
    /\ UNCHANGED <<world, tables, rewound, overlaps, faults>>

\* WriteHealth: one transaction; the level is remembered before it is sent.
Written(r, f) ==
    LET u == Head(rnd[r].writes)
        dec == rnd[r].dec
    IN /\ row' = [row EXCEPT ![u.d] = u.health]
       /\ explain' = [explain EXCEPT ![u.d] = [u.explain EXCEPT !.levels =
                          IF dec.action = "send" THEN @ \cup {dec.level} ELSE @]]
       /\ rewound' = IF u.d \in rnd[r].dirty THEN rewound \cup {u.d} ELSE rewound
       /\ Touches(r, u.d, f) /\ UNCHANGED reminders

WriteHealth(r) ==
    /\ rnd[r].pc = "write"
    /\ Written(r, IF rnd[r].dec.action = "none" THEN Then(r) ELSE [rnd[r] EXCEPT !.pc = "insert"])
    /\ UNCHANGED <<world, overlaps, faults>>

\* InsertReminder, then publishReminder, whose failure is only logged
InsertReminder(r) ==
    /\ rnd[r].pc = "insert"
    /\ LET u == Head(rnd[r].writes)
       IN /\ reminders' = Append(reminders, [d |-> u.d, level |-> rnd[r].dec.level,
                action |-> rnd[r].dec.action, at |-> rnd[r].at, life |-> u.explain.life,
                blind |-> u.d \in rnd[r].dirty])
          /\ Touches(r, u.d, Then(r))
    /\ UNCHANGED <<world, row, explain, rewound, overlaps, faults>>

\* A failed statement leaves the device and goes on with the next one; the
\* transaction of a failed WriteHealth may be committed all the same.
StatementFails(r) ==
    /\ faults < MaxFaults /\ faults' = faults + 1
    /\ \/ rnd[r].pc = "write" /\ Written(r, Then(r))
       \/ /\ rnd[r].pc \in {"decide", "write", "insert"} /\ Goes(r, Then(r))
          /\ UNCHANGED <<tables, rewound>>
    /\ UNCHANGED <<world, overlaps>>

\* A crash, a lost lock, or an error while devices are scored
RoundAborts(r) ==
    /\ rnd[r].pc # "idle" /\ faults < MaxFaults /\ faults' = faults + 1
    /\ Goes(r, Idle) /\ UNCHANGED <<world, tables, rewound, overlaps>>

RoundStep(r) ==
    \/ Round(r) \/ ReadRow(r) \/ ScoreDevice(r)
    \/ CommitDecide(r) \/ WriteHealth(r) \/ InsertReminder(r)

Next == World \/ \E r \in Replicas : RoundStep(r) \/ PartialRound(r) \/ StatementFails(r) \/ RoundAborts(r)

Spec == Init /\ [][Next]_vars

-----------------------------------------------------------------------------
(* Properties                                                              *)

TypeOK ==
    /\ now \in 1 .. MaxNow /\ upsets \in 0 .. MaxUpsets /\ faults \in 0 .. MaxFaults
    /\ hours \in [Devices -> 0 .. MaxNow] /\ module \in [Devices -> Models]
    /\ tele \in [Devices -> [1 .. MaxNow -> NoBucket .. MaxNow]]
    /\ row \in [Devices -> Absent .. 100]
    /\ \A d \in Devices : explain[d].levels \subseteq Levels /\ explain[d].used \in 0 .. MaxNow
    /\ \A r \in Replicas : rnd[r].pc \in {"idle", "row", "score", "decide", "write", "insert"}
    /\ rewound \subseteq Devices

(* A module is never charged more hours than its device has worked since   *)
(* the module was first charged: buckets read twice, rounds that overlap,  *)
(* are retried or overwrite each other, and replaced modules never count   *)
(* an hour twice (last_bucket_ts and last_hours of health_explain).        *)
NeverOvercharged ==
    \A d \in Devices :
        explain[d].used <= worked[d][explain[d].lastTs] - explain[d].since

(* Two reminders of a device closer than the cooldown, or the same level   *)
(* twice for one module, come only from rounds of two replicas that        *)
(* overlapped on the device; one replica, however often its round is       *)
(* retried or aborted half-way, never reminds twice (DecideReminder,       *)
(* LastSentAt, levels_sent; what CooldownViolations reports).              *)
DuplicateNeedsOverlap ==
    /\ \A v \in CooldownViolations : reminders[Max({v[1], v[2]})].blind
    /\ \A i, j \in DOMAIN reminders :
         /\ i < j /\ {i, j} \subseteq Sent(reminders[j].d) /\ reminders[i].level = reminders[j].level
         /\ reminders[i].life = reminders[j].life
         => reminders[j].blind \/ reminders[j].d \in rewound
=============================================================================
