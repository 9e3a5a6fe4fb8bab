-------------------------------- MODULE Reco --------------------------------
(***************************************************************************)
(* reco-job (internal/reco): the daily batch that turns marks on jobs into *)
(* recommended parameters, and takes recommendations back whose power is   *)
(* too high or whose jobs raise too many safety events.                    *)
(*                                                                         *)
(* A round is not behind pglock and reads marks, user parameters, official *)
(* profile, safety events and jobs in separate statements, so rounds of    *)
(* two processes and the operators' approvals interleave. One product,     *)
(* module and material; a recommendation stands for its params_hash.       *)
(* Ratios are fractions; the distribution of correctionPass is only        *)
(* logged and is left out. User parameters are param-svc's (PutUserParam). *)
(***************************************************************************)
EXTENDS Naturals, FiniteSets, SequencesExt

CONSTANTS
    Rounds,        \* reco-job processes
    SNs, Recos,
    Power,         \* Power[r]
    Official,      \* powers the official profile may have, 0 without one
    MinSamples, MinDistinctSN, MaxPerDeviceDay, GoodPct, TopN, TopPct,  \* Rules
    SafetyMinAbs,
    MaxMoves,      \* bound: marks, days, jobs and writes of users and operators
    MaxFaults      \* bound: unreadable dimensions, failed statements

VARIABLES
    marks,     \* job_record joined with job_feedback, in the order of created_at
    day,
    uparam,    \* the user_param row: its version and the hash of its params
    official,  \* power of the newest effective official profile
    jobs,      \* jobs[x]: [n, hits] in the window; x a recommendation or "base"
    status,    \* param_recommendation.status, "absent" without a row
    rnd,       \* rnd[p]: locals of RunOnce
    condemned, \* history: recommendations a round has judged and written removed
    moves, faults

RecoConstants ==
    /\ IsFiniteSet(SNs)
    /\ {MinSamples, MinDistinctSN, MaxPerDeviceDay, GoodPct, TopN, TopPct} \subseteq Nat

vars == <<marks, day, uparam, official, jobs, status, rnd, condemned, moves, faults>>
NoHash == "none"
Idle == [pc |-> "idle", todo |-> {}, params |-> FALSE, events |-> <<>>]

Init ==
    /\ marks = <<>> /\ day = 1
    /\ uparam = [ver |-> 0, hash |-> NoHash]
    /\ official \in Official
    /\ jobs = [x \in Recos \cup {"base"} |-> [n |-> 0, hits |-> 0]]
    /\ status = [r \in Recos |-> "absent"]
    /\ rnd = [p \in Rounds |-> Idle]
    /\ condemned = {} /\ moves = 0 /\ faults = 0

Move == moves < MaxMoves /\ moves' = moves + 1
Fault == faults < MaxFaults /\ faults' = faults + 1

-----------------------------------------------------------------------------
(* aggregate.go, safety.go: the pure rules                                 *)

\* Mutant: the row read last is kept.
KeepLastRead(latest, row) ==
    {x \in latest : x.sn # row.sn \/ x.day # row.day} \cup {row}

\* The last row of a device and day, one row after the other
Keep(latest, row) ==
    LET cur == {x \in latest : x.sn = row.sn /\ x.day = row.day}
    IN IF \A x \in cur : row.at > x.at THEN (latest \ cur) \cup {row} ELSE latest
Latest(rows) == FoldLeft(Keep, {}, rows)

DeviceFlood(rows) ==
    MaxPerDeviceDay > 0 /\ \E i \in DOMAIN rows :
        Cardinality({j \in DOMAIN rows : rows[j].sn = rows[i].sn /\ rows[j].day = rows[i].day}) > MaxPerDeviceDay

\* Samples of the TopN devices that have most
TopShare(latest) ==
    LET of(S) == Cardinality({x \in latest : x.sn \in S})
        sns == {x.sn : x \in latest}
    IN Max({of(S) : S \in {T \in SUBSET sns : Cardinality(T) <= TopN}})

\* Aggregate, for the rows of one group
Aggregate(rows) ==
    LET latest == Latest(rows)
        samples == Cardinality(latest)
    IN /\ ~DeviceFlood(rows)
       /\ samples >= MinSamples
       /\ Cardinality({x.sn : x \in latest}) >= MinDistinctSN
       /\ TopShare(latest) * 100 <= TopPct * samples
       /\ Cardinality({x \in latest : x.good}) * 100 >= GoodPct * samples

WithinPowerCap(power, off) == off = 0 \/ power * 100 <= off * 110

\* SafetyUnpublish of the two rates; a rate of no jobs is 0
SafetyUnpublish(reco, base) ==
    /\ reco.hits >= SafetyMinAbs
    /\ reco.n > 0
    /\ IF base.n = 0 THEN reco.hits > 0 ELSE reco.hits * base.n > 2 * base.hits * reco.n

-----------------------------------------------------------------------------
(* The world: users mark jobs, jobs run, operators publish and approve     *)

NextDay == day' = day + 1 /\ UNCHANGED <<marks, uparam, official, jobs, status>>

Mark(s, r) ==
    /\ \E good \in BOOLEAN :
         marks' = Append(marks, [r |-> r, sn |-> s, day |-> day, good |-> good, at |-> Len(marks)])
    /\ UNCHANGED <<day, uparam, official, jobs, status>>

\* PutUserParam with the version the writer has seen: INSERT of version 1,
\* or UPDATE WHERE version = ifMatch; a conflict changes nothing
PutUserParam(ifMatch, hash) ==
    /\ ifMatch = uparam.ver /\ uparam' = [ver |-> uparam.ver + 1, hash |-> hash]
    /\ UNCHANGED <<marks, day, official, jobs, status>>

ReleaseOfficial ==
    /\ official' \in Official \ {official}
    /\ UNCHANGED <<marks, day, uparam, jobs, status>>

RunJob(x, hit) ==
    /\ jobs' = [jobs EXCEPT ![x] = [n |-> @.n + 1, hits |-> @.hits + hit]]
    /\ UNCHANGED <<marks, day, uparam, official, status>>

\* The operators approve a candidate; no code here does it.
Approve(r) ==
    /\ status[r] = "candidate" /\ status' = [status EXCEPT ![r] = "published"]
    /\ UNCHANGED <<marks, day, uparam, official, jobs>>

People ==
    /\ Move /\ UNCHANGED <<rnd, condemned, faults>>
    /\ \/ NextDay \/ ReleaseOfficial
       \/ \E r \in Recos : Approve(r) \/ \E s \in SNs : Mark(s, r)
       \/ \E v \in 0 .. MaxMoves, h \in Recos \cup {NoHash} : PutUserParam(v, h)
       \/ \E x \in DOMAIN jobs, hit \in {0, 1} : RunJob(x, hit)

-----------------------------------------------------------------------------
(* RunOnce                                                                 *)

Goes(p, f) == rnd' = [rnd EXCEPT ![p] = f]
At(p, pc) == rnd[p].pc = pc
World == <<marks, day, uparam, official, jobs, moves>>

\* loadFeedbackRows: the marks of a recommendation, without those of devices
\* whose dimensions cannot be read, which go to a group that is excluded. There
\* is no ORDER BY: the rows may come in any order (AggregateSound).
Selected(r, unknown) == {i \in DOMAIN marks : marks[i].r = r /\ marks[i].sn \notin unknown}
InOrder(rows) == [k \in 1 .. Cardinality(rows) |-> CHOOSE i \in rows : Cardinality({j \in rows : j <= i}) = k]
RowsOf(order) == [k \in DOMAIN order |-> marks[order[k]]]

Load(p) ==
    /\ At(p, "idle")
    /\ \E unknown \in {{}} \cup {{s} : s \in SNs} :
         LET todo == {r \in Recos : Aggregate(RowsOf(InOrder(Selected(r, unknown))))}
         IN /\ IF unknown = {} THEN UNCHANGED faults ELSE Fault
            /\ Goes(p, [Idle EXCEPT !.pc = IF todo = {} THEN "safety" ELSE "params", !.todo = todo])
    /\ UNCHANGED <<World, status, condemned>>

Current(p) == CHOOSE r \in rnd[p].todo : TRUE
After(p) == IF rnd[p].todo = {Current(p)} THEN [Idle EXCEPT !.pc = "safety"]
            ELSE [rnd[p] EXCEPT !.pc = "params", !.todo = @ \ {Current(p)}]

\* lookupParams: without a user parameter of the hash nothing is written
LookupParams(p) ==
    /\ At(p, "params")
    /\ Goes(p, IF uparam.hash = Current(p) THEN [rnd[p] EXCEPT !.pc = "cap"] ELSE After(p))
    /\ UNCHANGED <<World, status, condemned, faults>>

\* officialPower
OfficialPower(p) ==
    /\ At(p, "cap")
    /\ Goes(p, [rnd[p] EXCEPT !.pc = "upsert", !.params = WithinPowerCap(Power[Current(p)], official)])
    /\ UNCHANGED <<World, status, condemned, faults>>

\* Mutant: the last write wins.
UpsertedBlind(old, new) == new

\* upsertRecommendation: removed wins, and published or removed stay
Upserted(old, new) == IF new = "removed" THEN "removed"
                      ELSE IF old \in {"published", "removed"} THEN old ELSE new
Upsert(p) ==
    LET new == IF rnd[p].params THEN "candidate" ELSE "removed"
    IN /\ At(p, "upsert")
       /\ status' = [status EXCEPT ![Current(p)] = Upserted(@, new)]
       /\ condemned' = IF new = "removed" THEN condemned \cup {Current(p)} ELSE condemned
       /\ Goes(p, After(p))
       /\ UNCHANGED <<World, faults>>

\* safetyPass: the events, the active recommendations, then the jobs of each;
\* hits are counted among the events read at the start
SafetyEvents(p) ==
    /\ At(p, "safety")
    /\ LET active == {r \in Recos : status[r] \in {"candidate", "published"}}
       IN Goes(p, IF active = {} THEN Idle
                  ELSE [Idle EXCEPT !.pc = "check", !.todo = active,
                          !.events = [x \in DOMAIN jobs |-> jobs[x].hits]])
    /\ UNCHANGED <<World, status, condemned, faults>>

SafetyCheck(p) ==
    LET r == Current(p)
        seen(x) == [n |-> jobs[x].n, hits |-> rnd[p].events[x]]
        unsafe == SafetyUnpublish(seen(r), seen("base"))
    IN /\ At(p, "check")
       /\ status' = [status EXCEPT ![r] = IF unsafe THEN "removed" ELSE @]
       /\ condemned' = IF unsafe THEN condemned \cup {r} ELSE condemned
       /\ Goes(p, IF rnd[p].todo = {r} THEN Idle ELSE [rnd[p] EXCEPT !.todo = @ \ {r}])
       /\ UNCHANGED <<World, faults>>

\* An error ends the round, or in the safety pass is only logged.
RoundFails(p) ==
    /\ ~At(p, "idle") /\ Fault /\ Goes(p, Idle)
    /\ UNCHANGED <<World, status, condemned>>

RoundStep(p) == Load(p) \/ LookupParams(p) \/ OfficialPower(p) \/ Upsert(p) \/ SafetyEvents(p) \/ SafetyCheck(p)

Next ==
    \/ People
    \/ \E p \in Rounds : RoundStep(p) \/ RoundFails(p)

Spec == Init /\ [][Next]_vars

-----------------------------------------------------------------------------
(* Properties                                                              *)

TypeOK ==
    /\ Len(marks) <= moves /\ moves <= MaxMoves /\ official \in Official
    /\ status \in [Recos -> {"absent", "candidate", "published", "removed"}]
    /\ \A p \in Rounds : rnd[p].todo \subseteq Recos
    /\ condemned \subseteq Recos /\ faults \in 0 .. MaxFaults

(* The last word of each device on each day: what Aggregate collects row   *)
(* by row.                                                                 *)
LastWords(rows) ==
    {i \in rows : \A j \in rows :
        marks[j].sn = marks[i].sn /\ marks[j].day = marks[i].day => marks[j].at <= marks[i].at}

(* In whatever order the rows are read and whichever devices are left out, *)
(* a recommendation is taken up exactly when enough devices had the last   *)
(* word on some day, enough of these words were good, no TopN devices have *)
(* more than their share of them and, if there is a limit, no device       *)
(* marked too often on a day: marks a user changes or repeats count once   *)
(* (Aggregate).                                                            *)
AggregateSound ==
    \A r \in Recos, unknown \in SUBSET SNs :
        LET rows == Selected(r, unknown)
            words == LastWords(rows)
            by(S) == {i \in words : marks[i].sn \in S}
            sound ==
                /\ Cardinality(words) >= MinSamples
                /\ Cardinality({s \in SNs : by({s}) # {}}) >= MinDistinctSN
                /\ Cardinality({i \in words : marks[i].good}) * 100 >= GoodPct * Cardinality(words)
                /\ \A S \in SUBSET SNs : Cardinality(S) <= TopN =>
                     Cardinality(by(S)) * 100 <= TopPct * Cardinality(words)
                /\ MaxPerDeviceDay > 0 => \A s \in SNs, d \in 1 .. day :
                     Cardinality({i \in rows : marks[i].sn = s /\ marks[i].day = d}) <= MaxPerDeviceDay
        IN \A order \in SetToSeqs(rows) : Aggregate(RowsOf(order)) <=> sound

(* What a round has judged too strong or unsafe never comes back, although *)
(* another round that started earlier, or an approval, writes afterwards   *)
(* (upsertRecommendation, safetyPass).                                     *)
CondemnedStaysRemoved == \A r \in condemned : status[r] = "removed"
=============================================================================
