-------------------------------- MODULE OTA --------------------------------
(***************************************************************************)
(* ota-svc (internal/ota): staged roll-out of one firmware. Operators      *)
(* create and advance batches, dispatchers (one per replica, unlike the    *)
(* sweeper they are not behind pglock) publish the upgrade command to the  *)
(* devices of running batches, the progress consumer and the stale sweeper *)
(* move the device tasks and count terminal ones, and a batch whose        *)
(* failures exceed the threshold is fused.                                 *)
(*                                                                         *)
(* A transaction that locks what it reads is one step; statements outside  *)
(* of one are steps of their own. Time is abstracted to whether a task's   *)
(* updated_at is older than IOT_OTA_STALE_AFTER.                           *)
(***************************************************************************)
EXTENDS Naturals, FiniteSets

CONSTANTS
    Devices,
    LastStage,     \* number of stages; the last one is "100"
    Samplings,     \* ways the hash may spread the devices over the stages
    Admins,        \* concurrent operator requests
    Dispatchers,   \* replicas running RunDispatcher
    MaxBatches,    \* bound: rows of iot_global.ota_batch
    MaxTasks,      \* bound: rows of iot_shard.ota_device_task
    MaxRequests,   \* bound: create and advance requests of the operators
    MinSamples, MinAbsFail,
    FuseNum, FuseDen   \* fail_ratio_fuse as a fraction

ASSUME OTAConstants ==
    /\ LastStage \in Nat \ {0}
    /\ MaxBatches \in Nat /\ MaxTasks \in Nat /\ MaxRequests \in Nat
    /\ Samplings \subseteq [Devices -> 1 .. LastStage + 1]
    /\ {MinSamples, MinAbsFail, FuseNum, FuseDen} \subseteq Nat
    /\ IsFiniteSet(Devices)

Batches == 1 .. MaxBatches
Mid == {"notified", "downloading"}       \* StaleStatuses; verifying is as downloading
Terminal == {"success", "failed"}        \* rolled_back counts as failed

VARIABLES
    sampling,  \* the first stage that samples each device; LastStage + 1: no row
               \* in iot_shard.device. Never changes
    nb,        \* ids taken from the sequence of ota_batch so far: 1 .. nb
    batch,     \* iot_global.ota_batch
    task,      \* iot_shard.ota_device_task: task[b][d], "none" when there is no row
    old,       \* tasks <<b, d>> whose updated_at is older than the stale limit
    cmds,      \* history: upgrade commands published to down/{sn}/cmd
    adm,       \* adm[a]: locals of an operator's request
    reqs,      \* requests so far
    disp,      \* disp[p]: locals of DispatchOnce
    sweep,     \* the keys SweepStale has selected and not yet handled
    resumed,   \* history: batches an operator has resumed over the threshold
    uncounted  \* history: tasks that ended while their batch did not count

vars == <<sampling, nb, batch, task, old, cmds, adm, reqs, disp, sweep, resumed, uncounted>>

NoAdm == [pc |-> "idle", from |-> 0, stage |-> 0, latest |-> 0, id |-> 0, targets |-> {}]
NoDisp == [pc |-> "idle", b |-> 0, todo |-> {}, dev |-> {}]

Init ==
    /\ sampling \in Samplings
    /\ nb = 0
    /\ batch = [b \in Batches |-> [stage |-> 0, parent |-> 0, status |-> "none", ok |-> 0, fail |-> 0]]
    /\ task = [b \in Batches |-> [d \in Devices |-> "none"]]
    /\ old = {} /\ cmds = {}
    /\ adm = [a \in Admins |-> NoAdm] /\ reqs = 0
    /\ disp = [p \in Dispatchers |-> NoDisp]
    /\ sweep = {} /\ resumed = {} /\ uncounted = {}

Created == {b \in Batches : batch[b].status # "none"}
KnownDevices == {d \in Devices : sampling[d] <= LastStage}
TaskRows == {k \in Batches \X Devices : task[k[1]][k[2]] # "none"}
Platform == {b \in Created : batch[b].parent = 0}
Targets(b) == {d \in Devices : task[b][d] # "none"}
Is(b, d, S) == task[b][d] \in S

-----------------------------------------------------------------------------
(* fuse.go                                                                 *)

ShouldFuse(ok, fail) == ok + fail >= MinSamples /\ ok + fail > 0
                        /\ fail * FuseDen > FuseNum * (ok + fail)
ShouldFuseAbs(ok, fail) == (MinAbsFail > 0 /\ fail >= MinAbsFail) \/ ShouldFuse(ok, fail)
RatioExceeds(ok, fail) == fail * FuseDen > FuseNum * (ok + fail)

-----------------------------------------------------------------------------
(* CreateBatch and Advance.                                                *)

\* SELECT ... ORDER BY id DESC LIMIT 1: l is the latest platform batch, 0 when
\* there is none.
IsLatest(l) == IF Platform = {} THEN l = 0 ELSE l \in Platform /\ \A c \in Platform : c <= l

\* Stage allowed after batch l, 0 meaning that there is none.
ExpectedNextStage(l) == IF l = 0 THEN 1 ELSE batch[l].stage + 1

\* POST /batches. The SELECT ... FOR UPDATE picks the latest platform batch of
\* its snapshot and then waits for that row's lock. The stage of the request is
\* compared with that row's, which never changes; any other stage is refused.
Request == reqs < MaxRequests /\ reqs' = reqs + 1

Locking(r, s, l) == [r EXCEPT !.pc = "locking", !.stage = s, !.latest = l]

StageAllowed(s, l) == IsLatest(l) /\ s = ExpectedNextStage(l)

CreateBegin(a, s) ==
    /\ adm[a] = NoAdm /\ Request
    /\ \E l \in 0 .. MaxBatches : /\ StageAllowed(s, l)
                                  /\ adm' = [adm EXCEPT ![a] = Locking(NoAdm, s, l)]
    /\ UNCHANGED <<sampling, nb, batch, task, old, cmds, disp, sweep, resumed, uncounted>>

\* Advance, first query (GetBatch): refused for the last stage, for a fused
\* batch and for a fail ratio above the threshold.
AdvanceView(a, b) ==
    /\ adm[a] = NoAdm /\ Request /\ b \in Created
    /\ batch[b].stage < LastStage
    /\ batch[b].status # "fused"
    /\ ~ RatioExceeds(batch[b].ok, batch[b].fail)
    /\ adm' = [adm EXCEPT ![a] = [NoAdm EXCEPT !.pc = "view", !.from = b, !.stage = batch[b].stage + 1]]
    /\ UNCHANGED <<sampling, nb, batch, task, old, cmds, disp, sweep, resumed, uncounted>>

\* Advance, second query (taskHistogram): all tasks terminal, else a conflict;
\* then CreateBatch with the next stage.
AdvanceHistogram(a) ==
    /\ adm[a].pc = "view"
    /\ \E l \in 0 .. MaxBatches :
         /\ IsLatest(l)
         /\ adm' = [adm EXCEPT ![a] =
                      IF /\ \A d \in Targets(adm[a].from) : Is(adm[a].from, d, Terminal)
                         /\ StageAllowed(adm[a].stage, l)
                        THEN Locking(@, adm[a].stage, l) ELSE NoAdm]
    /\ UNCHANGED <<sampling, reqs, nb, batch, task, old, cmds, disp, sweep, resumed, uncounted>>

\* The transactions that hold the lock of the row they read.
Holding(a) == adm[a].pc \in {"inserted", "sampled"}
RowFree(l) == \A c \in Admins : ~ (Holding(c) /\ adm[c].latest = l)

\* The row lock is granted (none is needed when there is no batch yet) and the
\* batch is inserted under the next id. Without approved_by the CHECK
\* constraint refuses the last stage.
CreateInsert(a, approved) ==
    /\ adm[a].pc = "locking" /\ (adm[a].latest = 0 \/ RowFree(adm[a].latest))
    /\ IF adm[a].stage = LastStage /\ ~ approved
         THEN adm' = [adm EXCEPT ![a] = NoAdm] /\ nb' = nb
         ELSE /\ nb < MaxBatches /\ nb' = nb + 1
              /\ adm' = [adm EXCEPT ![a].pc = "inserted", ![a].id = nb']
    /\ UNCHANGED <<sampling, reqs, batch, task, old, cmds, disp, sweep, resumed, uncounted>>

SampledAgain(s) == {d \in Devices : sampling[d] <= s}

\* The devices of the stage that no batch of this firmware has targeted.
Sampled(s) == {d \in Devices : sampling[d] <= s /\ \A b \in Created : task[b][d] = "none"}

CreateSample(a) ==
    /\ adm[a].pc = "inserted"
    /\ adm' = [adm EXCEPT ![a].pc = "sampled", ![a].targets = Sampled(adm[a].stage)]
    /\ UNCHANGED <<sampling, reqs, nb, batch, task, old, cmds, disp, sweep, resumed, uncounted>>

\* Batch b becomes visible with its tasks.
NewBatch(b, s, p, T) ==
    /\ Cardinality(TaskRows) + Cardinality(T) <= MaxTasks
    /\ batch' = [batch EXCEPT ![b] = [stage |-> s, parent |-> p, status |-> "running", ok |-> 0, fail |-> 0]]
    /\ task' = [task EXCEPT ![b] = [d \in Devices |-> IF d \in T THEN "pending" ELSE "none"]]

\* INSERT the tasks, commit.
CreateCommit(a) ==
    /\ adm[a].pc = "sampled"
    /\ NewBatch(adm[a].id, adm[a].stage, 0, adm[a].targets)
    /\ adm' = [adm EXCEPT ![a] = IF adm[a].from = 0 THEN NoAdm
                                 ELSE [NoAdm EXCEPT !.pc = "complete", !.from = adm[a].from]]
    /\ UNCHANGED <<sampling, reqs, nb, old, cmds, disp, sweep, resumed, uncounted>>

\* A statement fails or the process dies: an open transaction is rolled back,
\* its id is not given again.
RequestFails(a) ==
    /\ adm[a] # NoAdm
    /\ adm' = [adm EXCEPT ![a] = NoAdm]
    /\ UNCHANGED <<sampling, reqs, nb, batch, task, old, cmds, disp, sweep, resumed, uncounted>>

\* Advance, last statement: the batch it left is completed unless fused.
AdvanceComplete(a) ==
    LET b == adm[a].from IN
    /\ adm[a].pc = "complete"
    /\ batch' = IF batch[b].status \in {"running", "paused"}
                  THEN [batch EXCEPT ![b].status = "completed"] ELSE batch
    /\ adm' = [adm EXCEPT ![a] = NoAdm]
    /\ UNCHANGED <<sampling, reqs, nb, task, old, cmds, disp, sweep, resumed, uncounted>>

\* A sub-batch (fleet-svc): explicit devices, the stage of the request (the
\* parent's when it names none), no place in the stage order. It takes the row
\* lock of its parent; unknown SNs are ignored (existingSNs).
CreateSub(p, s, T) ==
    /\ p \in Platform /\ RowFree(p)
    /\ nb < MaxBatches /\ nb' = nb + 1
    /\ NewBatch(nb', s, p, T)
    /\ UNCHANGED <<sampling, old, cmds, adm, reqs, disp, sweep, resumed, uncounted>>

Pause(b) ==
    /\ b \in Created /\ batch[b].status = "running"
    /\ batch' = [batch EXCEPT ![b].status = "paused"]
    /\ UNCHANGED <<sampling, nb, task, old, cmds, adm, reqs, disp, sweep, resumed, uncounted>>

Resume(b) ==
    /\ b \in Created /\ batch[b].status \in {"paused", "fused"}
    /\ batch' = [batch EXCEPT ![b].status = "running"]
    /\ resumed' = IF ShouldFuseAbs(batch[b].ok, batch[b].fail) THEN resumed \cup {b} ELSE resumed
    /\ UNCHANGED <<sampling, nb, task, old, cmds, adm, reqs, disp, sweep, uncounted>>

-----------------------------------------------------------------------------
(* DispatchOnce.                                                           *)

\* A running batch inside its maintenance window, and its pending tasks.
DispatchRead(p, b) ==
    LET todo == {d \in Devices : task[b][d] = "pending"} IN
    /\ disp[p] = NoDisp
    /\ b \in Created /\ batch[b].status = "running" /\ todo # {}
    /\ disp' = [disp EXCEPT ![p] = [pc |-> "check", b |-> b, todo |-> todo, dev |-> {}]]
    /\ UNCHANGED <<sampling, nb, batch, task, old, cmds, adm, reqs, sweep, resumed, uncounted>>

\* The status is read again before the chunk is sent.
DispatchCheck(p) ==
    /\ disp[p].pc = "check"
    /\ disp' = [disp EXCEPT ![p] = IF batch[disp[p].b].status = "running"
                                     THEN [@ EXCEPT !.pc = "send"] ELSE NoDisp]
    /\ UNCHANGED <<sampling, nb, batch, task, old, cmds, adm, reqs, sweep, resumed, uncounted>>

\* Publish one task's command; a failure ends the round (DispatchStop).
DispatchPublish(p, d) ==
    /\ disp[p].pc = "send" /\ d \in disp[p].todo
    /\ cmds' = cmds \cup {<<disp[p].b, d>>}
    /\ disp' = [disp EXCEPT ![p].pc = "mark", ![p].todo = @ \ {d}, ![p].dev = {d}]
    /\ UNCHANGED <<sampling, nb, batch, task, old, adm, reqs, sweep, resumed, uncounted>>

\* UPDATE ... SET status='notified' WHERE id AND status='pending'.
Notified(b, d) == IF task[b][d] = "pending" THEN "notified" ELSE task[b][d]

DispatchMark(p) ==
    LET b == disp[p].b IN
    /\ disp[p].pc = "mark"
    /\ \E d \in disp[p].dev :
         /\ task' = [task EXCEPT ![b][d] = Notified(b, d)]
         /\ old' = IF task[b][d] = "pending" THEN old \ {<<b, d>>} ELSE old
    /\ disp' = [disp EXCEPT ![p] = IF disp[p].todo = {} THEN NoDisp
                                   ELSE [@ EXCEPT !.pc = "send", !.dev = {}]]
    /\ UNCHANGED <<sampling, nb, batch, cmds, adm, reqs, sweep, resumed, uncounted>>

\* Publish or UPDATE fails, or the process dies between the two.
DispatchStop(p) ==
    /\ disp[p].pc # "idle"
    /\ disp' = [disp EXCEPT ![p] = NoDisp]
    /\ UNCHANGED <<sampling, nb, batch, task, old, cmds, adm, reqs, sweep, resumed, uncounted>>

-----------------------------------------------------------------------------
(* Progress reports and the stale sweeper share applyPhase.                *)

Counts(b) == batch[b].status \in {"running", "paused"}

CountedNoFuse(B, ph) ==
    [B EXCEPT !.ok = @ + (IF ph = "success" THEN 1 ELSE 0),
              !.fail = @ + (IF ph = "success" THEN 0 ELSE 1)]

\* The batch row after one terminal task of phase ph: counted, then fused if
\* it is running and over the threshold.
Counted(B, ph) ==
    LET ok == B.ok + (IF ph = "success" THEN 1 ELSE 0)
        fail == B.fail + (IF ph = "success" THEN 0 ELSE 1)
    IN [B EXCEPT !.ok = ok, !.fail = fail,
                 !.status = IF B.status = "running" /\ ShouldFuseAbs(ok, fail) THEN "fused" ELSE @]

ChangeableTerminalToo(b, d) == b \in Created /\ task[b][d] # "none"

Changeable(b, d) == b \in Created /\ task[b][d] \notin Terminal \cup {"none"}

\* One transaction: the task (terminal states are final), then the batch.
applyPhase(b, d, ph) ==
    /\ Changeable(b, d)
    /\ task' = [task EXCEPT ![b][d] = ph]
    /\ old' = old \ {<<b, d>>}
    /\ IF ph \in Terminal
         THEN /\ batch' = IF Counts(b) THEN [batch EXCEPT ![b] = Counted(@, ph)] ELSE batch
              /\ uncounted' = IF Counts(b) THEN uncounted ELSE uncounted \cup {<<b, d>>}
         ELSE UNCHANGED <<batch, uncounted>>

\* A report of a device that got the command; reports may be repeated and may
\* come in any order (redelivery, Nak).
HandleProgress(b, d, ph) ==
    /\ <<b, d>> \in cmds
    /\ applyPhase(b, d, ph)
    /\ UNCHANGED <<sampling, nb, cmds, adm, reqs, disp, sweep, resumed>>

Age(b, d) ==
    /\ b \in Created /\ Is(b, d, Mid) /\ <<b, d>> \notin old
    /\ old' = old \cup {<<b, d>>}
    /\ UNCHANGED <<sampling, nb, batch, task, cmds, adm, reqs, disp, sweep, resumed, uncounted>>

Stale == {k \in old : Is(k[1], k[2], Mid)}

SweepSelect ==
    /\ sweep = {} /\ Stale # {}
    /\ sweep' = Stale
    /\ UNCHANGED <<sampling, nb, batch, task, old, cmds, adm, reqs, disp, resumed, uncounted>>

SweepApplyForgets(k) ==
    /\ k \in sweep
    /\ sweep' = sweep \ {k}
    /\ UNCHANGED <<sampling, task, old, batch, uncounted, nb, cmds, adm, reqs, disp, resumed>>

\* applyPhase with onlyIfStaleFor: a task that has reported since the SELECT is
\* passed over.
SweepApply(k) ==
    /\ k \in sweep
    /\ sweep' = sweep \ {k}
    /\ IF k \in old /\ Changeable(k[1], k[2])
         THEN applyPhase(k[1], k[2], "failed")
         ELSE UNCHANGED <<task, old, batch, uncounted>>
    /\ UNCHANGED <<sampling, nb, cmds, adm, reqs, disp, resumed>>

-----------------------------------------------------------------------------
Dispatch(p) ==
    \/ \E b \in Batches : DispatchRead(p, b)
    \/ DispatchCheck(p)
    \/ \E d \in Devices : DispatchPublish(p, d)
    \/ DispatchMark(p)

Sweep == SweepSelect \/ \E k \in Batches \X Devices : SweepApply(k)

Next ==
    \/ \E a \in Admins, s \in 1 .. LastStage : CreateBegin(a, s)
    \/ \E a \in Admins, b \in Batches : AdvanceView(a, b)
    \/ \E a \in Admins, approved \in BOOLEAN : CreateInsert(a, approved)
    \/ \E a \in Admins : CreateSample(a) \/ CreateCommit(a) \/ RequestFails(a)
    \/ \E a \in Admins : AdvanceHistogram(a) \/ AdvanceComplete(a)
    \/ \E p \in Batches, s \in 1 .. LastStage, T \in (SUBSET KnownDevices) \ {{}} : CreateSub(p, s, T)
    \/ \E b \in Batches : Pause(b) \/ Resume(b)
    \/ \E p \in Dispatchers : Dispatch(p) \/ DispatchStop(p)
    \/ \E b \in Batches, d \in Devices, ph \in Mid \cup Terminal : HandleProgress(b, d, ph)
    \/ \E b \in Batches, d \in Devices : Age(b, d)
    \/ Sweep

Spec == Init /\ [][Next]_vars

\* Time passes for tasks that do not report and the sweeper's ticker runs; an
\* operator, a device or a dispatcher owes nothing.
FairSpec ==
    /\ Spec
    /\ \A b \in Batches, d \in Devices : WF_vars(Age(b, d))
    /\ WF_vars(Sweep)

-----------------------------------------------------------------------------
(* Properties.                                                             *)

\* Types: only rows that exist have tasks, only mid-flight tasks go stale, and
\* a task leaves "pending" only once its command was published.
TypeOK ==
    /\ sampling \in Samplings
    /\ nb \in 0 .. MaxBatches
    /\ batch \in [Batches -> [stage : 0 .. LastStage, parent : 0 .. MaxBatches,
                              status : {"none", "running", "paused", "fused", "completed"},
                              ok : Nat, fail : Nat]]
    /\ task \in [Batches -> [Devices -> {"none", "pending"} \cup Mid \cup Terminal]]
    /\ reqs \in 0 .. MaxRequests
    /\ old \subseteq Batches \X Devices /\ cmds \subseteq Batches \X Devices
    /\ sweep \subseteq Batches \X Devices /\ uncounted \subseteq Batches \X Devices
    /\ resumed \subseteq Created /\ Created \subseteq 1 .. nb
    /\ adm \in [Admins -> [pc : {"idle", "view", "locking", "inserted", "sampled", "complete"},
                           from : 0 .. MaxBatches, stage : 0 .. LastStage,
                           latest : 0 .. MaxBatches, id : 0 .. MaxBatches, targets : SUBSET Devices]]
    /\ disp \in [Dispatchers -> [pc : {"idle", "check", "send", "mark"}, b : 0 .. MaxBatches,
                                 todo : SUBSET Devices, dev : SUBSET Devices]]
    /\ \A b \in Batches, d \in Devices :
         /\ b \notin Created => task[b][d] = "none"
         /\ Is(b, d, Mid \cup Terminal) => <<b, d>> \in cmds

\* applyPhase: ok_count and fail_count are exactly the ended tasks, each counted
\* once whatever is redelivered or races with the sweeper, except the tasks
\* that ended while the batch was fused or completed, which are not counted.
CountedOnce ==
    \A b \in Created :
        LET ended(ph) == {d \in Devices : task[b][d] = ph /\ <<b, d>> \notin uncounted}
        IN /\ batch[b].ok = Cardinality(ended("success"))
           /\ batch[b].fail = Cardinality(ended("failed"))

\* The fuse holds: a batch that is running with too many failures is one that
\* an operator has resumed by hand.
FuseHolds ==
    \A b \in Created :
        batch[b].status = "running" /\ ShouldFuseAbs(batch[b].ok, batch[b].fail) => b \in resumed

\* CreateBatch, Advance: a roll-out widens one stage at a time and never goes
\* back over its devices. Every platform batch past the first stage follows one
\* of the stage before. Two of them may have a device in common in one case
\* only: they are of the same stage, and either that is the first, when there
\* was no row to lock, or there were two batches of the stage before, so that
\* the two requests held different rows.
TwoAt(s) ==
    s = 0 \/ \E e, f \in Platform : e # f /\ batch[e].stage = s /\ batch[f].stage = s

StagesInOrder ==
    \A b \in Platform :
        /\ batch[b].stage > 1 =>
             \E c \in Platform : c < b /\ batch[c].stage = batch[b].stage - 1
        /\ \A c \in Platform, d \in Devices :
             c # b /\ task[b][d] # "none" /\ task[c][d] # "none" =>
                 batch[b].stage = batch[c].stage /\ TwoAt(batch[b].stage - 1)

\* INC-16 (stale.go): a task stays mid-flight for ever only while its device
\* goes on reporting; one that falls silent ends as failed.
NoTaskHangs ==
    \A b \in Batches, d \in Devices :
        <>[]Is(b, d, Mid) => []<>(<<b, d>> \notin old)
=============================================================================
