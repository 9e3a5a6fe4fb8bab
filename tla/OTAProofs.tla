------------------------------ MODULE OTAProofs ------------------------------
(***************************************************************************)
(* What ota-svc keeps for any number of devices, stages, batches, operator *)
(* requests and dispatchers: each ended task is counted once, a fused      *)
(* batch runs again only by hand, and platform batches follow the stages   *)
(* without going back over their devices.                                  *)
(***************************************************************************)
EXTENDS OTA, FiniteSetTheorems, TLAPS

-----------------------------------------------------------------------------
(* The inductive invariant.                                                *)

\* A task that is not counted has ended.
UncountedEnded == \A k \in uncounted : task[k[1]][k[2]] \in Terminal

\* What goes stale or is marked as notified was published before.
Sent ==
    /\ old \subseteq cmds
    /\ \A p \in Dispatchers : /\ disp[p].pc # "idle" => disp[p].b \in Created
                              /\ disp[p].pc = "mark" => \A d \in disp[p].dev : <<disp[p].b, d>> \in cmds

\* An id names one batch: the one that its transaction has not yet committed.
IdsUnique ==
    /\ \A a \in Admins : Holding(a) => adm[a].id \in 1 .. nb /\ adm[a].id \notin Created
    /\ \A a \in Admins, c \in Admins : Holding(a) /\ Holding(c) /\ adm[a].id = adm[c].id => a = c

\* A request builds on the row it has read, which it alone holds.
Creating(a) == adm[a].pc \in {"locking", "inserted", "sampled"}

OnLatest(a) ==
    /\ adm[a].stage \in 1 .. LastStage
    /\ IF adm[a].latest = 0 THEN adm[a].stage = 1
       ELSE adm[a].latest \in Platform /\ batch[adm[a].latest].stage = adm[a].stage - 1

RowsHeld ==
    /\ \A a \in Admins : Creating(a) => OnLatest(a)
    /\ \A a \in Admins : Holding(a) /\ adm[a].latest # 0 => adm[a].latest < adm[a].id
    /\ \A a \in Admins, c \in Admins :
         Holding(a) /\ Holding(c) /\ adm[a].latest = adm[c].latest /\ adm[a].latest # 0 => a = c
    /\ \A a \in Admins : /\ adm[a].pc = "view" => adm[a].stage \in 1 .. LastStage
                         /\ adm[a].pc = "complete" => adm[a].from # 0

\* Batches follow each other.
Chain ==
    \A b \in Platform :
        /\ batch[b].stage \in 1 .. LastStage
        /\ batch[b].stage > 1 => \E c \in Platform : c < b /\ batch[c].stage = batch[b].stage - 1

\* A stage that has a batch has no device left to sample.
Covered ==
    /\ \A b \in Platform, d \in Devices :
         /\ sampling[d] <= batch[b].stage => \E c \in Created : task[c][d] # "none"
         /\ task[b][d] # "none" => sampling[d] <= batch[b].stage
    /\ \A a \in Admins, d \in Devices : adm[a].pc = "sampled" =>
         /\ d \in adm[a].targets => sampling[d] <= adm[a].stage
         /\ sampling[d] <= adm[a].stage /\ d \notin adm[a].targets => \E c \in Created : task[c][d] # "none"

\* The one way to sample a device twice, seen from two batches, a batch and an
\* open transaction, or two open transactions.
Apart ==
    /\ \A b \in Platform, c \in Platform, d \in Devices :
         c # b /\ task[b][d] # "none" /\ task[c][d] # "none" =>
             batch[b].stage = batch[c].stage /\ TwoAt(batch[b].stage - 1)
    /\ \A a \in Admins, b \in Platform, d \in Devices :
         adm[a].pc = "sampled" /\ d \in adm[a].targets /\ task[b][d] # "none" =>
             batch[b].stage = adm[a].stage /\ TwoAt(adm[a].stage - 1)
    /\ \A a \in Admins, c \in Admins, d \in Devices :
         a # c /\ adm[a].pc = "sampled" /\ adm[c].pc = "sampled" /\ d \in adm[a].targets /\ d \in adm[c].targets =>
             adm[a].stage = adm[c].stage /\ TwoAt(adm[a].stage - 1)

StageInv == IdsUnique /\ RowsHeld /\ Chain /\ Covered /\ Apart
CountInv == UncountedEnded /\ CountedOnce /\ FuseHolds /\ Sent

AdmRec == [pc : {"idle", "view", "locking", "inserted", "sampled", "complete"}, from : 0 .. MaxBatches,
           stage : 0 .. LastStage, latest : 0 .. MaxBatches, id : 0 .. MaxBatches, targets : SUBSET Devices]
DispRec == [pc : {"idle", "check", "send", "mark"}, b : 0 .. MaxBatches, todo : SUBSET Devices, dev : SUBSET Devices]
BatchRec == [stage : 0 .. LastStage, parent : 0 .. MaxBatches,
             status : {"none", "running", "paused", "fused", "completed"}, ok : Nat, fail : Nat]
Status == {"none", "pending"} \cup Mid \cup Terminal

LEMMA Facts ==
    ASSUME TypeOK
    PROVE  /\ batch \in [Batches -> BatchRec] /\ task \in [Batches -> [Devices -> Status]]
           /\ adm \in [Admins -> AdmRec] /\ disp \in [Dispatchers -> DispRec]
           /\ Created \subseteq Batches /\ Platform \subseteq Created /\ Created \subseteq 1 .. nb /\ 0 \notin Created
           /\ nb \in Nat /\ nb <= MaxBatches /\ MaxBatches \in Nat /\ LastStage \in Nat \ {0} /\ reqs \in Nat
           /\ \A b \in Batches : batch[b] \in BatchRec /\ batch[b].stage \in Nat /\ b \in Nat
           /\ \A a \in Admins : adm[a] \in AdmRec /\ adm[a].stage \in Nat
           /\ \A d \in Devices : sampling[d] \in Nat /\ sampling[d] > 0
<1>1. /\ batch \in [Batches -> BatchRec] /\ task \in [Batches -> [Devices -> Status]]
      /\ adm \in [Admins -> AdmRec] /\ disp \in [Dispatchers -> DispRec]
      /\ nb \in 0 .. MaxBatches /\ reqs \in 0 .. MaxRequests /\ Created \subseteq 1 .. nb
  BY DEF TypeOK, AdmRec, DispRec, BatchRec, Status
<1>2. /\ MaxBatches \in Nat /\ LastStage \in Nat \ {0} /\ MaxRequests \in Nat
  BY OTAConstants
<1>3. \A d \in Devices : sampling[d] \in Nat /\ sampling[d] > 0
  <2>1. sampling \in [Devices -> 1 .. LastStage + 1]
    BY OTAConstants DEF TypeOK
  <2> QED BY <1>2, <2>1
<1>4. Created \subseteq Batches /\ Platform \subseteq Created
  BY DEF Created, Platform
<1>5. \A b \in Batches : batch[b] \in BatchRec /\ batch[b].stage \in Nat /\ b \in Nat
  BY <1>1, <1>2 DEF BatchRec, Batches
<1>6. \A a \in Admins : adm[a] \in AdmRec /\ adm[a].stage \in Nat
  BY <1>1, <1>2 DEF AdmRec
<1> QED BY <1>1, <1>2, <1>3, <1>4, <1>5, <1>6

LEMMA UncountedKeys ==
    ASSUME TypeOK
    PROVE  \A k \in uncounted : \E b \in Batches, d \in Devices : k = <<b, d>>
<1>1. uncounted \subseteq Batches \X Devices
  BY DEF TypeOK
<1> QED BY <1>1

\* Steps that touch rows only.
LEMMA TypesKept ==
    ASSUME TypeOK, UNCHANGED <<sampling, nb, reqs>>, adm' \in [Admins -> AdmRec], disp' \in [Dispatchers -> DispRec],
           Created' = Created, resumed' \subseteq Created,
           batch' \in [Batches -> BatchRec], task' \in [Batches -> [Devices -> Status]],
           old' \subseteq Batches \X Devices, cmds' \subseteq Batches \X Devices, sweep' \subseteq Batches \X Devices,
           uncounted' \subseteq Batches \X Devices,
           \A b \in Batches, d \in Devices : /\ b \notin Created => task'[b][d] = "none"
                                             /\ task'[b][d] \in Mid \cup Terminal => <<b, d>> \in cmds'
    PROVE  TypeOK'
  BY DEF TypeOK, AdmRec, DispRec, BatchRec, Status, Is

-----------------------------------------------------------------------------
(* Steps that change no stage, parent or row, and no request that is        *)
(* creating a batch.                                                        *)

SameBatches ==
    \A b \in Batches : /\ batch'[b].stage = batch[b].stage /\ batch'[b].parent = batch[b].parent
                       /\ batch'[b].status = "none" <=> batch[b].status = "none"
SameTasks == \A b \in Batches, d \in Devices : task'[b][d] = "none" <=> task[b][d] = "none"
SameRows == nb' = nb /\ sampling' = sampling /\ SameBatches /\ SameTasks

LEMMA SameSets ==
    ASSUME SameRows
    PROVE  Created' = Created /\ Platform' = Platform
<1>1. Created' = Created
  BY DEF SameRows, SameBatches, Created
<1>2. Created \subseteq Batches
  BY DEF Created
<1> QED BY <1>1, <1>2 DEF SameRows, SameBatches, Platform

LEMMA SameStages ==
    ASSUME TypeOK, StageInv, SameRows,
           \A a \in Admins : \/ adm'[a] = adm[a]
                             \/ /\ adm'[a].pc \in {"idle", "view", "complete"}
                                /\ adm'[a].pc = "view" => adm'[a].stage \in 1 .. LastStage
                                /\ adm'[a].pc = "complete" => adm'[a].from # 0
    PROVE  StageInv'
<1>1. Created' = Created /\ Platform' = Platform /\ Platform \subseteq Created /\ Created \subseteq Batches
  BY SameSets, Facts
<1>2. \A a \in Admins : Creating(a)' => adm'[a] = adm[a]
  BY DEF Creating
<1>3. \A a \in Admins : Holding(a)' => adm'[a] = adm[a] /\ Holding(a)
  BY DEF Holding
<1>4. IdsUnique'
  BY <1>1, <1>3 DEF StageInv, IdsUnique, SameRows
<1>5. RowsHeld'
  <2>1. \A a \in Admins : Creating(a)' => OnLatest(a)'
    BY <1>1, <1>2 DEF StageInv, RowsHeld, OnLatest, SameRows, SameBatches, Creating
  <2> QED BY <1>3, <2>1 DEF StageInv, RowsHeld
<1>6. Chain'
  BY <1>1 DEF StageInv, Chain, SameRows, SameBatches
<1>7. Covered'
  BY <1>1 DEF StageInv, Covered, SameRows, SameBatches, SameTasks
<1>8. Apart'
  <2>1. \A s : TwoAt(s) => TwoAt(s)'
    BY <1>1 DEF TwoAt, SameRows, SameBatches
  <2>2. \A a \in Admins : adm'[a].pc = "sampled" => adm'[a] = adm[a]
    OBVIOUS
  <2>3. \A b \in Platform : batch'[b].stage = batch[b].stage /\ \A d \in Devices : task'[b][d] = "none" <=> task[b][d] = "none"
    BY <1>1 DEF SameRows, SameBatches, SameTasks
  <2> QED BY <1>1, <2>1, <2>2, <2>3 DEF StageInv, Apart, TwoAt
<1> QED BY <1>4, <1>5, <1>6, <1>7, <1>8 DEF StageInv

-----------------------------------------------------------------------------
(* The steps of CreateBatch.                                               *)

\* A request changes its locals; only an INSERT takes an id.
LEMMA RequestTypes ==
    ASSUME TypeOK, NEW a \in Admins, NEW v \in AdmRec, adm' = [adm EXCEPT ![a] = v],
           nb' \in nb .. MaxBatches, reqs' \in 0 .. MaxRequests,
           UNCHANGED <<sampling, batch, task, old, cmds, disp, sweep, resumed, uncounted>>
    PROVE  TypeOK'
<1>1. Created' = Created /\ Created \subseteq 1 .. nb'
  BY Facts DEF Created
<1>2. adm' \in [Admins -> AdmRec]
  BY Facts
<1>3. nb' \in 0 .. MaxBatches
  BY Facts
<1> QED BY <1>1, <1>2, <1>3 DEF TypeOK, AdmRec, Is

\* A request reads the latest row and waits for it.
LEMMA LockingStep ==
    ASSUME TypeOK, StageInv, NEW a \in Admins, NEW v \in AdmRec, adm' = [adm EXCEPT ![a] = v],
           v.pc = "locking", v.stage \in 1 .. LastStage, StageAllowed(v.stage, v.latest),
           UNCHANGED <<sampling, nb, batch, task>>
    PROVE  StageInv'
<1>1. adm'[a] = v /\ \A c \in Admins : c # a => adm'[c] = adm[c]
  BY Facts
<1>2. Created' = Created /\ Platform' = Platform
  BY DEF Created, Platform
<1>3. \A c \in Admins : Holding(c)' => c # a /\ adm'[c] = adm[c] /\ Holding(c)
  BY <1>1 DEF Holding
<1>4. IdsUnique'
  BY <1>2, <1>3 DEF StageInv, IdsUnique
<1>5. RowsHeld'
  <2>1. OnLatest(a)'
    <3>1. CASE Platform = {}
      BY <1>1, <3>1 DEF StageAllowed, IsLatest, ExpectedNextStage, OnLatest
    <3>2. CASE Platform # {}
      <4>1. v.latest \in Platform /\ v.latest # 0 /\ v.stage = batch[v.latest].stage + 1
        BY <3>2, Facts DEF StageAllowed, IsLatest, ExpectedNextStage
      <4>2. batch[v.latest].stage \in Nat
        BY <4>1, Facts
      <4> QED BY <1>1, <1>2, <4>1, <4>2 DEF OnLatest
    <3> QED BY <3>1, <3>2
  <2>2. \A c \in Admins : c # a /\ Creating(c)' => OnLatest(c)'
    BY <1>1, <1>2 DEF StageInv, RowsHeld, OnLatest, Creating
  <2> QED BY <1>1, <1>3, <2>1, <2>2 DEF StageInv, RowsHeld
<1>6. Chain'
  BY <1>2 DEF StageInv, Chain
<1>7. Covered'
  BY <1>1, <1>2 DEF StageInv, Covered
<1>8. Apart'
  BY <1>1, <1>2 DEF StageInv, Apart, TwoAt
<1> QED BY <1>4, <1>5, <1>6, <1>7, <1>8 DEF StageInv

\* The row is free: the request holds it alone from here on.
LEMMA InsertStep ==
    ASSUME TypeOK, StageInv, NEW a \in Admins, adm[a].pc = "locking", adm[a].latest = 0 \/ RowFree(adm[a].latest),
           nb < MaxBatches, nb' = nb + 1, NEW v \in AdmRec, adm' = [adm EXCEPT ![a] = v],
           v.pc = "inserted", v.id = nb + 1, v.latest = adm[a].latest, v.stage = adm[a].stage,
           UNCHANGED <<sampling, batch, task>>
    PROVE  StageInv'
<1>1. /\ adm'[a].pc = "inserted" /\ adm'[a].id = nb + 1 /\ adm'[a].latest = adm[a].latest /\ adm'[a].stage = adm[a].stage
      /\ \A c \in Admins : c # a => adm'[c] = adm[c]
  BY Facts
<1>2. Created' = Created /\ Platform' = Platform /\ Created \subseteq 1 .. nb /\ Platform \subseteq Created /\ nb \in Nat
  BY Facts DEF Created, Platform
<1>3. \A c \in Admins : Holding(c)' => c = a \/ (adm'[c] = adm[c] /\ Holding(c))
  BY <1>1 DEF Holding
<1>4. IdsUnique'
  <2>1. \A c \in Admins : Holding(c) => adm[c].id \in 1 .. nb
    BY DEF StageInv, IdsUnique
  <2>2. nb + 1 \in 1 .. nb + 1 /\ nb + 1 \notin Created /\ nb + 1 \notin 1 .. nb /\ 1 .. nb \subseteq 1 .. nb + 1
    BY <1>2
  <2> QED BY <1>1, <1>2, <1>3, <2>1, <2>2 DEF StageInv, IdsUnique
<1>5. RowsHeld'
  <2>1. OnLatest(a) /\ Creating(a)
    BY DEF StageInv, RowsHeld, Creating
  <2>2. \A c \in Admins : Creating(c)' => OnLatest(c)'
    <3>1. OnLatest(a)'
      BY <1>1, <1>2, <2>1 DEF OnLatest
    <3>2. ASSUME NEW c \in Admins, c # a, Creating(c)' PROVE OnLatest(c)'
      <4>1. adm'[c] = adm[c] /\ OnLatest(c)
        BY <1>1, <3>2 DEF StageInv, RowsHeld, Creating
      <4> QED BY <1>2, <4>1 DEF OnLatest
    <3> QED BY <3>1, <3>2
  <2>3. adm[a].latest # 0 => adm[a].latest < nb + 1
    <3>1. \A l \in Platform : l < nb + 1
      BY <1>2
    <3>2. adm[a].latest # 0 => adm[a].latest \in Platform
      BY <2>1 DEF OnLatest
    <3> QED BY <3>1, <3>2
  <2>4. \A c \in Admins : Holding(c) /\ adm[c].latest = adm[a].latest => adm[a].latest = 0
    BY DEF RowFree
  <2> QED BY <1>1, <1>3, <2>2, <2>3, <2>4 DEF StageInv, RowsHeld
<1>6. Chain'
  BY <1>2 DEF StageInv, Chain
<1>7. Covered'
  BY <1>1, <1>2 DEF StageInv, Covered
<1>8. Apart'
  BY <1>1, <1>2 DEF StageInv, Apart, TwoAt
<1> QED BY <1>4, <1>5, <1>6, <1>7, <1>8 DEF StageInv

\* Of two transactions that sample the same device, neither builds on a batch
\* of a stage that has the device: both are of the first stage without a row,
\* or they hold two rows of the stage before.
LEMMA SampleStep ==
    ASSUME TypeOK, StageInv, NEW a \in Admins, adm[a].pc = "inserted",
           NEW v \in AdmRec, adm' = [adm EXCEPT ![a] = v],
           v.pc = "sampled", v.id = adm[a].id, v.latest = adm[a].latest, v.stage = adm[a].stage,
           v.targets = Sampled(adm[a].stage),
           UNCHANGED <<sampling, nb, batch, task>>
    PROVE  StageInv'
<1>0. PICK T : T = Sampled(adm[a].stage)
  OBVIOUS
<1>1. /\ adm'[a].pc = "sampled" /\ adm'[a].id = adm[a].id /\ adm'[a].latest = adm[a].latest
      /\ adm'[a].stage = adm[a].stage /\ adm'[a].targets = T
      /\ \A c \in Admins : c # a => adm'[c] = adm[c]
  BY <1>0, Facts
<1>2. Created' = Created /\ Platform' = Platform /\ Platform \subseteq Created /\ Created \subseteq Batches /\ 0 \notin Created
  BY Facts DEF Created, Platform
<1>3. /\ Holding(a) /\ Creating(a)
      /\ \A c \in Admins : (Holding(c)' <=> Holding(c)) /\ (Creating(c)' <=> Creating(c))
      /\ \A c \in Admins : adm'[c].latest = adm[c].latest /\ adm'[c].id = adm[c].id /\ adm'[c].stage = adm[c].stage
  BY <1>1 DEF Holding, Creating
<1>4. IdsUnique'
  BY <1>2, <1>3 DEF StageInv, IdsUnique
<1>5. RowsHeld'
  BY <1>1, <1>2, <1>3 DEF StageInv, RowsHeld, OnLatest
<1>6. Chain'
  BY <1>2 DEF StageInv, Chain
<1>7. Covered'
  <2>1. \A d \in Devices : d \in T <=> sampling[d] <= adm[a].stage /\ \A b \in Created : task[b][d] = "none"
    BY <1>0 DEF Sampled
  <2> QED BY <1>1, <1>2, <2>1 DEF StageInv, Covered
<1>8. Apart'
  <2>1. ASSUME NEW c \in Admins, c # a, adm[c].pc = "sampled", NEW d \in Devices, d \in T, d \in adm[c].targets
        PROVE  adm[a].stage = adm[c].stage /\ TwoAt(adm[a].stage - 1)
    <3>1. sampling[d] <= adm[a].stage /\ (\A b \in Created : task[b][d] = "none") /\ sampling[d] <= adm[c].stage
      BY <1>0, <2>1 DEF Sampled, StageInv, Covered
    <3>2. \A b \in Platform : ~ (sampling[d] <= batch[b].stage)
      BY <3>1 DEF StageInv, Covered
    <3>3. OnLatest(a) /\ OnLatest(c) /\ Holding(a) /\ Holding(c)
      BY <1>3, <2>1 DEF StageInv, RowsHeld, Creating, Holding
    <3>4. /\ adm[a].stage \in Nat /\ adm[c].stage \in Nat /\ sampling[d] \in Nat
          /\ \A b \in Platform : batch[b].stage \in Nat
      BY <1>2, Facts
    <3>5. ~ (adm[a].stage < adm[c].stage)
      <4>1. adm[c].latest = 0 => adm[c].stage = 1 /\ adm[a].stage >= 1
        BY <3>3, <3>4 DEF OnLatest
      <4>2. adm[c].latest # 0 => adm[c].latest \in Platform /\ batch[adm[c].latest].stage = adm[c].stage - 1
        BY <3>3 DEF OnLatest
      <4> QED BY <3>1, <3>2, <3>4, <4>1, <4>2
    <3>6. ~ (adm[c].stage < adm[a].stage)
      <4>1. adm[a].latest = 0 => adm[a].stage = 1 /\ adm[c].stage >= 1
        BY <3>3, <3>4 DEF OnLatest
      <4>2. adm[a].latest # 0 => adm[a].latest \in Platform /\ batch[adm[a].latest].stage = adm[a].stage - 1
        BY <3>3 DEF OnLatest
      <4> QED BY <3>1, <3>2, <3>4, <4>1, <4>2
    <3>7. adm[a].stage = adm[c].stage
      BY <3>4, <3>5, <3>6
    <3>8. CASE adm[a].stage = 1
      BY <3>7, <3>8 DEF TwoAt
    <3>9. CASE adm[a].stage # 1
      <4>1. /\ adm[a].latest \in Platform /\ batch[adm[a].latest].stage = adm[a].stage - 1
            /\ adm[c].latest \in Platform /\ batch[adm[c].latest].stage = adm[a].stage - 1
            /\ adm[a].latest # 0
        BY <3>3, <3>7, <3>9 DEF OnLatest
      <4>2. adm[a].latest # adm[c].latest
        BY <2>1, <3>3, <4>1 DEF StageInv, RowsHeld
      <4> QED BY <3>7, <4>1, <4>2 DEF TwoAt
    <3> QED BY <3>8, <3>9
  <2>2. \A b \in Platform, d \in Devices : d \in T => task[b][d] = "none"
    BY <1>0, <1>2 DEF Sampled
  <2>3. \A s : TwoAt(s) => TwoAt(s)'
    BY <1>2 DEF TwoAt
  <2>4. \A b \in Platform, c \in Platform, d \in Devices :
          c # b /\ task[b][d] # "none" /\ task[c][d] # "none" =>
             batch[b].stage = batch[c].stage /\ TwoAt(batch[b].stage - 1)'
    BY <2>3 DEF StageInv, Apart
  <2>5. \A c \in Admins, b \in Platform, d \in Devices :
          adm'[c].pc = "sampled" /\ d \in adm'[c].targets /\ task[b][d] # "none" =>
              batch[b].stage = adm'[c].stage /\ TwoAt(adm[c].stage - 1)
    BY <1>1, <2>2 DEF StageInv, Apart
  <2>6. \A c \in Admins, e \in Admins, d \in Devices :
          c # e /\ adm'[c].pc = "sampled" /\ adm'[e].pc = "sampled" /\ d \in adm'[c].targets /\ d \in adm'[e].targets =>
              adm'[c].stage = adm'[e].stage /\ TwoAt(adm[c].stage - 1)
    BY <1>1, <2>1 DEF StageInv, Apart
  <2> QED BY <1>2, <1>3, <2>4, <2>5, <2>6 DEF Apart, TwoAt
<1> QED BY <1>4, <1>5, <1>6, <1>7, <1>8 DEF StageInv

\* The batch becomes visible. What it shares with another one was shared
\* between open transactions, or between it and that batch.
LEMMA CommitStep ==
    ASSUME TypeOK, StageInv, NEW a \in Admins, adm[a].pc = "sampled",
           NewBatch(adm[a].id, adm[a].stage, 0, adm[a].targets),
           NEW v \in AdmRec, adm' = [adm EXCEPT ![a] = v],
           v.pc \in {"idle", "complete"}, v.pc = "complete" => v.from # 0, UNCHANGED <<sampling, nb>>
    PROVE  StageInv'
<1>0. PICK b, s, T : b = adm[a].id /\ s = adm[a].stage /\ T = adm[a].targets
  OBVIOUS
<1>1. /\ b \in 1 .. nb /\ b \in Batches /\ b \notin Created /\ b # 0
      /\ \A c \in Admins : c # a /\ Holding(c) => adm[c].id # b
      /\ s \in 1 .. LastStage /\ s \in Nat
      /\ IF adm[a].latest = 0 THEN s = 1
         ELSE adm[a].latest \in Platform /\ batch[adm[a].latest].stage = s - 1 /\ adm[a].latest < b
  <2>1. Holding(a) /\ Creating(a)
    BY DEF Holding, Creating
  <2>2. b \in 1 .. nb /\ b \notin Created /\ \A c \in Admins : c # a /\ Holding(c) => adm[c].id # b
    BY <1>0, <2>1 DEF StageInv, IdsUnique
  <2>3. OnLatest(a) /\ (adm[a].latest # 0 => adm[a].latest < b)
    BY <1>0, <2>1 DEF StageInv, RowsHeld
  <2>4. s \in Nat
    BY <1>0, Facts
  <2>5. b \in Batches /\ b # 0
    BY <2>2, Facts DEF Batches
  <2> QED BY <1>0, <2>2, <2>3, <2>4, <2>5 DEF OnLatest
<1>2. /\ batch'[b].stage = s /\ batch'[b].parent = 0 /\ batch'[b].status = "running"
      /\ \A c \in Batches : c # b => batch'[c] = batch[c] /\ task'[c] = task[c]
      /\ \A d \in Devices : task'[b][d] # "none" <=> d \in T
  <2>1. /\ batch' = [batch EXCEPT ![b] = [stage |-> s, parent |-> 0, status |-> "running", ok |-> 0, fail |-> 0]]
        /\ task' = [task EXCEPT ![b] = [d \in Devices |-> IF d \in T THEN "pending" ELSE "none"]]
    BY <1>0 DEF NewBatch
  <2> QED BY <1>1, <2>1, Facts
<1>3. adm'[a] = v /\ \A c \in Admins : c # a => adm'[c] = adm[c]
  BY Facts
<1>4. Created' = Created \cup {b} /\ Platform' = Platform \cup {b}
  <2>1. Created' = Created \cup {b}
    BY <1>1, <1>2 DEF Created
  <2> QED BY <1>1, <1>2, <2>1 DEF Platform, Created
<1>5. Platform \subseteq Created /\ Created \subseteq Batches /\ \A c \in Created : c # b
  BY <1>1, Facts
<1>6. \A c \in Admins : Holding(c)' => c # a /\ adm'[c] = adm[c] /\ Holding(c)
  BY <1>3 DEF Holding
<1> HIDE DEF NewBatch
<1>7. IdsUnique'
  <2>1. \A c \in Admins : Holding(c)' => adm'[c].id \in 1 .. nb' /\ adm'[c].id \notin Created'
    BY <1>1, <1>4, <1>6 DEF StageInv, IdsUnique
  <2> QED BY <1>6, <2>1 DEF StageInv, IdsUnique
<1>8. RowsHeld'
  <2>1. \A c \in Admins : Creating(c)' => c # a /\ adm'[c] = adm[c] /\ Creating(c)
    BY <1>3 DEF Creating
  <2>2. \A c \in Admins : Creating(c)' => OnLatest(c)'
    BY <1>2, <1>4, <1>5, <2>1 DEF StageInv, RowsHeld, OnLatest
  <2> QED BY <1>3, <1>6, <2>2 DEF StageInv, RowsHeld
<1>9. Chain'
  <2>1. ASSUME NEW c \in Platform
        PROVE  /\ batch'[c].stage \in 1 .. LastStage
               /\ batch'[c].stage > 1 => \E e \in Platform' : e < c /\ batch'[e].stage = batch'[c].stage - 1
    BY <1>2, <1>4, <1>5 DEF StageInv, Chain
  <2>2. s > 1 => \E e \in Platform' : e < b /\ batch'[e].stage = s - 1
    BY <1>1, <1>2, <1>4, <1>5
  <2> QED BY <1>1, <1>2, <1>4, <2>1, <2>2 DEF Chain
<1>10. \A d \in Devices : sampling[d] <= s => \E c \in Created' : task'[c][d] # "none"
  <2>1. ASSUME NEW d \in Devices, sampling[d] <= s PROVE \E c \in Created' : task'[c][d] # "none"
    <3>1. CASE d \in T
      BY <1>2, <1>4, <3>1
    <3>2. CASE d \notin T
      <4>1. PICK c \in Created : task[c][d] # "none"
        BY <1>0, <2>1, <3>2 DEF StageInv, Covered
      <4> QED BY <1>2, <1>4, <1>5, <4>1
    <3> QED BY <3>1, <3>2
  <2> QED BY <2>1
<1>11. Covered'
  <2>0. \A d \in Devices : (\E c \in Created : task[c][d] # "none") => \E c \in Created' : task'[c][d] # "none"
    BY <1>2, <1>4, <1>5
  <2>1. ASSUME NEW c \in Platform, NEW d \in Devices
        PROVE  /\ sampling[d] <= batch'[c].stage => \E e \in Created' : task'[e][d] # "none"
               /\ task'[c][d] # "none" => sampling[d] <= batch'[c].stage
    BY <1>2, <1>5, <2>0 DEF StageInv, Covered
  <2>2. \A d \in Devices : d \in T => sampling[d] <= s
    BY <1>0 DEF StageInv, Covered
  <2>3. \A c \in Admins, d \in Devices : adm'[c].pc = "sampled" =>
          /\ d \in adm'[c].targets => sampling[d] <= adm'[c].stage
          /\ sampling[d] <= adm'[c].stage /\ d \notin adm'[c].targets => \E e \in Created' : task'[e][d] # "none"
    <3>1. \A c \in Admins : adm'[c].pc = "sampled" => adm'[c] = adm[c]
      BY <1>3
    <3> QED BY <2>0, <3>1 DEF StageInv, Covered
  <2>4. sampling' = sampling
    OBVIOUS
  <2> QED BY <1>2, <1>4, <1>10, <2>1, <2>2, <2>3, <2>4 DEF Covered
<1>12. Apart'
  <2>0. \A t : TwoAt(t) => TwoAt(t)'
    BY <1>2, <1>4, <1>5 DEF TwoAt
  <2>1. \A c \in Admins : adm'[c].pc = "sampled" => c # a /\ adm'[c] = adm[c]
    BY <1>3
  <2>2. ASSUME NEW c \in Platform, NEW d \in Devices, task[c][d] # "none", d \in T
        PROVE  batch[c].stage = s /\ TwoAt(s - 1)
    BY <1>0, <2>2 DEF StageInv, Apart
  <2>3. ASSUME NEW c \in Admins, c # a, NEW d \in Devices, adm[c].pc = "sampled", d \in adm[c].targets, d \in T
        PROVE  adm[c].stage = s /\ TwoAt(s - 1)
    BY <1>0, <2>3 DEF StageInv, Apart
  <2>4. ASSUME NEW c \in Platform', NEW e \in Platform', NEW d \in Devices,
               c # e, task'[c][d] # "none", task'[e][d] # "none"
        PROVE  batch'[c].stage = batch'[e].stage /\ TwoAt(batch'[c].stage - 1)
    <3>1. CASE c = b
      BY <1>2, <1>4, <1>5, <2>2, <2>4, <3>1
    <3>2. CASE e = b
      BY <1>2, <1>4, <1>5, <2>2, <2>4, <3>2
    <3>3. CASE c # b /\ e # b
      BY <1>2, <1>4, <1>5, <2>4, <3>3 DEF StageInv, Apart
    <3> QED BY <3>1, <3>2, <3>3
  <2>5. ASSUME NEW c \in Admins, NEW e \in Platform', NEW d \in Devices,
               adm'[c].pc = "sampled", d \in adm'[c].targets, task'[e][d] # "none"
        PROVE  batch'[e].stage = adm'[c].stage /\ TwoAt(adm'[c].stage - 1)
    <3>1. CASE e = b
      BY <1>2, <2>1, <2>3, <2>5, <3>1
    <3>2. CASE e # b
      BY <1>2, <1>4, <1>5, <2>1, <2>5, <3>2 DEF StageInv, Apart
    <3> QED BY <3>1, <3>2
  <2>6. \A c \in Admins, e \in Admins, d \in Devices :
          c # e /\ adm'[c].pc = "sampled" /\ adm'[e].pc = "sampled" /\ d \in adm'[c].targets /\ d \in adm'[e].targets =>
              adm'[c].stage = adm'[e].stage /\ TwoAt(adm'[c].stage - 1)
    BY <2>1 DEF StageInv, Apart
  <2> QED BY <2>0, <2>4, <2>5, <2>6 DEF Apart
<1> QED BY <1>7, <1>8, <1>9, <1>11, <1>12 DEF StageInv

\* A sub-batch has no place among the platform batches.
LEMMA SubStep ==
    ASSUME TypeOK, StageInv, NEW p, NEW s, NEW T, CreateSub(p, s, T)
    PROVE  StageInv'
<1>0. PICK b : b = nb + 1
  OBVIOUS
<1>1. /\ p \in Platform /\ p # 0 /\ nb' = b /\ b \in Batches /\ b \notin Created
      /\ b \notin 1 .. nb /\ 1 .. nb \subseteq 1 .. nb'
  <2>1. p \in Platform /\ nb < MaxBatches /\ nb' = nb + 1
    BY DEF CreateSub
  <2> QED BY <1>0, <2>1, Facts DEF Batches
<1>2. /\ batch'[b].parent = p /\ batch'[b].status = "running"
      /\ \A c \in Batches : c # b => batch'[c] = batch[c] /\ task'[c] = task[c]
      /\ adm' = adm /\ sampling' = sampling
  <2>1. /\ batch' = [batch EXCEPT ![b] = [stage |-> s, parent |-> p, status |-> "running", ok |-> 0, fail |-> 0]]
        /\ task' = [task EXCEPT ![b] = [d \in Devices |-> IF d \in T THEN "pending" ELSE "none"]]
        /\ adm' = adm /\ sampling' = sampling
    BY <1>0 DEF CreateSub, NewBatch
  <2> QED BY <1>1, <2>1, Facts
<1>3. Created' = Created \cup {b} /\ Platform' = Platform
  <2>1. Created' = Created \cup {b}
    BY <1>1, <1>2 DEF Created
  <2>2. Created \subseteq Batches /\ b \notin Created
    BY <1>1, Facts
  <2> QED BY <1>1, <1>2, <2>1, <2>2 DEF Platform
<1>4. /\ Platform \subseteq Created /\ Created \subseteq Batches
      /\ \A c \in Created : batch'[c] = batch[c] /\ task'[c] = task[c]
  BY <1>1, <1>2, Facts
<1> HIDE DEF CreateSub
<1>5. IdsUnique'
  <2>1. \A c \in Admins : Holding(c)' <=> Holding(c)
    BY <1>2 DEF Holding
  <2> QED BY <1>1, <1>2, <1>3, <2>1 DEF StageInv, IdsUnique
<1>6. RowsHeld'
  <2>1. ASSUME NEW c \in Admins, Creating(c)' PROVE OnLatest(c)'
    <3>1. OnLatest(c)
      BY <1>2, <2>1 DEF StageInv, RowsHeld, Creating
    <3> QED BY <1>2, <1>3, <1>4, <3>1 DEF OnLatest
  <2>2. \A c \in Admins : Holding(c)' <=> Holding(c)
    BY <1>2 DEF Holding
  <2> QED BY <1>2, <2>1, <2>2 DEF StageInv, RowsHeld
<1>7. Chain'
  BY <1>3, <1>4 DEF StageInv, Chain
<1>8. Covered'
  <2>1. \A d \in Devices : (\E c \in Created : task[c][d] # "none") => \E c \in Created' : task'[c][d] # "none"
    BY <1>3, <1>4
  <2>2. \A c \in Platform : batch'[c] = batch[c] /\ task'[c] = task[c]
    BY <1>4
  <2> QED BY <1>2, <1>3, <2>1, <2>2 DEF StageInv, Covered
<1>9. Apart'
  <2>1. \A t : TwoAt(t) => TwoAt(t)'
    BY <1>3, <1>4 DEF TwoAt
  <2>2. \A c \in Platform : batch'[c] = batch[c] /\ task'[c] = task[c]
    BY <1>4
  <2>3. \A c \in Platform, e \in Platform, d \in Devices :
          c # e /\ task'[c][d] # "none" /\ task'[e][d] # "none" =>
             batch'[c].stage = batch'[e].stage /\ TwoAt(batch'[c].stage - 1)
    BY <2>2 DEF StageInv, Apart
  <2>4. \A a \in Admins, c \in Platform, d \in Devices :
          adm'[a].pc = "sampled" /\ d \in adm'[a].targets /\ task'[c][d] # "none" =>
             batch'[c].stage = adm'[a].stage /\ TwoAt(adm'[a].stage - 1)
    BY <1>2, <2>2 DEF StageInv, Apart
  <2>5. \A a \in Admins, c \in Admins, d \in Devices :
          a # c /\ adm'[a].pc = "sampled" /\ adm'[c].pc = "sampled" /\ d \in adm'[a].targets /\ d \in adm'[c].targets =>
             adm'[a].stage = adm'[c].stage /\ TwoAt(adm'[a].stage - 1)
    BY <1>2 DEF StageInv, Apart
  <2> QED BY <1>3, <2>1, <2>3, <2>4, <2>5 DEF Apart
<1> QED BY <1>5, <1>6, <1>7, <1>8, <1>9 DEF StageInv

-----------------------------------------------------------------------------
(* Counting.                                                               *)

Ended(b, ph) == {d \in Devices : task[b][d] = ph /\ <<b, d>> \notin uncounted}

CountsEnded == \A b \in Created : /\ batch[b].ok = Cardinality(Ended(b, "success"))
                                  /\ batch[b].fail = Cardinality(Ended(b, "failed"))

LEMMA CountedOnceEnded == (CountedOnce <=> CountsEnded) /\ (CountedOnce' <=> CountsEnded')
  BY DEF CountedOnce, CountsEnded, Ended

\* One more device in a set of ended ones.
LEMMA OneMore ==
    ASSUME NEW S \in SUBSET Devices, NEW d \in Devices, d \notin S
    PROVE  Cardinality(S \cup {d}) = Cardinality(S) + 1
<1>1. IsFiniteSet(S)
  BY FS_Subset, OTAConstants
<1> QED BY <1>1, FS_AddElement

\* Steps that end no task.
LEMMA CountsKept ==
    ASSUME TypeOK, UncountedEnded, CountedOnce, FuseHolds, UNCHANGED uncounted, Created' = Created,
           \A b \in Created : batch'[b].ok = batch[b].ok /\ batch'[b].fail = batch[b].fail,
           \A b \in Created : batch'[b].status = "running" /\ ShouldFuseAbs(batch[b].ok, batch[b].fail) =>
                               batch[b].status = "running" \/ b \in resumed',
           resumed \subseteq resumed',
           \A b \in Batches, d \in Devices, ph \in Terminal : task'[b][d] = ph <=> task[b][d] = ph
    PROVE  UncountedEnded' /\ CountedOnce' /\ FuseHolds'
<1>1. UncountedEnded'
  <2>1. \A k \in uncounted : \E b \in Batches, d \in Devices : k = <<b, d>>
    BY UncountedKeys
  <2>2. ASSUME NEW k \in uncounted PROVE task'[k[1]][k[2]] \in Terminal
    <3>1. PICK b \in Batches, d \in Devices : k = <<b, d>>
      BY <2>1
    <3>2. task[b][d] \in Terminal
      BY <3>1 DEF UncountedEnded
    <3> QED BY <3>1, <3>2
  <2> QED BY <2>2 DEF UncountedEnded
<1>2. CountedOnce'
  <2>1. \A b \in Created, ph \in Terminal : Ended(b, ph)' = Ended(b, ph)
    BY Facts DEF Ended
  <2>2. CountsEnded'
    BY <2>1, CountedOnceEnded DEF CountsEnded, Terminal
  <2> QED BY <2>2, CountedOnceEnded
<1>3. FuseHolds'
  BY DEF FuseHolds
<1> QED BY <1>1, <1>2, <1>3

\* The heart of the matter (applyPhase): the task that ends was not ended, and
\* exactly one of its batch's counters, or uncounted, gets it.
LEMMA PhaseStep ==
    ASSUME TypeOK, StageInv, CountInv, NEW b \in Batches, NEW d \in Devices, NEW ph \in Mid \cup Terminal,
           <<b, d>> \in cmds, applyPhase(b, d, ph), sweep' \subseteq sweep,
           UNCHANGED <<sampling, nb, cmds, adm, reqs, disp, resumed>>
    PROVE  TypeOK' /\ StageInv' /\ CountInv'
<1>0. PICK k : k = <<b, d>>
  OBVIOUS
<1>1. b \in Created /\ task[b][d] \notin Terminal \cup {"none"} /\ ph # "none" /\ ph \in Status
  BY DEF applyPhase, Changeable, Mid, Terminal, Status
<1>2. /\ task' \in [Batches -> [Devices -> Status]] /\ task'[b][d] = ph
      /\ \A c \in Batches, e \in Devices : c # b \/ e # d => task'[c][e] = task[c][e]
  BY <1>1, Facts DEF applyPhase
<1>3. PICK B : B = Counted(batch[b], ph)
  OBVIOUS
<1>4. batch[b] \in BatchRec
  BY Facts
<1>5. /\ B \in BatchRec /\ B.stage = batch[b].stage /\ B.parent = batch[b].parent
      /\ B.ok = batch[b].ok + (IF ph = "success" THEN 1 ELSE 0)
      /\ B.fail = batch[b].fail + (IF ph = "success" THEN 0 ELSE 1)
      /\ \/ B.status = batch[b].status /\ ~ (batch[b].status = "running" /\ ShouldFuseAbs(B.ok, B.fail))
         \/ B.status = "fused"
  <2>0. PICK ok \in Nat, fail \in Nat : ok = batch[b].ok + (IF ph = "success" THEN 1 ELSE 0)
                                       /\ fail = batch[b].fail + (IF ph = "success" THEN 0 ELSE 1)
    BY <1>4 DEF BatchRec
  <2>1. PICK st : st = IF batch[b].status = "running" /\ ShouldFuseAbs(ok, fail) THEN "fused" ELSE batch[b].status
    OBVIOUS
  <2>2. B = [batch[b] EXCEPT !.ok = ok, !.fail = fail, !.status = st]
    BY <1>3, <2>0, <2>1 DEF Counted
  <2>3. /\ B \in BatchRec /\ B.ok = ok /\ B.fail = fail /\ B.status = st
        /\ B.stage = batch[b].stage /\ B.parent = batch[b].parent
    BY <1>4, <2>1, <2>2 DEF BatchRec
  <2> QED BY <2>0, <2>1, <2>3
<1>6. /\ batch' \in [Batches -> BatchRec]
      /\ \A c \in Batches : c # b => batch'[c] = batch[c]
      /\ batch'[b] = IF ph \in Terminal /\ Counts(b) THEN B ELSE batch[b]
      /\ uncounted' = IF ph \in Terminal /\ ~ Counts(b) THEN uncounted \cup {k} ELSE uncounted
  BY <1>0, <1>3, <1>5, Facts DEF applyPhase
<1>7. old' \subseteq old
  BY DEF applyPhase
<1> HIDE DEF applyPhase
<1>8. SameRows
  <2>1. batch[b].status # "none"
    BY <1>1 DEF Created
  <2>2. B.status # "none"
    BY <1>5, <2>1
  <2>3. SameBatches
    BY <1>5, <1>6, <2>1, <2>2 DEF SameBatches
  <2>4. SameTasks
    BY <1>1, <1>2 DEF SameTasks
  <2>5. nb' = nb /\ sampling' = sampling
    OBVIOUS
  <2> QED BY <2>3, <2>4, <2>5 DEF SameRows
<1>9. StageInv'
  BY <1>8, SameStages
<1>10. Created' = Created
  BY <1>8, SameSets
<1>11. TypeOK'
  <2>1. uncounted' \subseteq Batches \X Devices
    BY <1>0, <1>6 DEF TypeOK
  <2>2. \A c \in Batches, e \in Devices : /\ c \notin Created => task'[c][e] = "none"
                                          /\ task'[c][e] \in Mid \cup Terminal => <<c, e>> \in cmds
    <3>1. ASSUME NEW c \in Batches, NEW e \in Devices
          PROVE  /\ c \notin Created => task[c][e] = "none"
                 /\ task[c][e] \in Mid \cup Terminal => <<c, e>> \in cmds
      BY DEF TypeOK, Is
    <3> QED BY <1>1, <1>2, <3>1
  <2>3. cmds' \subseteq Batches \X Devices /\ resumed' \subseteq Created
    BY DEF TypeOK
  <2>4. sweep' \subseteq Batches \X Devices /\ old' \subseteq Batches \X Devices
    BY <1>7 DEF TypeOK
  <2>5. batch' \in [Batches -> BatchRec] /\ task' \in [Batches -> [Devices -> Status]]
    BY <1>2, <1>6
  <2>6. adm' \in [Admins -> AdmRec] /\ disp' \in [Dispatchers -> DispRec]
    BY Facts
  <2> QED BY <1>10, <2>1, <2>2, <2>3, <2>4, <2>5, <2>6, TypesKept
<1>12. k \notin uncounted
  BY <1>0, <1>1 DEF CountInv, UncountedEnded
<1>13. UncountedEnded'
  <2>1. ASSUME NEW j \in uncounted' PROVE task'[j[1]][j[2]] \in Terminal
    <3>1. CASE j = k /\ ph \in Terminal
      BY <1>0, <1>2, <3>1
    <3>2. CASE j \in uncounted
      <4>1. PICK c \in Batches, e \in Devices : j = <<c, e>>
        BY <3>2 DEF TypeOK
      <4>2. task[c][e] \in Terminal
        BY <3>2, <4>1 DEF CountInv, UncountedEnded
      <4>3. c # b \/ e # d
        BY <1>1, <4>2
      <4> QED BY <1>2, <4>1, <4>2, <4>3
    <3> QED BY <1>6, <2>1, <3>1, <3>2
  <2> QED BY <2>1 DEF UncountedEnded
<1>14. CountedOnce'
  <2>1. CountsEnded
    BY CountedOnceEnded DEF CountInv
  <2>2. ASSUME NEW c \in Created, NEW r \in Terminal, c # b \/ r # ph \/ ~ Counts(b)
        PROVE  Ended(c, r)' = Ended(c, r)
    <3>1. c \in Batches
      BY Facts
    <3>2. ASSUME NEW e \in Devices
          PROVE  (task'[c][e] = r /\ <<c, e>> \notin uncounted') <=> (task[c][e] = r /\ <<c, e>> \notin uncounted)
      <4>1. CASE c = b /\ e = d
        BY <1>0, <1>1, <1>2, <1>6, <2>2, <4>1
      <4>2. CASE ~ (c = b /\ e = d)
        <5>1. <<c, e>> # k
          BY <1>0, <4>2
        <5> QED BY <1>2, <1>6, <3>1, <4>2, <5>1
      <4> QED BY <4>1, <4>2
    <3> QED BY <3>2 DEF Ended
  <2>3. ASSUME ph \in Terminal, Counts(b)
        PROVE  Cardinality(Ended(b, ph)') = Cardinality(Ended(b, ph)) + 1
    <3>1. Ended(b, ph)' = Ended(b, ph) \cup {d}
      <4>1. uncounted' = uncounted
        BY <1>6, <2>3
      <4>2. \A e \in Devices : task'[b][e] = ph /\ <<b, e>> \notin uncounted <=>
                               (task[b][e] = ph /\ <<b, e>> \notin uncounted) \/ e = d
        BY <1>0, <1>2, <1>12
      <4> QED BY <4>1, <4>2 DEF Ended
    <3>2. Ended(b, ph) \in SUBSET Devices /\ d \notin Ended(b, ph)
      BY <1>1, <2>3 DEF Ended
    <3> QED BY <3>1, <3>2, OneMore
  <2>4. ASSUME NEW c \in Created, c # b \/ ph \notin Terminal \/ ~ Counts(b)
        PROVE  /\ batch'[c].ok = Cardinality(Ended(c, "success")')
               /\ batch'[c].fail = Cardinality(Ended(c, "failed")')
    <3>1. batch'[c] = batch[c]
      BY <1>6, <2>4, Facts
    <3>2. \A r \in Terminal : r # ph \/ c # b \/ ~ Counts(b)
      BY <2>4
    <3>3. Ended(c, "success")' = Ended(c, "success") /\ Ended(c, "failed")' = Ended(c, "failed")
      BY <2>2, <3>2 DEF Terminal
    <3> QED BY <2>1, <3>1, <3>3 DEF CountsEnded
  <2>5. ASSUME ph \in Terminal, Counts(b)
        PROVE  /\ batch'[b].ok = Cardinality(Ended(b, "success")')
               /\ batch'[b].fail = Cardinality(Ended(b, "failed")')
    <3>0. batch'[b] = B /\ batch[b].ok \in Nat /\ batch[b].fail \in Nat
      BY <1>4, <1>6, <2>5 DEF BatchRec
    <3>1. batch[b].ok = Cardinality(Ended(b, "success")) /\ batch[b].fail = Cardinality(Ended(b, "failed"))
      BY <1>1, <2>1 DEF CountsEnded
    <3>2. CASE ph = "success"
      <4>1. Ended(b, "failed")' = Ended(b, "failed")
        BY <1>1, <2>2, <3>2 DEF Terminal
      <4>2. B.ok = batch[b].ok + 1 /\ B.fail = batch[b].fail
        BY <1>5, <3>0, <3>2
      <4> QED BY <2>3, <2>5, <3>0, <3>1, <3>2, <4>1, <4>2
    <3>3. CASE ph = "failed"
      <4>1. Ended(b, "success")' = Ended(b, "success")
        BY <1>1, <2>2, <3>3 DEF Terminal
      <4>2. B.ok = batch[b].ok /\ B.fail = batch[b].fail + 1
        BY <1>5, <3>0, <3>3
      <4> QED BY <2>3, <2>5, <3>0, <3>1, <3>3, <4>1, <4>2
    <3> QED BY <2>5, <3>2, <3>3 DEF Terminal
  <2>6. CountsEnded'
    BY <1>10, <2>4, <2>5 DEF CountsEnded
  <2> QED BY <2>6, CountedOnceEnded
<1>15. FuseHolds'
  <2>1. ASSUME NEW c \in Created, batch'[c].status = "running", ShouldFuseAbs(batch'[c].ok, batch'[c].fail)
        PROVE  c \in resumed
    <3>1. CASE batch'[c] = batch[c]
      BY <2>1, <3>1 DEF CountInv, FuseHolds
    <3>2. CASE c = b /\ batch'[b] = B
      BY <1>5, <2>1, <3>2
    <3> QED BY <1>6, <3>1, <3>2, Facts
  <2> QED BY <1>10, <2>1 DEF FuseHolds
<1>16. Sent'
  BY <1>7, <1>10 DEF CountInv, Sent
<1> QED BY <1>9, <1>11, <1>13, <1>14, <1>15, <1>16 DEF CountInv

-----------------------------------------------------------------------------
(* The steps, one after the other.                                         *)

OTAInv == TypeOK /\ StageInv /\ CountInv

LEMMA CountSame ==
    ASSUME CountInv, UNCHANGED <<batch, task, uncounted, resumed, old, cmds, disp>>
    PROVE  CountInv'
<1>1. Created' = Created
  BY DEF Created
<1> QED BY <1>1 DEF CountInv, UncountedEnded, CountedOnce, FuseHolds, Sent

\* Operators' requests up to the commit.
LEMMA RequestStep ==
    ASSUME OTAInv, NEW a \in Admins,
           \/ \E s \in 1 .. LastStage : CreateBegin(a, s)
           \/ \E b \in Batches : AdvanceView(a, b)
           \/ AdvanceHistogram(a)
           \/ RequestFails(a)
    PROVE  OTAInv'
<1>0. TypeOK /\ StageInv /\ CountInv /\ adm[a] \in AdmRec /\ adm \in [Admins -> AdmRec] /\ NoAdm \in AdmRec
  BY Facts DEF OTAInv, NoAdm, AdmRec
<1>1. nb \in nb .. MaxBatches /\ reqs \in 0 .. MaxRequests
  BY <1>0, Facts DEF TypeOK
<1>2. ASSUME NEW v \in AdmRec, adm' = [adm EXCEPT ![a] = v],
             \/ v.pc = "idle"
             \/ v.pc = "view" /\ v.stage \in 1 .. LastStage
             \/ v.pc = "locking" /\ v.stage \in 1 .. LastStage /\ StageAllowed(v.stage, v.latest),
             reqs' \in 0 .. MaxRequests,
             UNCHANGED <<sampling, nb, batch, task, old, cmds, disp, sweep, resumed, uncounted>>
      PROVE  OTAInv'
  <2>1. TypeOK' /\ CountInv'
    BY <1>0, <1>1, <1>2, RequestTypes, CountSame
  <2>2. CASE v.pc = "locking"
    BY <1>0, <1>2, <2>1, <2>2, LockingStep DEF OTAInv
  <2>3. CASE v.pc # "locking"
    <3>1. SameRows
      BY <1>2 DEF SameRows, SameBatches, SameTasks
    <3>2. adm'[a] = v /\ \A c \in Admins : c # a => adm'[c] = adm[c]
      BY <1>0, <1>2
    <3> QED BY <1>0, <1>2, <2>1, <2>3, <3>1, <3>2, SameStages DEF OTAInv
  <2> QED BY <2>2, <2>3
<1>3. ASSUME NEW s \in 1 .. LastStage, CreateBegin(a, s) PROVE OTAInv'
  <2>1. PICK l \in 0 .. MaxBatches : StageAllowed(s, l) /\ adm' = [adm EXCEPT ![a] = Locking(NoAdm, s, l)]
    BY <1>3 DEF CreateBegin
  <2>2. PICK v : v = Locking(NoAdm, s, l)
    OBVIOUS
  <2>3. v \in AdmRec /\ v.pc = "locking" /\ v.stage = s /\ v.latest = l
    <3>1. s \in 0 .. LastStage
      BY OTAConstants
    <3> QED BY <1>0, <2>2, <3>1 DEF Locking, AdmRec
  <2>4. reqs' \in 0 .. MaxRequests
    <3>1. reqs < MaxRequests /\ reqs' = reqs + 1
      BY <1>3 DEF CreateBegin, Request
    <3> QED BY <1>1, <3>1, OTAConstants
  <2> QED BY <1>2, <1>3, <2>1, <2>2, <2>3, <2>4 DEF CreateBegin
<1>4. ASSUME NEW b \in Batches, AdvanceView(a, b) PROVE OTAInv'
  <2>1. PICK v : v = [NoAdm EXCEPT !.pc = "view", !.from = b, !.stage = batch[b].stage + 1]
    OBVIOUS
  <2>2. batch[b].stage + 1 \in 1 .. LastStage
    <3>1. batch[b].stage \in Nat /\ LastStage \in Nat
      BY <1>0, Facts
    <3>2. batch[b].stage < LastStage
      BY <1>4 DEF AdvanceView
    <3> QED BY <3>1, <3>2
  <2>3. v \in AdmRec /\ v.pc = "view" /\ v.stage = batch[b].stage + 1
    <3>1. b \in 0 .. MaxBatches
      BY OTAConstants DEF Batches
    <3>2. batch[b].stage + 1 \in 0 .. LastStage
      BY <2>2, OTAConstants
    <3> QED BY <1>0, <2>1, <3>1, <3>2 DEF AdmRec
  <2>4. reqs' \in 0 .. MaxRequests
    <3>1. reqs < MaxRequests /\ reqs' = reqs + 1
      BY <1>4 DEF AdvanceView, Request
    <3> QED BY <1>1, <3>1, OTAConstants
  <2> QED BY <1>2, <1>4, <2>1, <2>2, <2>3, <2>4 DEF AdvanceView
<1>5. ASSUME AdvanceHistogram(a) PROVE OTAInv'
  <2>1. PICK l \in 0 .. MaxBatches :
          \/ adm' = [adm EXCEPT ![a] = NoAdm]
          \/ StageAllowed(adm[a].stage, l) /\ adm' = [adm EXCEPT ![a] = Locking(adm[a], adm[a].stage, l)]
    BY <1>5 DEF AdvanceHistogram
  <2>2. UNCHANGED <<sampling, reqs, nb, batch, task, old, cmds, disp, sweep, resumed, uncounted>> /\ adm[a].pc = "view"
    BY <1>5 DEF AdvanceHistogram
  <2>3. NoAdm.pc = "idle"
    BY DEF NoAdm
  <2>4. CASE adm' = [adm EXCEPT ![a] = NoAdm]
    BY <1>0, <1>1, <1>2, <2>2, <2>3, <2>4
  <2>5. CASE StageAllowed(adm[a].stage, l) /\ adm' = [adm EXCEPT ![a] = Locking(adm[a], adm[a].stage, l)]
    <3>1. PICK v : v = Locking(adm[a], adm[a].stage, l)
      OBVIOUS
    <3>2. v \in AdmRec /\ v.pc = "locking" /\ v.stage = adm[a].stage /\ v.latest = l
      BY <1>0, <3>1 DEF Locking, AdmRec
    <3>3. adm[a].stage \in 1 .. LastStage
      BY <1>0, <2>2 DEF StageInv, RowsHeld
    <3> QED BY <1>1, <1>2, <2>2, <2>5, <3>1, <3>2, <3>3
  <2> QED BY <2>1, <2>4, <2>5
<1>6. ASSUME RequestFails(a) PROVE OTAInv'
  <2>1. NoAdm.pc = "idle"
    BY DEF NoAdm
  <2> QED BY <1>0, <1>1, <1>2, <1>6, <2>1 DEF RequestFails
<1> QED BY <1>3, <1>4, <1>5, <1>6

LEMMA InsertSampleStep ==
    ASSUME OTAInv, NEW a \in Admins, CreateSample(a) \/ \E approved \in BOOLEAN : CreateInsert(a, approved)
    PROVE  OTAInv'
<1>0. TypeOK /\ StageInv /\ CountInv /\ adm[a] \in AdmRec
  BY Facts DEF OTAInv
<1>1. nb \in nb .. MaxBatches /\ reqs \in 0 .. MaxRequests
  BY <1>0, Facts DEF TypeOK
<1>2. ASSUME CreateSample(a) PROVE OTAInv'
  <2>1. PICK v : v = [adm[a] EXCEPT !.pc = "sampled", !.targets = Sampled(adm[a].stage)]
    OBVIOUS
  <2>2. /\ v \in AdmRec /\ v.pc = "sampled" /\ v.id = adm[a].id /\ v.latest = adm[a].latest
        /\ v.stage = adm[a].stage /\ v.targets = Sampled(adm[a].stage)
    BY <1>0, <2>1 DEF AdmRec, Sampled
  <2>3. /\ adm' = [adm EXCEPT ![a] = v] /\ adm[a].pc = "inserted"
        /\ UNCHANGED <<sampling, reqs, nb, batch, task, old, cmds, disp, sweep, resumed, uncounted>>
    BY <1>0, <1>2, <2>1, Facts DEF CreateSample
  <2>4. TypeOK' /\ CountInv'
    BY <1>0, <1>1, <2>2, <2>3, RequestTypes, CountSame
  <2> QED BY <1>0, <2>2, <2>3, <2>4, SampleStep DEF OTAInv
<1>3. ASSUME NEW approved \in BOOLEAN, CreateInsert(a, approved) PROVE OTAInv'
  <2>1. CASE adm' = [adm EXCEPT ![a] = NoAdm] /\ nb' = nb
    <3>1. RequestFails(a)
      <4>1. adm[a] # NoAdm
        BY <1>3 DEF CreateInsert, NoAdm
      <4> QED BY <1>3, <2>1, <4>1 DEF CreateInsert, RequestFails
    <3> QED BY <3>1, RequestStep
  <2>2. CASE nb < MaxBatches /\ nb' = nb + 1 /\ adm' = [adm EXCEPT ![a].pc = "inserted", ![a].id = nb']
    <3>1. PICK v : v = [adm[a] EXCEPT !.pc = "inserted", !.id = nb + 1]
      OBVIOUS
    <3>2. nb + 1 \in 0 .. MaxBatches /\ nb' \in nb .. MaxBatches
      BY <1>0, <2>2, Facts
    <3>3. v \in AdmRec /\ v.pc = "inserted" /\ v.id = nb + 1 /\ v.latest = adm[a].latest /\ v.stage = adm[a].stage
      BY <1>0, <3>1, <3>2 DEF AdmRec
    <3>4. adm' = [adm EXCEPT ![a] = v]
      BY <1>0, <2>2, <3>1, Facts
    <3>5. /\ UNCHANGED <<sampling, reqs, batch, task, old, cmds, disp, sweep, resumed, uncounted>>
          /\ adm[a].pc = "locking" /\ (adm[a].latest = 0 \/ RowFree(adm[a].latest))
      BY <1>3 DEF CreateInsert
    <3>6. TypeOK' /\ CountInv'
      BY <1>0, <1>1, <3>2, <3>3, <3>4, <3>5, RequestTypes, CountSame
    <3> QED BY <1>0, <2>2, <3>3, <3>4, <3>5, <3>6, InsertStep DEF OTAInv
  <2> QED BY <1>3, <2>1, <2>2 DEF CreateInsert
<1> QED BY <1>2, <1>3

\* A new batch has no ended task and counts none.
LEMMA NewRow ==
    ASSUME TypeOK, CountInv, NEW b \in Batches, b \notin Created, b \in 1 .. nb', nb' \in nb .. MaxBatches,
           NEW s \in 0 .. LastStage, NEW p \in 0 .. MaxBatches, NEW T, NewBatch(b, s, p, T),
           adm' \in [Admins -> AdmRec],
           UNCHANGED <<sampling, reqs, old, cmds, disp, sweep, resumed, uncounted>>
    PROVE  TypeOK' /\ CountInv'
<1>0. PICK B : B = [stage |-> s, parent |-> p, status |-> "running", ok |-> 0, fail |-> 0]
  OBVIOUS
<1>1. B \in BatchRec /\ B.status = "running" /\ B.ok = 0 /\ B.fail = 0
  BY <1>0 DEF BatchRec
<1>2. /\ batch' \in [Batches -> BatchRec] /\ batch'[b] = B
      /\ \A c \in Batches : c # b => batch'[c] = batch[c]
  BY <1>0, <1>1, Facts DEF NewBatch
<1>3. PICK row : row = [d \in Devices |-> IF d \in T THEN "pending" ELSE "none"]
  OBVIOUS
<1>4. row \in [Devices -> Status] /\ \A d \in Devices : row[d] \in {"pending", "none"}
  BY <1>3 DEF Status
<1>5. /\ task' \in [Batches -> [Devices -> Status]] /\ task'[b] = row
      /\ \A c \in Batches : c # b => task'[c] = task[c]
  BY <1>3, <1>4, Facts DEF NewBatch
<1> HIDE DEF NewBatch
<1>6. Created' = Created \cup {b} /\ Created \subseteq Batches
  BY <1>1, <1>2, Facts DEF Created
<1>7. \A d \in Devices : task[b][d] = "none"
  BY DEF TypeOK
<1>8. TypeOK'
  <2>1. Created' \subseteq 1 .. nb' /\ nb' \in 0 .. MaxBatches
    BY <1>6, Facts
  <2>2. resumed' \subseteq Created'
    BY <1>6 DEF TypeOK
  <2>3. ASSUME NEW c \in Batches, NEW d \in Devices
        PROVE  /\ c \notin Created' => task'[c][d] = "none"
               /\ task'[c][d] \in Mid \cup Terminal => <<c, d>> \in cmds'
    <3>1. CASE c = b
      BY <1>4, <1>5, <1>6, <3>1 DEF Mid, Terminal
    <3>2. CASE c # b
      BY <1>5, <1>6, <3>2 DEF TypeOK, Is
    <3> QED BY <3>1, <3>2
  <2> QED BY <1>2, <1>5, <2>1, <2>2, <2>3 DEF TypeOK, BatchRec, Status, AdmRec, Is
<1>9. UncountedEnded'
  <2>0. \A k \in uncounted : \E c \in Batches, d \in Devices : k = <<c, d>>
    BY UncountedKeys
  <2>1. ASSUME NEW k \in uncounted PROVE task'[k[1]][k[2]] \in Terminal
    <3>1. PICK c \in Batches, d \in Devices : k = <<c, d>>
      BY <2>0
    <3>2. task[c][d] \in Terminal
      BY <3>1 DEF CountInv, UncountedEnded
    <3>3. c # b
      BY <1>7, <3>2 DEF Terminal
    <3> QED BY <1>5, <3>1, <3>2, <3>3
  <2> QED BY <2>1 DEF UncountedEnded
<1>10. CountedOnce'
  <2>1. CountsEnded
    BY CountedOnceEnded DEF CountInv
  <2>2. ASSUME NEW c \in Created', NEW r \in Terminal
        PROVE  Ended(c, r)' = IF c = b THEN {} ELSE Ended(c, r)
    <3>1. CASE c = b
      <4>1. \A d \in Devices : task'[b][d] # r
        BY <1>4, <1>5 DEF Terminal
      <4> QED BY <3>1, <4>1 DEF Ended
    <3>2. CASE c # b
      BY <1>5, <1>6, <3>2 DEF Ended
    <3> QED BY <3>1, <3>2
  <2>3. CountsEnded'
    <3>1. ASSUME NEW c \in Created'
          PROVE  /\ batch'[c].ok = Cardinality(Ended(c, "success")')
                 /\ batch'[c].fail = Cardinality(Ended(c, "failed")')
      <4>1. CASE c = b
        BY <1>1, <1>2, <2>2, <4>1, FS_EmptySet DEF Terminal
      <4>2. CASE c # b
        BY <1>2, <1>6, <2>1, <2>2, <4>2 DEF CountsEnded, Terminal
      <4> QED BY <4>1, <4>2
    <3> QED BY <3>1 DEF CountsEnded
  <2> QED BY <2>3, CountedOnceEnded
<1>11. FuseHolds'
  <2>1. ~ ShouldFuseAbs(0, 0)
    BY OTAConstants DEF ShouldFuseAbs, ShouldFuse
  <2> QED BY <1>1, <1>2, <1>6, <2>1 DEF CountInv, FuseHolds
<1>12. Sent'
  BY <1>6 DEF CountInv, Sent
<1> QED BY <1>8, <1>9, <1>10, <1>11, <1>12 DEF CountInv

LEMMA CreateStep ==
    ASSUME OTAInv, \/ \E a \in Admins : CreateCommit(a)
                   \/ \E p \in Batches, s \in 1 .. LastStage, T \in (SUBSET KnownDevices) \ {{}} : CreateSub(p, s, T)
    PROVE  OTAInv'
<1>0. TypeOK /\ StageInv /\ CountInv
  BY DEF OTAInv
<1>1. ASSUME NEW a \in Admins, CreateCommit(a) PROVE OTAInv'
  <2>1. PICK v : v = IF adm[a].from = 0 THEN NoAdm ELSE [NoAdm EXCEPT !.pc = "complete", !.from = adm[a].from]
    OBVIOUS
  <2>2. adm[a] \in AdmRec /\ NoAdm \in AdmRec
    BY <1>0, Facts DEF NoAdm, AdmRec
  <2>3. v \in AdmRec /\ v.pc \in {"idle", "complete"} /\ (v.pc = "complete" => v.from # 0)
    BY <2>1, <2>2 DEF AdmRec, NoAdm
  <2>4. /\ adm[a].pc = "sampled" /\ NewBatch(adm[a].id, adm[a].stage, 0, adm[a].targets)
        /\ adm' = [adm EXCEPT ![a] = v]
        /\ UNCHANGED <<sampling, reqs, nb, old, cmds, disp, sweep, resumed, uncounted>>
    BY <1>1, <2>1 DEF CreateCommit
  <2>5. StageInv'
    BY <1>0, <2>3, <2>4, CommitStep
  <2>6. adm[a].id \in 1 .. nb /\ adm[a].id \notin Created /\ adm[a].id \in Batches
    BY <1>0, <2>4, Facts DEF StageInv, IdsUnique, Holding, Batches
  <2>7. adm[a].stage \in 0 .. LastStage /\ 0 \in 0 .. MaxBatches /\ nb' \in nb .. MaxBatches /\ adm[a].id \in 1 .. nb'
    BY <1>0, <2>2, <2>4, <2>6, Facts DEF AdmRec
  <2>8. adm' \in [Admins -> AdmRec]
    BY <1>0, <2>3, <2>4, Facts
  <2>9. TypeOK' /\ CountInv'
    BY <1>0, <2>4, <2>6, <2>7, <2>8, NewRow
  <2> QED BY <2>5, <2>9 DEF OTAInv
<1>2. ASSUME NEW p \in Batches, NEW s \in 1 .. LastStage, NEW T, CreateSub(p, s, T) PROVE OTAInv'
  <2>1. StageInv'
    BY <1>0, <1>2, SubStep
  <2>2. PICK b : b = nb + 1
    OBVIOUS
  <2>3. /\ nb < MaxBatches /\ nb' = b /\ NewBatch(b, s, p, T)
        /\ UNCHANGED <<sampling, adm, reqs, old, cmds, disp, sweep, resumed, uncounted>>
    BY <1>2, <2>2 DEF CreateSub
  <2>4. /\ b \in Batches /\ b \notin Created /\ b \in 1 .. nb' /\ nb' \in nb .. MaxBatches
        /\ s \in 0 .. LastStage /\ p \in 0 .. MaxBatches
    BY <1>0, <2>2, <2>3, Facts DEF Batches
  <2>5. adm' \in [Admins -> AdmRec]
    BY <1>0, <2>3, Facts
  <2>6. TypeOK' /\ CountInv'
    BY <1>0, <2>3, <2>4, <2>5, NewRow
  <2> QED BY <2>1, <2>6 DEF OTAInv
<1> QED BY <1>1, <1>2

\* An operator, or the last statement of Advance, changes one batch's status.
LEMMA StatusStep ==
    ASSUME OTAInv, NEW b \in Created, NEW st \in {"running", "paused", "completed"},
           batch' = [batch EXCEPT ![b].status = st],
           st = "running" /\ ShouldFuseAbs(batch[b].ok, batch[b].fail) => b \in resumed',
           resumed \subseteq resumed', resumed' \subseteq resumed \cup {b},
           adm' \in [Admins -> AdmRec], \A a \in Admins : adm'[a] = adm[a] \/ adm'[a].pc = "idle",
           UNCHANGED <<sampling, nb, task, old, cmds, reqs, disp, sweep, uncounted>>
    PROVE  OTAInv'
<1>0. TypeOK /\ StageInv /\ CountInv /\ b \in Batches /\ batch[b].status # "none"
  BY Facts DEF OTAInv, Created
<1>1. /\ batch' \in [Batches -> BatchRec]
      /\ \A c \in Batches : /\ c # b => batch'[c] = batch[c]
                            /\ batch'[c].ok = batch[c].ok /\ batch'[c].fail = batch[c].fail
                            /\ batch'[c].stage = batch[c].stage /\ batch'[c].parent = batch[c].parent
      /\ batch'[b].status = st
  BY <1>0, Facts DEF BatchRec
<1>2. SameRows
  BY <1>0, <1>1 DEF SameRows, SameBatches, SameTasks
<1>3. StageInv' /\ Created' = Created
  BY <1>0, <1>2, SameStages, SameSets
<1>4. TypeOK'
  <2>1. /\ task' \in [Batches -> [Devices -> Status]] /\ resumed' \subseteq Created
        /\ disp' \in [Dispatchers -> DispRec]
    BY <1>0, Facts DEF TypeOK
  <2> QED BY <1>0, <1>1, <1>3, <2>1, TypesKept DEF TypeOK, Is
<1>5. UncountedEnded' /\ CountedOnce' /\ FuseHolds'
  <2>1. Created \subseteq Batches
    BY <1>0, Facts
  <2> QED BY <1>0, <1>1, <1>3, <2>1, CountsKept DEF CountInv
<1>6. Sent'
  BY <1>0, <1>3 DEF CountInv, Sent
<1> QED BY <1>3, <1>4, <1>5, <1>6 DEF OTAInv, CountInv

LEMMA OperatorStep ==
    ASSUME OTAInv, (\E b \in Batches : Pause(b) \/ Resume(b)) \/ \E a \in Admins : AdvanceComplete(a)
    PROVE  OTAInv'
<1>0. TypeOK /\ StageInv /\ adm \in [Admins -> AdmRec]
  BY Facts DEF OTAInv
<1>1. ASSUME NEW b \in Batches, Pause(b) PROVE OTAInv'
  <2>1. /\ b \in Created /\ batch' = [batch EXCEPT ![b].status = "paused"]
        /\ UNCHANGED <<sampling, nb, task, old, cmds, adm, reqs, disp, sweep, resumed, uncounted>>
    BY <1>1 DEF Pause
  <2> QED BY <1>0, <2>1, StatusStep
<1>2. ASSUME NEW b \in Batches, Resume(b) PROVE OTAInv'
  <2>1. /\ b \in Created /\ batch' = [batch EXCEPT ![b].status = "running"]
        /\ ShouldFuseAbs(batch[b].ok, batch[b].fail) => b \in resumed'
        /\ resumed \subseteq resumed' /\ resumed' \subseteq resumed \cup {b}
        /\ UNCHANGED <<sampling, nb, task, old, cmds, adm, reqs, disp, sweep, uncounted>>
    BY <1>2 DEF Resume
  <2> QED BY <1>0, <2>1, StatusStep
<1>3. ASSUME NEW a \in Admins, AdvanceComplete(a) PROVE OTAInv'
  <2>1. PICK b : b = adm[a].from
    OBVIOUS
  <2>2. /\ adm[a].pc = "complete" /\ adm' = [adm EXCEPT ![a] = NoAdm]
        /\ UNCHANGED <<sampling, reqs, nb, task, old, cmds, disp, sweep, resumed, uncounted>>
    BY <1>3 DEF AdvanceComplete
  <2>3. NoAdm \in AdmRec /\ NoAdm.pc = "idle" /\ adm[a] # NoAdm
    <3>1. NoAdm \in AdmRec
      BY OTAConstants DEF NoAdm, AdmRec
    <3> QED BY <2>2, <3>1 DEF NoAdm
  <2>4. CASE batch' = batch
    <3>1. RequestFails(a)
      BY <2>2, <2>3, <2>4 DEF RequestFails
    <3> QED BY <3>1, RequestStep
  <2>5. CASE batch[b].status \in {"running", "paused"} /\ batch' = [batch EXCEPT ![b].status = "completed"]
    <3>1. b \in Batches
      <4>1. b \in 0 .. MaxBatches /\ b # 0
        BY <1>0, <2>1, <2>2, Facts DEF AdmRec, StageInv, RowsHeld
      <4> QED BY <4>1, OTAConstants DEF Batches
    <3>2. b \in Created
      BY <2>5, <3>1 DEF Created
    <3>3. adm' \in [Admins -> AdmRec] /\ \A c \in Admins : adm'[c] = adm[c] \/ adm'[c].pc = "idle"
      BY <1>0, <2>2, <2>3
    <3> QED BY <2>2, <2>5, <3>2, <3>3, StatusStep
  <2> QED BY <1>3, <2>1, <2>4, <2>5 DEF AdvanceComplete
<1> QED BY <1>1, <1>2, <1>3

\* Steps that leave the batches, the requests and what has ended alone.
LEMMA QuietStep ==
    ASSUME OTAInv, task' \in [Batches -> [Devices -> Status]], SameTasks,
           \A b \in Batches, d \in Devices : /\ \A ph \in Terminal : task'[b][d] = ph <=> task[b][d] = ph
                                             /\ task'[b][d] \in Mid \cup Terminal => <<b, d>> \in cmds',
           disp' \in [Dispatchers -> DispRec], Sent',
           old' \subseteq Batches \X Devices, cmds' \subseteq Batches \X Devices, sweep' \subseteq Batches \X Devices,
           UNCHANGED <<sampling, nb, batch, adm, reqs, resumed, uncounted>>
    PROVE  OTAInv'
<1>0. TypeOK /\ StageInv /\ CountInv /\ adm' \in [Admins -> AdmRec] /\ batch' \in [Batches -> BatchRec]
  BY Facts DEF OTAInv
<1>1. SameRows
  BY DEF SameRows, SameBatches
<1>2. StageInv' /\ Created' = Created
  BY <1>0, <1>1, SameStages, SameSets
<1>3. TypeOK'
  <2>1. resumed' \subseteq Created /\ uncounted' \subseteq Batches \X Devices
    BY <1>0 DEF TypeOK
  <2>2. \A b \in Batches, d \in Devices : b \notin Created => task'[b][d] = "none"
    BY <1>0 DEF TypeOK, SameTasks
  <2> QED BY <1>0, <1>2, <2>1, <2>2, TypesKept
<1>4. UncountedEnded' /\ CountedOnce' /\ FuseHolds'
  BY <1>0, <1>2, CountsKept DEF CountInv
<1> QED BY <1>2, <1>3, <1>4 DEF OTAInv, CountInv

LEMMA DispatchStep ==
    ASSUME OTAInv, NEW p \in Dispatchers, Dispatch(p) \/ DispatchStop(p)
    PROVE  OTAInv'
<1>0. /\ TypeOK /\ CountInv /\ Sent /\ disp \in [Dispatchers -> DispRec] /\ disp[p] \in DispRec
      /\ task \in [Batches -> [Devices -> Status]] /\ Created \subseteq Batches
      /\ old \subseteq Batches \X Devices /\ cmds \subseteq Batches \X Devices /\ sweep \subseteq Batches \X Devices
  BY Facts DEF OTAInv, CountInv, TypeOK
<1>1. ASSUME NEW v \in DispRec, disp' = [disp EXCEPT ![p] = v], task' = task, old' = old, cmds \subseteq cmds',
             cmds' \subseteq Batches \X Devices,
             v.pc # "idle" => v.b \in Created,
             v.pc = "mark" => \A d \in v.dev : <<v.b, d>> \in cmds',
             UNCHANGED <<sampling, nb, batch, adm, reqs, sweep, resumed, uncounted>>
      PROVE  OTAInv'
  <2>1. disp' \in [Dispatchers -> DispRec] /\ disp'[p] = v /\ \A q \in Dispatchers : q # p => disp'[q] = disp[q]
    BY <1>0, <1>1
  <2>2. Created' = Created
    BY <1>1 DEF Created
  <2>3. Sent'
    BY <1>0, <1>1, <2>1, <2>2 DEF Sent
  <2>4. SameTasks
    BY <1>1 DEF SameTasks
  <2>5. \A b \in Batches, d \in Devices : task'[b][d] \in Mid \cup Terminal => <<b, d>> \in cmds'
    BY <1>0, <1>1 DEF TypeOK, Is
  <2> QED BY <1>0, <1>1, <2>1, <2>3, <2>4, <2>5, QuietStep
<1>2. ASSUME disp' = [disp EXCEPT ![p] = NoDisp],
             UNCHANGED <<sampling, nb, batch, task, old, cmds, adm, reqs, sweep, resumed, uncounted>>
      PROVE  OTAInv'
  <2>1. NoDisp \in DispRec /\ NoDisp.pc = "idle"
    BY OTAConstants DEF NoDisp, DispRec
  <2> QED BY <1>0, <1>1, <1>2, <2>1
<1>3. ASSUME NEW b \in Batches, DispatchRead(p, b) PROVE OTAInv'
  <2>1. PICK v : v = [pc |-> "check", b |-> b, todo |-> {d \in Devices : task[b][d] = "pending"}, dev |-> {}]
    OBVIOUS
  <2>2. v \in DispRec /\ v.pc = "check" /\ v.b = b
    <3>1. b \in 0 .. MaxBatches
      BY OTAConstants DEF Batches
    <3> QED BY <2>1, <3>1 DEF DispRec
  <2>3. /\ b \in Created /\ disp' = [disp EXCEPT ![p] = v]
        /\ UNCHANGED <<sampling, nb, batch, task, old, cmds, adm, reqs, sweep, resumed, uncounted>>
    BY <1>3, <2>1 DEF DispatchRead
  <2> QED BY <1>0, <1>1, <2>2, <2>3
<1>4. ASSUME DispatchCheck(p) PROVE OTAInv'
  <2>1. CASE disp' = [disp EXCEPT ![p] = NoDisp]
    BY <1>2, <1>4, <2>1 DEF DispatchCheck
  <2>2. CASE disp' = [disp EXCEPT ![p] = [disp[p] EXCEPT !.pc = "send"]]
    <3>1. PICK v : v = [disp[p] EXCEPT !.pc = "send"]
      OBVIOUS
    <3>2. v \in DispRec /\ v.pc = "send" /\ v.b = disp[p].b
      BY <1>0, <3>1 DEF DispRec
    <3>3. /\ disp[p].pc # "idle" /\ disp' = [disp EXCEPT ![p] = v]
          /\ UNCHANGED <<sampling, nb, batch, task, old, cmds, adm, reqs, sweep, resumed, uncounted>>
      BY <1>4, <2>2, <3>1 DEF DispatchCheck
    <3>4. disp[p].b \in Created
      BY <1>0, <3>3 DEF Sent
    <3> QED BY <1>0, <1>1, <3>2, <3>3, <3>4
  <2> QED BY <1>4, <2>1, <2>2 DEF DispatchCheck
<1>5. ASSUME NEW d \in Devices, DispatchPublish(p, d) PROVE OTAInv'
  <2>1. PICK v : v = [disp[p] EXCEPT !.pc = "mark", !.todo = disp[p].todo \ {d}, !.dev = {d}]
    OBVIOUS
  <2>2. v \in DispRec /\ v.pc = "mark" /\ v.b = disp[p].b /\ v.dev = {d}
    BY <1>0, <2>1 DEF DispRec
  <2>3. /\ disp[p].pc # "idle" /\ disp' = [disp EXCEPT ![p] = v] /\ cmds' = cmds \cup {<<disp[p].b, d>>}
        /\ UNCHANGED <<sampling, nb, batch, task, old, adm, reqs, sweep, resumed, uncounted>>
    <3>1. disp' = [disp EXCEPT ![p] = v]
      BY <1>0, <1>5, <2>1 DEF DispatchPublish, DispRec
    <3> QED BY <1>5, <3>1 DEF DispatchPublish
  <2>4. disp[p].b \in Created /\ cmds' \subseteq Batches \X Devices
    BY <1>0, <2>3 DEF Sent
  <2> QED BY <1>0, <1>1, <2>2, <2>3, <2>4
<1>6. ASSUME DispatchMark(p) PROVE OTAInv'
  <2>1. PICK d \in disp[p].dev :
          /\ task' = [task EXCEPT ![disp[p].b][d] = Notified(disp[p].b, d)]
          /\ old' = IF task[disp[p].b][d] = "pending" THEN old \ {<<disp[p].b, d>>} ELSE old
    BY <1>6 DEF DispatchMark
  <2>2. PICK b : b = disp[p].b
    OBVIOUS
  <2>3. disp[p].pc = "mark" /\ UNCHANGED <<sampling, nb, batch, cmds, adm, reqs, sweep, resumed, uncounted>>
    BY <1>6 DEF DispatchMark
  <2>4. b \in Created /\ b \in Batches /\ d \in Devices /\ <<b, d>> \in cmds
    BY <1>0, <2>2, <2>3 DEF Sent, DispRec
  <2>5. /\ task' \in [Batches -> [Devices -> Status]] /\ task'[b][d] = Notified(b, d)
        /\ \A c \in Batches, e \in Devices : c # b \/ e # d => task'[c][e] = task[c][e]
    <3>1. Notified(b, d) \in Status
      BY <1>0, <2>4 DEF Notified, Status, Mid
    <3> QED BY <1>0, <2>1, <2>2, <2>4, <3>1
  <2>6. SameTasks
    BY <2>4, <2>5 DEF SameTasks, Notified
  <2>7. \A c \in Batches, e \in Devices : /\ \A ph \in Terminal : task'[c][e] = ph <=> task[c][e] = ph
                                          /\ task'[c][e] \in Mid \cup Terminal => <<c, e>> \in cmds
    <3>1. \A c \in Batches, e \in Devices : task[c][e] \in Mid \cup Terminal => <<c, e>> \in cmds
      BY <1>0 DEF TypeOK, Is
    <3>2. \A ph \in Terminal : task'[b][d] = ph <=> task[b][d] = ph
      BY <2>5 DEF Notified, Terminal
    <3> QED BY <2>4, <2>5, <3>1, <3>2
  <2>8. PICK v : v = IF disp[p].todo = {} THEN NoDisp ELSE [disp[p] EXCEPT !.pc = "send", !.dev = {}]
    OBVIOUS
  <2>9. v \in DispRec /\ v.pc \in {"idle", "send"} /\ (v.pc = "send" => v.b = b)
    <3>1. NoDisp \in DispRec /\ NoDisp.pc = "idle"
      BY OTAConstants DEF NoDisp, DispRec
    <3> QED BY <1>0, <2>2, <2>8, <3>1 DEF DispRec
  <2>10. disp' = [disp EXCEPT ![p] = v]
    BY <1>6, <2>8 DEF DispatchMark
  <2>11. disp' \in [Dispatchers -> DispRec] /\ disp'[p] = v /\ \A q \in Dispatchers : q # p => disp'[q] = disp[q]
    BY <1>0, <2>9, <2>10
  <2>12. Created' = Created
    BY <2>3 DEF Created
  <2>13. old' \subseteq old
    BY <2>1
  <2>14. Sent'
    BY <1>0, <2>3, <2>4, <2>9, <2>11, <2>12, <2>13 DEF Sent
  <2> QED BY <1>0, <2>3, <2>5, <2>6, <2>7, <2>11, <2>13, <2>14, QuietStep
<1>7. ASSUME DispatchStop(p) PROVE OTAInv'
  BY <1>2, <1>7 DEF DispatchStop
<1> QED BY <1>3, <1>4, <1>5, <1>6, <1>7 DEF Dispatch

\* The consumer, the passing of time and the sweeper.
LEMMA ReportStep ==
    ASSUME OTAInv, \/ \E b \in Batches, d \in Devices, ph \in Mid \cup Terminal : HandleProgress(b, d, ph)
                   \/ \E b \in Batches, d \in Devices : Age(b, d)
                   \/ Sweep
    PROVE  OTAInv'
<1>0. /\ TypeOK /\ StageInv /\ CountInv /\ Sent /\ disp \in [Dispatchers -> DispRec]
      /\ task \in [Batches -> [Devices -> Status]]
      /\ old \subseteq Batches \X Devices /\ cmds \subseteq Batches \X Devices /\ sweep \subseteq Batches \X Devices
  BY Facts DEF OTAInv, CountInv, TypeOK
<1>1. ASSUME old' \subseteq cmds, sweep' \subseteq Batches \X Devices,
             UNCHANGED <<sampling, nb, batch, task, cmds, adm, reqs, disp, resumed, uncounted>>
      PROVE  OTAInv'
  <2>1. Created' = Created
    BY <1>1 DEF Created
  <2>2. Sent'
    BY <1>0, <1>1, <2>1 DEF Sent
  <2>3. SameTasks
    BY <1>1 DEF SameTasks
  <2>4. \A b \in Batches, d \in Devices : task'[b][d] \in Mid \cup Terminal => <<b, d>> \in cmds'
    BY <1>0, <1>1 DEF TypeOK, Is
  <2> QED BY <1>0, <1>1, <2>2, <2>3, <2>4, QuietStep
<1>2. ASSUME NEW b \in Batches, NEW d \in Devices, NEW ph \in Mid \cup Terminal, HandleProgress(b, d, ph)
      PROVE  OTAInv'
  BY <1>0, <1>2, PhaseStep DEF HandleProgress, OTAInv
<1>3. ASSUME NEW b \in Batches, NEW d \in Devices, Age(b, d) PROVE OTAInv'
  <2>1. <<b, d>> \in cmds
    BY <1>0, <1>3 DEF Age, TypeOK, Is
  <2>2. old' = old \cup {<<b, d>>} /\ UNCHANGED <<sampling, nb, batch, task, cmds, adm, reqs, disp, sweep, resumed, uncounted>>
    BY <1>3 DEF Age
  <2> QED BY <1>0, <1>1, <2>1, <2>2 DEF Sent
<1>4. ASSUME SweepSelect PROVE OTAInv'
  <2>1. sweep' \subseteq old /\ UNCHANGED <<sampling, nb, batch, task, old, cmds, adm, reqs, disp, resumed, uncounted>>
    BY <1>4 DEF SweepSelect, Stale
  <2> QED BY <1>0, <1>1, <2>1 DEF Sent
<1>5. ASSUME NEW b \in Batches, NEW d \in Devices, SweepApply(<<b, d>>) PROVE OTAInv'
  <2>1. sweep' \subseteq sweep /\ UNCHANGED <<sampling, nb, cmds, adm, reqs, disp, resumed>>
    BY <1>5 DEF SweepApply
  <2>2. CASE <<b, d>> \in old /\ applyPhase(b, d, "failed")
    <3>1. "failed" \in Mid \cup Terminal /\ <<b, d>> \in cmds
      BY <1>0, <2>2 DEF Terminal, Sent
    <3> QED BY <1>0, <2>1, <2>2, <3>1, PhaseStep DEF OTAInv
  <2>3. CASE UNCHANGED <<task, old, batch, uncounted>>
    BY <1>0, <1>1, <2>1, <2>3 DEF Sent
  <2> QED BY <1>5, <2>2, <2>3 DEF SweepApply
<1> QED BY <1>2, <1>3, <1>4, <1>5 DEF Sweep

-----------------------------------------------------------------------------
(* The theorems.                                                           *)

LEMMA InitHolds == Init => OTAInv
<1> SUFFICES ASSUME Init PROVE OTAInv
  OBVIOUS
<1>1. Created = {} /\ Platform = {} /\ \A b \in Batches, d \in Devices : task[b][d] = "none"
  BY DEF Init, Created, Platform
<1>2. TypeOK
  <2>1. batch \in [Batches -> BatchRec] /\ task \in [Batches -> [Devices -> Status]]
    BY OTAConstants DEF Init, BatchRec, Status
  <2>2. adm \in [Admins -> AdmRec] /\ disp \in [Dispatchers -> DispRec]
    BY OTAConstants DEF Init, AdmRec, DispRec, NoAdm, NoDisp
  <2>3. nb \in 0 .. MaxBatches /\ reqs \in 0 .. MaxRequests /\ sampling \in Samplings
    BY OTAConstants DEF Init
  <2> QED BY <1>1, <2>1, <2>2, <2>3 DEF Init, TypeOK, BatchRec, Status, AdmRec, DispRec, Is, Mid, Terminal
<1>3. StageInv
  <2>1. \A a \in Admins : adm[a].pc = "idle"
    BY DEF Init, NoAdm
  <2> QED BY <1>1, <2>1 DEF StageInv, IdsUnique, RowsHeld, Chain, Covered, Apart, Holding, Creating
<1>4. CountInv
  <2>1. \A p \in Dispatchers : disp[p].pc = "idle"
    BY DEF Init, NoDisp
  <2> QED BY <1>1, <2>1 DEF Init, CountInv, UncountedEnded, CountedOnce, FuseHolds, Sent
<1> QED BY <1>2, <1>3, <1>4 DEF OTAInv

LEMMA Inductive == OTAInv /\ [Next]_vars => OTAInv'
<1> SUFFICES ASSUME OTAInv, [Next]_vars PROVE OTAInv'
  OBVIOUS
<1>1. CASE UNCHANGED vars
  <2>1. CountInv'
    BY <1>1, CountSame DEF vars, OTAInv
  <2>2. SameRows
    BY <1>1 DEF vars, SameRows, SameBatches, SameTasks
  <2>3. StageInv'
    BY <1>1, <2>2, SameStages DEF vars, OTAInv
  <2>4. Created' = Created
    BY <2>2, SameSets
  <2>5. TypeOK'
    BY <1>1, <2>4 DEF vars, OTAInv, TypeOK, Is
  <2> QED BY <2>1, <2>3, <2>5 DEF OTAInv
<1>2. CASE Next
  BY <1>2, RequestStep, InsertSampleStep, CreateStep, OperatorStep, DispatchStep, ReportStep DEF Next
<1> QED BY <1>1, <1>2

THEOREM InvariantHolds == Spec => []OTAInv
  BY InitHolds, Inductive, PTL DEF Spec

\* Rows, locals and histories keep their shapes, and no task leaves "pending"
\* before its command was published (DispatchOnce).
THEOREM TypeCorrect == Spec => []TypeOK
<1>1. OTAInv => TypeOK
  BY DEF OTAInv
<1> QED BY <1>1, InvariantHolds, PTL

\* applyPhase counts every ended task once in its batch, or in no batch that
\* does not count, whatever is redelivered, reordered or swept meanwhile.
THEOREM EachTaskCountsOnce == Spec => []CountedOnce
<1>1. OTAInv => CountedOnce
  BY DEF OTAInv, CountInv
<1> QED BY <1>1, InvariantHolds, PTL

\* A batch over its threshold runs only if an operator resumed it.
THEOREM FuseStands == Spec => []FuseHolds
<1>1. OTAInv => FuseHolds
  BY DEF OTAInv, CountInv
<1> QED BY <1>1, InvariantHolds, PTL

\* CreateBatch: however many operators ask at once, stages follow each other
\* and devices are sampled once but for the races StagesInOrder names.
THEOREM StagesFollow == Spec => []StagesInOrder
<1>1. OTAInv => StagesInOrder
  BY DEF OTAInv, StageInv, Chain, Apart, StagesInOrder
<1> QED BY <1>1, InvariantHolds, PTL
=============================================================================
