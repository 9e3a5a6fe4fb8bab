------------------------------- MODULE CF001 -------------------------------
(***************************************************************************)
(* cf001-svc (internal/cf001): activation of OEM devices. A sign request   *)
(* passes the nonce check in Redis, looks its digest up, and otherwise     *)
(* runs one PostgreSQL transaction: take one unit of the order's quota,    *)
(* draw the day's next serial number from Redis, insert the digest_maps    *)
(* and oem_devices rows.                                                   *)
(*                                                                         *)
(* A request's statements are steps of their own; what an open transaction *)
(* wrote is in its request's record until Commit, and is guarded by the    *)
(* row lock on the order and the unique indexes, as in PostgreSQL. The SN  *)
(* is abstracted to the day's serial number modulo SeqMod: product prefix, *)
(* date and line are equal for the requests that can collide.              *)
(***************************************************************************)
EXTENDS Integers, FiniteSets

CONSTANTS
    Requests,     \* HTTP requests in flight (each handles one payload at a time)
    Orders, Digests, Nonces,
    None,         \* no row, no value
    SeqMod,       \* numbers a serial-number field can hold (10^9)
    Deltas,       \* quotas of CreateQuota and deltas of AppendQuota
    MaxQuota,     \* bound: no order grows beyond it
    MaxFaults     \* bound: failed statements, lost answers, Redis resets

ASSUME CF001Constants ==
    /\ None \notin Orders \cup Digests
    /\ SeqMod \in Nat \ {0}
    /\ Deltas \subseteq Nat
    /\ MaxQuota \in Nat /\ MaxFaults \in Nat

VARIABLES
    quotas,    \* cf001.oem_quotas: [quota, registered, status], status 0 = no row
    maps,      \* cf001.digest_maps: rows [digest, sn, order]
    devices,   \* cf001.oem_devices: rows [sn, digest]
    nonces,    \* live cf001:nonce keys
    seq,       \* sn:seq:{day}
    req,       \* req[r]: the request's locals
    answers,   \* history: the (digest, sn) pairs devices were answered with
    faults

vars == <<quotas, maps, devices, nonces, seq, req, answers, faults>>

SNs == 0 .. SeqMod - 1
NoReq == [pc |-> "idle", order |-> None, digest |-> None, sn |-> 0]
PCs == {"lookup", "quota", "seq", "map", "relookup", "device", "commit"}

\* The phases in which a request's transaction is open and holds the row lock
\* of its order; those in which it has also inserted its digest_maps row.
InTx(r) == req[r].pc \in {"seq", "map", "device", "commit"}
HasMapRow(r) == req[r].pc \in {"device", "commit"}

Init ==
    /\ quotas = [o \in Orders |-> [quota |-> 0, registered |-> 0, status |-> 0]]
    /\ maps = {} /\ devices = {} /\ nonces = {}
    /\ seq = 0
    /\ req = [r \in Requests |-> NoReq]
    /\ answers = {}
    /\ faults = 0

Fault == faults < MaxFaults /\ faults' = faults + 1
Goto(r, pc) == req' = [req EXCEPT ![r].pc = pc]
\* Any return; leaving the transaction uncommitted rolls it back.
Return(r) == req' = [req EXCEPT ![r] = NoReq]

Locked(o) == \E r \in Requests : InTx(r) /\ req[r].order = o

-----------------------------------------------------------------------------
(* Quotas.                                                                 *)

CreateQuota(o, n) ==
    /\ quotas[o].status = 0 /\ n <= MaxQuota
    /\ quotas' = [quotas EXCEPT ![o] = [quota |-> n, registered |-> 0, status |-> 1]]
    /\ UNCHANGED <<maps, devices, nonces, seq, req, answers, faults>>

\* The UPDATE waits for the row lock; it also reopens a finished order.
AppendQuota(o, n) ==
    /\ quotas[o].status # 0 /\ n > 0 /\ quotas[o].quota + n <= MaxQuota
    /\ ~ Locked(o)
    /\ quotas' = [quotas EXCEPT ![o] = [quota |-> @.quota + n, registered |-> @.registered, status |-> 1]]
    /\ UNCHANGED <<maps, devices, nonces, seq, req, answers, faults>>

-----------------------------------------------------------------------------
(* Sign.                                                                   *)

\* checkReplay accepts the payload: its timestamp is fresh and its nonce new.
\* Stale, replayed and unverifiable payloads are refused before any database
\* access, without a change of state.
Accept(r, o, d, n) ==
    /\ req[r] = NoReq
    /\ n \notin nonces
    /\ nonces' = nonces \cup {n}
    /\ req' = [req EXCEPT ![r] = [pc |-> "lookup", order |-> o, digest |-> d, sn |-> 0]]
    /\ UNCHANGED <<quotas, maps, devices, seq, answers, faults>>

Existing(d) == {m \in maps : m.digest = d}

\* The digest is registered: its SN is returned again and no quota is used.
LookupHit(r) ==
    /\ req[r].pc \in {"lookup", "relookup"}
    /\ \E m \in Existing(req[r].digest) : answers' = answers \cup {<<m.digest, m.sn>>}
    /\ Return(r)
    /\ UNCHANGED <<quotas, maps, devices, nonces, seq, faults>>

LookupMiss(r) ==
    /\ req[r].pc = "lookup"
    /\ Existing(req[r].digest) = {}
    /\ Goto(r, "quota")
    /\ UNCHANGED <<quotas, maps, devices, nonces, seq, answers, faults>>

AvailableUpTo(o) == quotas[o].status = 1 /\ quotas[o].registered <= quotas[o].quota

\* UPDATE ... WHERE status = 1 AND registered < quota, evaluated once the row
\* lock is free.
Available(o) == quotas[o].status = 1 /\ quotas[o].registered < quotas[o].quota

TakeQuota(r) ==
    /\ req[r].pc = "quota"
    /\ ~ Locked(req[r].order)
    /\ Available(req[r].order)
    /\ Goto(r, "seq")
    /\ UNCHANGED <<quotas, maps, devices, nonces, seq, answers, faults>>

\* No row updated: ErrNoQuota.
NoQuota(r) ==
    /\ req[r].pc = "quota"
    /\ ~ Locked(req[r].order)
    /\ ~ Available(req[r].order)
    /\ Return(r)
    /\ UNCHANGED <<quotas, maps, devices, nonces, seq, answers, faults>>

\* INCR sn:seq:{day}, then BuildSN and the signature. INCR is not undone by a
\* rollback. (The key's value is bounded here by wrapping with the SN.)
NextSeq(r) ==
    /\ req[r].pc = "seq"
    /\ seq' = (seq + 1) % SeqMod
    /\ req' = [req EXCEPT ![r].pc = "map", ![r].sn = seq']
    /\ UNCHANGED <<quotas, maps, devices, nonces, answers, faults>>

\* A unique index makes an insert wait for another transaction's uncommitted
\* row with the same key.
MapKeyPending(r) ==
    \E q \in Requests \ {r} :
        HasMapRow(q) /\ (req[q].digest = req[r].digest \/ req[q].sn = req[r].sn)
MapKeyTaken(r) ==
    \E m \in maps : m.digest = req[r].digest \/ m.sn = req[r].sn

InsertMapDigestOnly(r) ==
    /\ req[r].pc = "map"
    /\ ~ \E m \in maps : m.digest = req[r].digest
    /\ Goto(r, "device")
    /\ UNCHANGED <<quotas, maps, devices, nonces, seq, answers, faults>>

InsertMap(r) ==
    /\ req[r].pc = "map"
    /\ ~ MapKeyPending(r) /\ ~ MapKeyTaken(r)
    /\ Goto(r, "device")
    /\ UNCHANGED <<quotas, maps, devices, nonces, seq, answers, faults>>

\* 23505: roll back, then look the digest up again.
InsertMapDuplicate(r) ==
    /\ req[r].pc = "map"
    /\ ~ MapKeyPending(r) /\ MapKeyTaken(r)
    /\ Goto(r, "relookup")
    /\ UNCHANGED <<quotas, maps, devices, nonces, seq, answers, faults>>

\* The duplicate key was the SN, not the digest: ErrConflict.
RelookupMiss(r) ==
    /\ req[r].pc = "relookup"
    /\ Existing(req[r].digest) = {}
    /\ Return(r)
    /\ UNCHANGED <<quotas, maps, devices, nonces, seq, answers, faults>>

\* The primary key of oem_devices refuses a used SN: error, rollback.
InsertDevice(r) ==
    /\ req[r].pc = "device"
    /\ IF \E d \in devices : d.sn = req[r].sn THEN Return(r) ELSE Goto(r, "commit")
    /\ UNCHANGED <<quotas, maps, devices, nonces, seq, answers, faults>>

\* The row the quota UPDATE leaves behind.
Registered(q) ==
    [quota |-> q.quota, registered |-> q.registered + 1,
     status |-> IF q.registered + 1 >= q.quota THEN 2 ELSE q.status]

CommitEffect(r) ==
    /\ quotas' = [quotas EXCEPT ![req[r].order] = Registered(@)]
    /\ maps' = maps \cup {[digest |-> req[r].digest, sn |-> req[r].sn, order |-> req[r].order]}
    /\ devices' = devices \cup {[sn |-> req[r].sn, digest |-> req[r].digest]}

Commit(r) ==
    /\ req[r].pc = "commit"
    /\ CommitEffect(r)
    /\ answers' = answers \cup {<<req[r].digest, req[r].sn>>}
    /\ Return(r)
    /\ UNCHANGED <<nonces, seq, faults>>

\* The commit takes place but the answer is lost: the device asks again with a
\* new nonce.
CommitAnswerLost(r) ==
    /\ req[r].pc = "commit"
    /\ Fault
    /\ CommitEffect(r)
    /\ Return(r)
    /\ UNCHANGED <<nonces, seq, answers>>

\* A statement fails, or the process dies: the transaction is rolled back.
Fail(r) ==
    /\ req[r].pc # "idle"
    /\ Fault
    /\ Return(r)
    /\ UNCHANGED <<quotas, maps, devices, nonces, seq, answers>>

\* Redis loses its data: the day's numbers start again and nonces are forgotten.
RedisReset ==
    /\ Fault
    /\ seq' = 0
    /\ nonces' = {}
    /\ UNCHANGED <<quotas, maps, devices, req, answers>>

-----------------------------------------------------------------------------
Next ==
    \/ \E o \in Orders, n \in Deltas : CreateQuota(o, n) \/ AppendQuota(o, n)
    \/ \E r \in Requests, o \in Orders, d \in Digests, n \in Nonces : Accept(r, o, d, n)
    \/ \E r \in Requests :
         \/ LookupHit(r) \/ LookupMiss(r) \/ TakeQuota(r) \/ NoQuota(r) \/ NextSeq(r)
         \/ InsertMap(r) \/ InsertMapDuplicate(r) \/ RelookupMiss(r)
         \/ InsertDevice(r) \/ Commit(r) \/ CommitAnswerLost(r) \/ Fail(r)
    \/ RedisReset

Spec == Init /\ [][Next]_vars

-----------------------------------------------------------------------------
(* Properties.                                                             *)

\* Types: a request past the nonce check carries its order and digest, and its
\* order exists once it holds quota.
TypeOK ==
    /\ quotas \in [Orders -> [quota : 0 .. MaxQuota, registered : Nat, status : 0 .. 2]]
    /\ maps \subseteq [digest : Digests, sn : SNs, order : Orders]
    /\ devices \subseteq [sn : SNs, digest : Digests]
    /\ nonces \subseteq Nonces
    /\ seq \in SNs
    /\ req \in [Requests -> [pc : PCs, order : Orders, digest : Digests, sn : SNs] \cup {NoReq}]
    /\ \A r \in Requests : InTx(r) => quotas[req[r].order].status # 0
    /\ answers \subseteq Digests \X SNs
    /\ faults \in 0 .. MaxFaults

\* service.go, the conditional UPDATE: an order is never oversold, its counter
\* is exactly the number of devices registered under it, and it is marked
\* finished (status 2) only when it is full; requests on one order that race
\* each other, and AppendQuota, do not break this.
QuotaExact ==
    \A o \in Orders :
        /\ quotas[o].registered <= quotas[o].quota
        /\ quotas[o].registered = Cardinality({m \in maps : m.order = o})
        /\ quotas[o].status = 2 => quotas[o].registered = quotas[o].quota

\* While an order has an open transaction, one more unit is free for it.
OpenTxHasQuota ==
    \A r \in Requests : InTx(r) => Available(req[r].order)

\* A device has one SN and an SN one device: rows of digest_maps and
\* oem_devices match one to one, also when requests for one digest race, when
\* the counter restarts after Redis lost its data, or wraps.
SNUnique ==
    /\ \A m1, m2 \in maps : m1.digest = m2.digest \/ m1.sn = m2.sn => m1 = m2
    /\ devices = {[sn |-> m.sn, digest |-> m.digest] : m \in maps}

\* Every answer a device ever got, by a fresh registration or a repeated
\* request after a lost answer, names the SN the database holds for it.
AnswersStable ==
    \A a \in answers : \E m \in maps : a = <<m.digest, m.sn>>

\* A repeated sign request costs nothing: a step that adds no new device
\* changes no order's registered count, and one that does adds exactly one.
OneUnitPerDevice ==
    [][\A o \in Orders :
         quotas'[o].registered - quotas[o].registered =
             Cardinality({m \in maps' \ maps : m.order = o})]_vars

\* Sign promises what Activation says: however requests, retries, rollbacks and
\* a restarted counter interleave, every commit is one activation under an order
\* with a unit left and a new SN, and every other step shows nothing outside but
\* a grant or the answer the device already had (service.go sign).
Act == INSTANCE Activation WITH left <- [o \in Orders |-> quotas[o].quota - quotas[o].registered],
                                rows <- maps, told <- answers
ImplementsActivation == Act!Spec
=============================================================================
