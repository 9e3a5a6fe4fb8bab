------------------------------ MODULE Pipeline ------------------------------
(***************************************************************************)
(* One worker of the consuming pipeline (internal/pipeline): it pulls a    *)
(* cell's durable consumer, takes a dedupe key per (sn, seq), collects     *)
(* telemetry into batches that flushers write to TDengine and the Redis    *)
(* shadow, and acknowledges.  A failed write naks and frees the keys.      *)
(*                                                                         *)
(* The stream is what the bridge published, copies included: any of a set  *)
(* of sequences of one length.                                             *)
(* A payload is reduced to its kind, device, seq, ts and one attribute     *)
(* standing for the unmodelled scalars ("extras"); 0 is "not carried".     *)
(***************************************************************************)
EXTENDS Integers, Sequences, SequencesExt, FiniteSets

CONSTANTS
  Streams,     \* contents of IOT_UP for this cell: sequences of
               \* [kind, sn, seq, ts, attr]
  StreamLen,   \* their length
  BatchSize,   \* Config.BatchSize: batch limit and capacity of channel in
  Flushers,    \* the flusher goroutines; batches has one slot per flusher
  FaultKinds,  \* which faults may happen, of AllFaults
  MaxFaults    \* bound: how many faults happen in one behaviour

AllFaults == {"td", "redis", "dlq", "ackwait", "acklost", "crash", "stop"}
Kinds == {"telemetry", "event", "cmd_ack", "ota_progress", "poison"}

ASSUME PipelineAssumption ==
  /\ StreamLen \in Nat
  /\ \A st \in Streams :
       /\ DOMAIN st = 1..StreamLen
       /\ \A i \in DOMAIN st : st[i].kind \in Kinds /\ st[i].ts \in Nat \ {0} /\ st[i].seq \in Nat \ {0}
       \* one counter numbers all of a device's messages; poison has no seq and
       \* stands under one of its own
       /\ \A i, j \in DOMAIN st :
            st[i].sn = st[j].sn /\ st[i].seq = st[j].seq => st[i].kind = st[j].kind
  /\ BatchSize \in Nat \ {0} /\ MaxFaults \in Nat
  /\ FaultKinds \subseteq AllFaults
  /\ IsFiniteSet(Flushers) /\ Flushers # {}

VARIABLES
  stream,     \* what IOT_UP holds for this cell; never changes
  cons,       \* the durable consumer: delivery state of each stream entry
  keys,       \* dedupe keys present in Redis
  cur,        \* the entry the consume goroutine is busy with: [pc, e]
  in,         \* channel in
  batch,      \* the Batcher
  batches,    \* channel batches
  fl,         \* each flusher: [stage, items]
  rows,       \* dedupe keys of the rows in TDengine (telemetry and events)
  reported,   \* shadow:{sn} in Redis: [ts, attr] of what was written last
  cmdres,     \* keys of the acks stored under cmdres:{cmd_id}
  dlq,        \* poison entries published to IOT_DLQ
  stopping,   \* ctx cancelled: consume has returned, the rest drains
  faults,     \* faults so far
  orphaned,   \* history: keys left behind by a crash, by a failed DEL, or
              \* freed for an entry that a redelivery had already acked
  overtaken   \* history: devices whose telemetry was delivered again, flushed
              \* by two flushers at once, or written without its shadow

Entries == 1..StreamLen
SNs == {st[e].sn : st \in Streams, e \in Entries}
Key(e) == <<stream[e].sn, stream[e].seq>>
AllKeys == {Key(e) : e \in Entries}
KeysOf(items) == {Key(e) : e \in ToSet(items)}
SNsOf(items) == {stream[e].sn : e \in ToSet(items)}

vars == <<stream, cons, keys, cur, in, batch, batches, fl, rows, reported, cmdres, dlq,
          stopping, faults, orphaned, overtaken>>
memVars == <<in, batch, batches, fl>>
storeVars == <<rows, reported, cmdres, dlq>>

IdleCur == [pc |-> "idle"]
IdleFlusher == [stage |-> "idle", items |-> <<>>]
Fresh == [ts |-> 0, attr |-> 0]

TypeOK ==
  /\ stream \in Streams
  /\ cons \in [Entries -> {"new", "inflight", "redeliver", "acked"}]
  /\ keys \subseteq AllKeys
  /\ cur \in {IdleCur} \cup [pc : {"insert", "shadow", "cmdres"}, e : Entries]
  /\ in \in BoundedSeq(Entries, BatchSize)
  /\ batch \in BoundedSeq(Entries, BatchSize)
  /\ batches \in BoundedSeq(BoundedSeq(Entries, BatchSize), Cardinality(Flushers))
  /\ fl \in [Flushers -> [stage : {"idle", "insert", "shadow"},
                          items : BoundedSeq(Entries, BatchSize)]]
  /\ rows \subseteq AllKeys /\ cmdres \subseteq AllKeys /\ orphaned \subseteq AllKeys
  /\ overtaken \subseteq SNs
  /\ DOMAIN reported = SNs
  /\ dlq \subseteq Entries
  /\ stopping \in BOOLEAN
  /\ faults \in 0..MaxFaults

Init ==
  /\ stream \in Streams
  /\ cons = [e \in Entries |-> "new"]
  /\ keys = {} /\ cur = IdleCur /\ in = <<>> /\ batch = <<>> /\ batches = <<>>
  /\ fl = [f \in Flushers |-> IdleFlusher]
  /\ rows = {} /\ cmdres = {} /\ dlq = {}
  /\ reported = [sn \in SNs |-> Fresh]
  /\ stopping = FALSE /\ faults = 0 /\ orphaned = {} /\ overtaken = {}

Fault(k) == k \in FaultKinds /\ faults < MaxFaults /\ faults' = faults + 1
NoFault == UNCHANGED faults

(* Entries the process holds a copy of. *)
Held == ToSet(in) \cup ToSet(batch)
          \cup (UNION {ToSet(batches[i]) : i \in DOMAIN batches})
          \cup (UNION {ToSet(fl[f].items) : f \in Flushers})
          \cup (IF cur.pc = "idle" THEN {} ELSE {cur.e})

-----------------------------------------------------------------------------
(* JetStream (external). *)

(* Acks of a set of entries; some of them may not reach the server. *)
AckAll(es) ==
  \/ cons' = [e \in Entries |-> IF e \in es THEN "acked" ELSE cons[e]] /\ NoFault
  \/ /\ Fault("acklost")
     /\ \E lost \in (SUBSET es) \ {{}} :
          cons' = [e \in Entries |-> IF e \in es \ lost THEN "acked" ELSE cons[e]]

(* The first delivery follows the stream order; redeliveries come any time. *)
Deliverable(e) ==
  \/ cons[e] = "redeliver"
  \/ cons[e] = "new" /\ \A d \in Entries : d < e => cons[d] # "new"

(* AckWait (30 s) runs out.  For an entry the process still holds this is a
   fault: the batch was stuck behind a slow flush.                           *)
AckWaitExpires(e) ==
  /\ cons[e] = "inflight"
  /\ IF e \in Held THEN Fault("ackwait") ELSE NoFault
  /\ cons' = [cons EXCEPT ![e] = "redeliver"]
  /\ UNCHANGED <<keys, cur, stream, stopping, orphaned, overtaken>>
  /\ UNCHANGED memVars /\ UNCHANGED storeVars

(* A dedupe key lives 600 s, far longer than the process holds an entry. *)
KeyExpires(k) ==
  /\ k \in keys \ {Key(e) : e \in Held}
  /\ keys' = keys \ {k}
  /\ UNCHANGED <<cons, cur, stream, stopping, faults, orphaned, overtaken>>
  /\ UNCHANGED memVars /\ UNCHANGED storeVars

-----------------------------------------------------------------------------
(* Mutant: the keys are not freed. *)
NakAllKeepsKeys(items) ==
  /\ cons' = [e \in Entries |-> IF e \in ToSet(items) /\ cons[e] # "acked"
                                  THEN "redeliver" ELSE cons[e]]
  /\ UNCHANGED <<keys, orphaned>>

(* nakAll: free the dedupe keys, then nak; a nak of an entry that is already
   acked has no effect.  DEL may fail: then the redelivery looks like a dup. *)
NakAll(items) ==
  LET es == ToSet(items)
      ks == KeysOf(items)
      gone == {Key(e) : e \in {d \in es : cons[d] = "acked"}}
  IN /\ cons' = [e \in Entries |-> IF e \in es /\ cons[e] # "acked"
                                     THEN "redeliver" ELSE cons[e]]
     /\ \/ /\ keys' = keys \ ks
           /\ orphaned' = orphaned \cup gone
        \/ /\ "redis" \in FaultKinds
           /\ UNCHANGED keys
           /\ orphaned' = orphaned \cup gone \cup (ks \cap keys)

(* process, up to the dispatch.  A poison message goes to the DLQ and is
   acked, or is nak'd when that fails; ota_progress is acked at once.        *)
ProcessPoison(e) ==
  /\ ~stopping /\ cur.pc = "idle" /\ Deliverable(e) /\ stream[e].kind = "poison"
  /\ \/ /\ dlq' = dlq \cup {e}
        /\ \/ cons' = [cons EXCEPT ![e] = "acked"] /\ NoFault
           \/ cons' = [cons EXCEPT ![e] = "inflight"] /\ Fault("acklost")
     \/ /\ Fault("dlq")
        /\ cons' = [cons EXCEPT ![e] = "redeliver"]
        /\ UNCHANGED dlq
  /\ UNCHANGED <<keys, cur, stream, stopping, orphaned, overtaken, rows, reported, cmdres>>
  /\ UNCHANGED memVars

ProcessOta(e) ==
  /\ ~stopping /\ cur.pc = "idle" /\ Deliverable(e) /\ stream[e].kind = "ota_progress"
  /\ \/ cons' = [cons EXCEPT ![e] = "acked"] /\ NoFault
     \/ cons' = [cons EXCEPT ![e] = "inflight"] /\ Fault("acklost")
  /\ UNCHANGED <<keys, cur, stream, stopping, orphaned, overtaken>>
  /\ UNCHANGED memVars /\ UNCHANGED storeVars

(* The key is already there: taken for a duplicate and acked. *)
ProcessDup(e) ==
  /\ ~stopping /\ cur.pc = "idle" /\ Deliverable(e)
  /\ stream[e].kind \in {"telemetry", "event", "cmd_ack"}
  /\ Key(e) \in keys
  /\ \/ cons' = [cons EXCEPT ![e] = "acked"] /\ NoFault
     \/ cons' = [cons EXCEPT ![e] = "inflight"] /\ Fault("acklost")
  /\ UNCHANGED <<keys, cur, stream, stopping, orphaned, overtaken>>
  /\ UNCHANGED memVars /\ UNCHANGED storeVars

(* dedupe.Seen: SETNX took the key; or Redis failed, the message passes, and
   the key may or may not have been set.                                     *)
SeenLetsPass(e) ==
  \/ Key(e) \notin keys /\ keys' = keys \cup {Key(e)} /\ NoFault
  \/ Fault("redis") /\ (keys' = keys \cup {Key(e)} \/ UNCHANGED keys)

ProcessTelemetry(e) ==
  /\ ~stopping /\ cur.pc = "idle" /\ Deliverable(e) /\ stream[e].kind = "telemetry"
  /\ Len(in) < BatchSize
  /\ SeenLetsPass(e)
  /\ cons' = [cons EXCEPT ![e] = "inflight"]
  /\ in' = Append(in, e)
  /\ overtaken' = IF cons[e] = "redeliver" THEN overtaken \cup {stream[e].sn} ELSE overtaken
  /\ UNCHANGED <<cur, batch, batches, fl, stream, stopping, orphaned>>
  /\ UNCHANGED storeVars

ProcessSync(e) ==
  /\ ~stopping /\ cur.pc = "idle" /\ Deliverable(e)
  /\ stream[e].kind \in {"event", "cmd_ack"}
  /\ SeenLetsPass(e)
  /\ cons' = [cons EXCEPT ![e] = "inflight"]
  /\ cur' = [pc |-> IF stream[e].kind = "event" THEN "insert" ELSE "cmdres", e |-> e]
  /\ UNCHANGED <<stream, stopping, orphaned, overtaken>>
  /\ UNCHANGED memVars /\ UNCHANGED storeVars

-----------------------------------------------------------------------------
(* handleEvent and handleCmdAck run inside the consume goroutine. *)
EventInsertOk ==
  /\ cur.pc = "insert"
  /\ rows' = rows \cup {Key(cur.e)}
  /\ cur' = [cur EXCEPT !.pc = "shadow"]
  /\ UNCHANGED <<cons, keys, reported, cmdres, dlq, stream, stopping, faults, orphaned, overtaken>>
  /\ UNCHANGED memVars

(* An insert that is reported as failed may have been carried out. *)
EventInsertErr ==
  /\ cur.pc = "insert"
  /\ Fault("td")
  /\ NakAll(<<cur.e>>)
  /\ rows' \in {rows, rows \cup {Key(cur.e)}}
  /\ cur' = IdleCur
  /\ UNCHANGED <<reported, cmdres, dlq, stream, stopping, overtaken>> /\ UNCHANGED memVars

(* The event's own shadow fields are not part of reported. *)
EventAck ==
  /\ cur.pc = "shadow"
  /\ AckAll({cur.e})
  /\ cur' = IdleCur
  /\ UNCHANGED <<keys, stream, stopping, orphaned, overtaken>>
  /\ UNCHANGED memVars /\ UNCHANGED storeVars

CmdAckStored ==
  /\ cur.pc = "cmdres"
  /\ cmdres' = cmdres \cup {Key(cur.e)}
  /\ AckAll({cur.e})
  /\ cur' = IdleCur
  /\ UNCHANGED <<keys, rows, reported, dlq, stream, stopping, orphaned, overtaken>>
  /\ UNCHANGED memVars

CmdAckErr ==
  /\ cur.pc = "cmdres"
  /\ Fault("redis")
  /\ NakAll(<<cur.e>>)
  /\ cur' = IdleCur
  /\ UNCHANGED <<stream, stopping, overtaken>> /\ UNCHANGED memVars /\ UNCHANGED storeVars

-----------------------------------------------------------------------------
(* batchLoop: Batcher.Add until the batch is full; a full batch, an expired
   window or a closed channel in hands it to the flushers.                   *)
BatchAdd ==
  /\ in # <<>> /\ Len(batch) < BatchSize
  /\ batch' = Append(batch, Head(in))
  /\ in' = Tail(in)
  /\ UNCHANGED <<cons, keys, cur, batches, fl, stream, stopping, faults, orphaned, overtaken>>
  /\ UNCHANGED storeVars

(* Mutant: only a full batch is handed over, the window never fires. *)
BatchDrainOnlyFull ==
  /\ Len(batch) = BatchSize /\ Len(batches) < Cardinality(Flushers)
  /\ batches' = Append(batches, batch)
  /\ batch' = <<>>
  /\ UNCHANGED <<cons, keys, cur, in, fl, stream, stopping, faults, orphaned, overtaken>>
  /\ UNCHANGED storeVars

BatchDrain ==
  /\ batch # <<>> /\ Len(batches) < Cardinality(Flushers)
  /\ batches' = Append(batches, batch)
  /\ batch' = <<>>
  /\ UNCHANGED <<cons, keys, cur, in, fl, stream, stopping, faults, orphaned, overtaken>>
  /\ UNCHANGED storeVars

(* LatestPerSN: the row with the greatest ts, the greater seq among equals. *)
Older(a, b) == a.ts < b.ts \/ (a.ts = b.ts /\ a.seq <= b.seq)
OfSN(items, sn) == {i \in DOMAIN items : stream[items[i]].sn = sn}
LatestPerSN(items, sn) ==
  CHOOSE i \in OfSN(items, sn) : \A j \in OfSN(items, sn) : Older(stream[items[j]], stream[items[i]])

(* Mutant: only the latest row's attributes are written. *)
MergedAttrOfLatest(items, sn) ==
  LET a == stream[items[LatestPerSN(items, sn)]].attr
  IN IF a = 0 THEN reported[sn].attr ELSE a

(* The attributes of a batch are merged per SN, the later entry winning, even
   when the row that carried them is not the latest one.                     *)
MergedAttr(items, sn) ==
  LET carrying == {i \in OfSN(items, sn) : stream[items[i]].attr # 0}
  IN IF carrying = {} THEN reported[sn].attr
     ELSE stream[items[CHOOSE i \in carrying : \A j \in carrying : j <= i]].attr

ShadowAfter(items) ==
  [sn \in SNs |->
     IF OfSN(items, sn) = {} THEN reported[sn]
     ELSE [ts |-> stream[items[LatestPerSN(items, sn)]].ts,
           attr |-> MergedAttr(items, sn)]]

FlushTake(f) ==
  /\ fl[f].stage = "idle" /\ batches # <<>>
  /\ fl' = [fl EXCEPT ![f] = [stage |-> "insert", items |-> Head(batches)]]
  /\ batches' = Tail(batches)
  /\ overtaken' = overtaken \cup (SNsOf(Head(batches)) \cap UNION {SNsOf(fl[g].items) : g \in Flushers})
  /\ UNCHANGED <<cons, keys, cur, in, batch, stream, stopping, faults, orphaned>>
  /\ UNCHANGED storeVars

FlushInsertOk(f) ==
  /\ fl[f].stage = "insert"
  /\ rows' = rows \cup KeysOf(fl[f].items)
  /\ fl' = [fl EXCEPT ![f].stage = "shadow"]
  /\ UNCHANGED <<cons, keys, cur, in, batch, batches, reported, cmdres, dlq,
                 stream, stopping, faults, orphaned, overtaken>>

FlushInsertErr(f) ==
  /\ fl[f].stage = "insert"
  /\ Fault("td")
  /\ NakAll(fl[f].items)
  /\ \/ UNCHANGED <<rows, overtaken>>
     \/ /\ rows' = rows \cup KeysOf(fl[f].items)
        /\ overtaken' = overtaken \cup SNsOf(fl[f].items)
  /\ fl' = [fl EXCEPT ![f] = IdleFlusher]
  /\ UNCHANGED <<cur, in, batch, batches, reported, cmdres, dlq, stream, stopping>>

(* The shadow write may fail (counted only); the batch is acked anyway. *)
FlushShadowAck(f) ==
  /\ fl[f].stage = "shadow"
  /\ \/ /\ reported' = ShadowAfter(fl[f].items)
        /\ AckAll(ToSet(fl[f].items))
        /\ UNCHANGED overtaken
     \/ /\ Fault("redis")
        /\ cons' = [e \in Entries |-> IF e \in ToSet(fl[f].items) THEN "acked" ELSE cons[e]]
        /\ overtaken' = overtaken \cup SNsOf(fl[f].items)
        /\ UNCHANGED reported
  /\ fl' = [fl EXCEPT ![f] = IdleFlusher]
  /\ UNCHANGED <<keys, cur, in, batch, batches, rows, cmdres, dlq, stream, stopping, orphaned>>

-----------------------------------------------------------------------------
(* SIGTERM: consume returns, in is closed, and Run waits for the tail batch
   and the flushers before the process leaves and is started again.          *)
Stop ==
  /\ ~stopping /\ cur.pc = "idle" /\ Fault("stop")
  /\ stopping' = TRUE
  /\ UNCHANGED <<stream, cons, keys, cur, orphaned, overtaken>> /\ UNCHANGED memVars /\ UNCHANGED storeVars

RestartAfterDrain ==
  /\ stopping /\ Held = {}
  /\ stopping' = FALSE
  /\ UNCHANGED <<stream, cons, keys, cur, faults, orphaned, overtaken>>
  /\ UNCHANGED memVars /\ UNCHANGED storeVars

(* The process is killed: its channels and batches are gone, the consumer and
   the dedupe keys are not.                                                  *)
Crash ==
  /\ Fault("crash")
  /\ orphaned' = orphaned \cup ({Key(e) : e \in Held} \cap keys)
  /\ overtaken' = overtaken \cup UNION {SNsOf(fl[f].items) : f \in {g \in Flushers : fl[g].stage = "shadow"}}
  /\ cur' = IdleCur /\ in' = <<>> /\ batch' = <<>> /\ batches' = <<>>
  /\ fl' = [f \in Flushers |-> IdleFlusher]
  /\ stopping' = FALSE
  /\ UNCHANGED <<stream, cons, keys>> /\ UNCHANGED storeVars

Next ==
  \/ \E e \in Entries :
       \/ ProcessPoison(e) \/ ProcessOta(e) \/ ProcessDup(e)
       \/ ProcessTelemetry(e) \/ ProcessSync(e) \/ AckWaitExpires(e)
  \/ EventInsertOk \/ EventInsertErr \/ EventAck \/ CmdAckStored \/ CmdAckErr
  \/ BatchAdd \/ BatchDrain
  \/ \E f \in Flushers : FlushTake(f) \/ FlushInsertOk(f) \/ FlushInsertErr(f)
                         \/ FlushShadowAck(f)
  \/ \E k \in AllKeys : KeyExpires(k)
  \/ Stop \/ RestartAfterDrain \/ Crash

Spec == Init /\ [][Next]_vars

(* The worker's goroutines run, the consumer redelivers what is not acked. *)
Fairness ==
  /\ \A e \in Entries :
       /\ SF_vars(ProcessPoison(e) \/ ProcessOta(e) \/ ProcessDup(e)
                  \/ ProcessTelemetry(e) \/ ProcessSync(e))
       /\ WF_vars(AckWaitExpires(e))
  /\ WF_vars(EventInsertOk) /\ WF_vars(EventAck) /\ WF_vars(CmdAckStored)
  /\ WF_vars(BatchAdd) /\ WF_vars(BatchDrain)
  /\ \A f \in Flushers : WF_vars(FlushTake(f)) /\ WF_vars(FlushInsertOk(f))
                         /\ WF_vars(FlushShadowAck(f))
  /\ WF_vars(RestartAfterDrain)

FairSpec == Spec /\ Fairness

-----------------------------------------------------------------------------
Handled(e) ==
  CASE stream[e].kind \in {"telemetry", "event"} -> Key(e) \in rows
    [] stream[e].kind = "cmd_ack" -> Key(e) \in cmdres
    [] stream[e].kind = "poison" -> e \in dlq
    [] OTHER -> TRUE

(* Another chance for the same message: a copy in the process, or a stream
   entry of the same key that the consumer will still deliver.               *)
StillComing(e) == \E d \in Entries : Key(d) = Key(e) /\ (d \in Held \/ cons[d] # "acked")

(* An acked message whose effect is nowhere, and that nothing will produce. *)
Lost(e) == cons[e] = "acked" /\ ~Handled(e) /\ ~StillComing(e)

(* What is acked is written, stored or dead-lettered, through TDengine, DLQ
   and Redis failures, graceful restarts and duplicates in the stream.  The
   only way out is a dedupe key without an owner: left by a crash, by a DEL
   that failed in nakAll, or freed after a redelivery of the same entry had
   already been acked as a duplicate (worker.go process, nakAll).            *)
LossOnlyThroughOrphanedKey == \A e \in Entries : Lost(e) => Key(e) \in orphaned

(* The telemetry of sn in the stream, and the part that TDengine has. *)
Frames(sn) == {e \in Entries : stream[e].sn = sn /\ stream[e].kind = "telemetry"}
Written(sn) == {e \in Frames(sn) : Key(e) \in rows}

(* The bridge published the frames of sn in their order, copies next to each
   other and alike.                                                          *)
InOrder(sn) ==
  \A d, e \in Frames(sn) : d < e =>
    \/ stream[d] = stream[e]
    \/ stream[d].seq # stream[e].seq /\ Older(stream[d], stream[e])

(* The shadow shows the newest frame in TDengine and the last attribute that a
   frame carried, however frames are batched and whatever fails and restarts,
   once the flusher that wrote the rows has written the shadow too. It is behind
   only when two flushers worked on one device at once, a frame was delivered
   again, or the shadow write failed or died (worker.go flush, LatestPerSN).  *)
OldShadowRaced ==
  \A sn \in SNs \ overtaken :
    LET carrying == {e \in Written(sn) : stream[e].attr # 0}
    IN \/ Written(sn) = {} \/ ~InOrder(sn)
       \/ \E f \in Flushers : fl[f].stage = "shadow" /\ OfSN(fl[f].items, sn) # {}
       \/ /\ reported[sn].ts = Max({stream[e].ts : e \in Written(sn)})
          /\ reported[sn].attr = IF carrying = {} THEN 0 ELSE stream[Max(carrying)].attr

(* Every message of the stream is eventually acked: no back-pressure cycle
   between the channels, and no message is redelivered for ever once the
   failures stop (worker.go Run, batchLoop, flush).                          *)
EventuallyAcked == \A e \in Entries : <>(cons[e] = "acked")

=============================================================================
