------------------------------- MODULE Bridge -------------------------------
(***************************************************************************)
(* The EMQX -> JetStream bridge (internal/bridge): paho callbacks publish  *)
(* asynchronously under a back-pressure window, one ack loop settles the   *)
(* publications in order, and what JetStream did not acknowledge goes to a *)
(* disk buffer that a retry loop replays.  Telemetry is dropped instead.   *)
(*                                                                         *)
(* A message is a model value; its payload, its subject and the cell it    *)
(* hashes to play no part in what is lost or repeated.                     *)
(***************************************************************************)
EXTENDS Integers, Sequences, SequencesExt, FiniteSets

CONSTANTS
  Msgs,         \* the messages the broker delivers
  Handlers,     \* goroutines that may run Handle at the same time
  Window,       \* Options.Window
  MaxExits,     \* bound: how often the process exits and is started again
  MaxDiskErrs   \* bound: how many file reads, appends and removals fail

ASSUME BridgeAssumption ==
  /\ IsFiniteSet(Handlers)
  /\ Window \in Nat \ {0}
  /\ MaxExits \in Nat /\ MaxDiskErrs \in Nat

VARIABLES
  kind,        \* what each message is; fixed by its topic
  arrived,     \* messages handed to Handle so far
  hs,          \* each handler: [pc, m]; not "idle" = it holds b.mu.RLock
  sem,         \* permits of b.sem in use
  acks,        \* b.acks: publications whose future is not settled yet, FIFO
  fut,         \* the PubAckFuture of each message
  wire,        \* publications on their way to the JetStream server
  stream,      \* messages stored in IOT_UP
  main,        \* lines of the buffer file
  replay,      \* the .replay file: [exists, lines]
  rp,          \* the retry loop inside Replay: [pc, pos, requeue, failed]
  closed,      \* b.closed (and b.acks closed, same critical section)
  up,          \* "running", "stopping" (ctx cancelled), "down"
  exits,       \* number of process exits
  diskErrs,    \* number of failed reads, appends and removals
  dropped,     \* telemetry counted in MDropped
  bufferErr,   \* messages counted in MBufferErr: the append itself failed
  exitLost,    \* history: events only in memory when the process went away
  unread       \* history: lines a failed scan had not read when the file was removed

vars == <<kind, arrived, hs, sem, acks, fut, wire, stream, main, replay, rp, closed,
          up, exits, diskErrs, dropped, bufferErr, exitLost, unread>>

jsVars   == <<wire, stream>>
fileVars == <<main, replay>>
procVars == <<closed, up, exits, exitLost>>
lossVars == <<dropped, bufferErr, diskErrs, unread>>

Kinds == {"telemetry", "event", "bad_topic"}
Telemetry == {m \in Msgs : kind[m] = "telemetry"}
Events    == {m \in Msgs : kind[m] = "event"}  \* event, cmd_ack, ota_progress
BadTopic  == {m \in Msgs : kind[m] = "bad_topic"}  \* ParseTopic rejects it

DiskFails == diskErrs < MaxDiskErrs /\ diskErrs' = diskErrs + 1


IdleHandler == [pc |-> "idle"]
HandlerState == {IdleHandler} \cup [pc : {"sem", "pub"}, m : Telemetry \cup Events]
IdleReplay == [pc |-> "idle", pos |-> 1, requeue |-> <<>>, failed |-> FALSE]
NoReplayFile == [exists |-> FALSE, lines |-> <<>>]

TypeOK ==
  /\ kind \in [Msgs -> Kinds]
  /\ arrived \subseteq Msgs
  /\ hs \in [Handlers -> HandlerState]
  /\ sem \in 0..Window
  /\ acks \in Seq(Telemetry \cup Events)
  /\ fut \in [Msgs -> {"none", "wait", "ok", "err"}]
  /\ wire \subseteq Msgs /\ stream \subseteq Msgs
  /\ main \in Seq(Events)
  /\ replay \in [exists : BOOLEAN, lines : Seq(Events)]
  /\ rp \in [pc : {"idle", "scan", "requeue", "remove"}, pos : Nat \ {0},
             requeue : Seq(Events), failed : BOOLEAN]
  /\ closed \in BOOLEAN
  /\ up \in {"running", "stopping", "down"}
  /\ exits \in 0..MaxExits /\ diskErrs \in 0..MaxDiskErrs
  /\ dropped \subseteq Telemetry
  /\ bufferErr \subseteq Events
  /\ exitLost \subseteq Events /\ unread \subseteq Events

Init ==
  /\ kind \in [Msgs -> Kinds]
  /\ arrived = {} /\ sem = 0 /\ acks = <<>> /\ wire = {} /\ stream = {}
  /\ hs = [h \in Handlers |-> IdleHandler]
  /\ fut = [m \in Msgs |-> "none"]
  /\ main = <<>> /\ replay = NoReplayFile /\ rp = IdleReplay
  /\ closed = FALSE /\ up = "running" /\ exits = 0 /\ diskErrs = 0
  /\ dropped = {} /\ bufferErr = {} /\ exitLost = {} /\ unread = {}

-----------------------------------------------------------------------------
(* onFailure: telemetry is counted and gone, everything else is appended to
   the buffer file under d.mu, which Replay holds from the requeue to the
   removal; an append that fails is counted in buffer_err.                   *)
OnFailure(m) ==
  \/ /\ m \in Telemetry
     /\ dropped' = dropped \cup {m}
     /\ UNCHANGED <<main, bufferErr, diskErrs, unread>>
  \/ /\ m \in Events /\ rp.pc # "remove"
     /\ \/ main' = Append(main, m) /\ UNCHANGED <<bufferErr, diskErrs>>
        \/ DiskFails /\ bufferErr' = bufferErr \cup {m} /\ UNCHANGED main
     /\ UNCHANGED <<dropped, unread>>

(* Handle up to the back-pressure point: a bad topic is counted, a closing
   bridge treats the message as a failed publication.                       *)
HandleBadTopic(m) ==
  /\ up # "down"
  /\ m \in BadTopic \ arrived
  /\ arrived' = arrived \cup {m} /\ UNCHANGED kind
  /\ UNCHANGED <<hs, sem, acks, fut, rp>> /\ UNCHANGED jsVars
  /\ UNCHANGED fileVars /\ UNCHANGED procVars /\ UNCHANGED lossVars

HandleWhenClosed(m) ==
  /\ up # "down" /\ closed
  /\ m \in (Telemetry \cup Events) \ arrived
  /\ arrived' = arrived \cup {m} /\ UNCHANGED kind
  /\ OnFailure(m)
  /\ UNCHANGED <<hs, sem, acks, fut, replay, rp>> /\ UNCHANGED jsVars
  /\ UNCHANGED procVars

Handle(h, m) ==
  /\ up # "down" /\ ~closed
  /\ hs[h].pc = "idle"
  /\ m \in (Telemetry \cup Events) \ arrived
  /\ arrived' = arrived \cup {m} /\ UNCHANGED kind
  /\ hs' = [hs EXCEPT ![h] = [pc |-> "sem", m |-> m]]
  /\ UNCHANGED <<sem, acks, fut, rp>> /\ UNCHANGED jsVars
  /\ UNCHANGED fileVars /\ UNCHANGED procVars /\ UNCHANGED lossVars

(* b.sem <- struct{}{}: blocks the callback while the window is full. *)
AcquireSem(h) ==
  /\ hs[h].pc = "sem"
  /\ sem < Window
  /\ sem' = sem + 1
  /\ hs' = [hs EXCEPT ![h].pc = "pub"]
  /\ UNCHANGED <<kind, arrived, acks, fut, rp>> /\ UNCHANGED jsVars
  /\ UNCHANGED fileVars /\ UNCHANGED procVars /\ UNCHANGED lossVars

(* PublishAsync accepted the message: its future is queued for the ack loop. *)
PublishAsyncOk(h) ==
  /\ hs[h].pc = "pub"
  /\ Len(acks) < Window
  /\ wire' = wire \cup {hs[h].m}
  /\ fut' = [fut EXCEPT ![hs[h].m] = "wait"]
  /\ acks' = Append(acks, hs[h].m)
  /\ hs' = [hs EXCEPT ![h] = IdleHandler]
  /\ UNCHANGED <<kind, arrived, sem, stream, rp>>
  /\ UNCHANGED fileVars /\ UNCHANGED procVars /\ UNCHANGED lossVars

(* Mutant: the error path forgets to give the permit back. *)
PublishAsyncErrLeaksPermit(h) ==
  /\ hs[h].pc = "pub"
  /\ hs' = [hs EXCEPT ![h] = IdleHandler]
  /\ OnFailure(hs[h].m)
  /\ UNCHANGED <<kind, arrived, sem, acks, fut, replay, rp>> /\ UNCHANGED jsVars
  /\ UNCHANGED procVars

PublishAsyncErr(h) ==
  /\ hs[h].pc = "pub"
  /\ sem' = sem - 1
  /\ hs' = [hs EXCEPT ![h] = IdleHandler]
  /\ OnFailure(hs[h].m)
  /\ UNCHANGED <<kind, arrived, acks, fut, replay, rp>> /\ UNCHANGED jsVars
  /\ UNCHANGED procVars

-----------------------------------------------------------------------------
(* JetStream (external): a publication is stored or refused, and in either
   case the answer may never come back.                                      *)
JSStore(m) ==
  /\ m \in wire
  /\ wire' = wire \ {m}
  /\ stream' = stream \cup {m}
  /\ \/ fut[m] = "wait" /\ fut' = [fut EXCEPT ![m] = "ok"]
     \/ UNCHANGED fut
  /\ UNCHANGED <<kind, arrived, hs, sem, acks, rp>>
  /\ UNCHANGED fileVars /\ UNCHANGED procVars /\ UNCHANGED lossVars

JSRefuse(m) ==
  /\ m \in wire
  /\ wire' = wire \ {m}
  /\ \/ fut[m] = "wait" /\ fut' = [fut EXCEPT ![m] = "err"]
     \/ UNCHANGED fut
  /\ UNCHANGED <<kind, arrived, hs, sem, acks, stream, rp>>
  /\ UNCHANGED fileVars /\ UNCHANGED procVars /\ UNCHANGED lossVars

-----------------------------------------------------------------------------
(* ackLoop: settles the oldest publication, then gives its permit back. *)
AckLoopOk ==
  /\ up # "down" /\ acks # <<>> /\ fut[Head(acks)] = "ok"
  /\ acks' = Tail(acks) /\ sem' = sem - 1
  /\ fut' = [fut EXCEPT ![Head(acks)] = "none"]
  /\ UNCHANGED <<kind, arrived, hs, rp>> /\ UNCHANGED jsVars
  /\ UNCHANGED fileVars /\ UNCHANGED procVars /\ UNCHANGED lossVars

(* The future failed, or the 5 s timer fired while it was still unsettled:
   a publication that times out here may still be stored later.              *)
AckLoopFail ==
  /\ up # "down" /\ acks # <<>> /\ fut[Head(acks)] \in {"err", "wait"}
  /\ acks' = Tail(acks) /\ sem' = sem - 1
  /\ fut' = [fut EXCEPT ![Head(acks)] = "none"]
  /\ OnFailure(Head(acks))
  /\ UNCHANGED <<kind, arrived, hs, replay, rp>> /\ UNCHANGED jsVars
  /\ UNCHANGED procVars

-----------------------------------------------------------------------------
(* Mutant: a leftover .replay file blocks the rotation but is never resumed. *)
ReplayStartSkipsLeftover ==
  /\ up = "running" /\ rp.pc = "idle" /\ ~replay.exists /\ main # <<>>
  /\ replay' = [exists |-> TRUE, lines |-> main]
  /\ main' = <<>>
  /\ rp' = [IdleReplay EXCEPT !.pc = "scan"]
  /\ UNCHANGED <<kind, arrived, hs, sem, acks, fut>> /\ UNCHANGED jsVars
  /\ UNCHANGED procVars /\ UNCHANGED lossVars

(* DiskBuffer.Replay.  A leftover .replay file is taken up again; otherwise
   the buffer file is renamed, so appends go on in a fresh file meanwhile.   *)
ReplayStart ==
  /\ up = "running" /\ rp.pc = "idle"
  /\ \/ replay.exists /\ UNCHANGED fileVars
     \/ /\ ~replay.exists /\ main # <<>>
        /\ replay' = [exists |-> TRUE, lines |-> main]
        /\ main' = <<>>
  /\ rp' = [IdleReplay EXCEPT !.pc = "scan"]
  /\ UNCHANGED <<kind, arrived, hs, sem, acks, fut>> /\ UNCHANGED jsVars
  /\ UNCHANGED procVars /\ UNCHANGED lossVars

(* One line: publish it, unless an earlier line failed or ctx is cancelled;
   a failed publication may have reached the stream (the 5 s timeout).       *)
ReplayPublishOk ==
  /\ up = "running" /\ rp.pc = "scan" /\ rp.pos <= Len(replay.lines) /\ ~rp.failed
  /\ stream' = stream \cup {replay.lines[rp.pos]}
  /\ rp' = [rp EXCEPT !.pos = @ + 1]
  /\ UNCHANGED <<kind, arrived, hs, sem, acks, fut, wire>>
  /\ UNCHANGED fileVars /\ UNCHANGED procVars /\ UNCHANGED lossVars

ReplayPublishErr ==
  /\ up = "running" /\ rp.pc = "scan" /\ rp.pos <= Len(replay.lines) /\ ~rp.failed
  /\ \/ stream' = stream \cup {replay.lines[rp.pos]}
     \/ UNCHANGED stream
  /\ rp' = [rp EXCEPT !.pos = @ + 1, !.failed = TRUE,
                      !.requeue = Append(@, replay.lines[rp.pos])]
  /\ UNCHANGED <<kind, arrived, hs, sem, acks, fut, wire>>
  /\ UNCHANGED fileVars /\ UNCHANGED procVars /\ UNCHANGED lossVars

ReplayCarryOver ==
  /\ up # "down" /\ rp.pc = "scan" /\ rp.pos <= Len(replay.lines)
  /\ rp.failed \/ up = "stopping"
  /\ rp' = [rp EXCEPT !.pos = @ + 1,
                      !.requeue = Append(@, replay.lines[rp.pos])]
  /\ UNCHANGED <<kind, arrived, hs, sem, acks, fut>> /\ UNCHANGED jsVars
  /\ UNCHANGED fileVars /\ UNCHANGED procVars /\ UNCHANGED lossVars

(* Mutant: lines after a failed publication are not written back. *)
ReplayScanEndForgets ==
  /\ up # "down" /\ rp.pc = "scan"
  /\ rp.pos > Len(replay.lines)
  /\ rp' = [rp EXCEPT !.pc = "remove"]
  /\ UNCHANGED <<kind, arrived, hs, sem, acks, fut>> /\ UNCHANGED jsVars
  /\ UNCHANGED fileVars /\ UNCHANGED procVars /\ UNCHANGED lossVars

(* The scan ends at the end of the file, or at a read error: both go on to
   write the requeued lines back.                                            *)
ReplayScanEnd ==
  /\ up # "down" /\ rp.pc = "scan"
  /\ \/ rp.pos > Len(replay.lines) /\ UNCHANGED diskErrs
     \/ rp.pos <= Len(replay.lines) /\ DiskFails
  /\ rp' = [rp EXCEPT !.pc = IF rp.requeue = <<>> THEN "remove" ELSE "requeue"]
  /\ UNCHANGED <<kind, arrived, hs, sem, acks, fut, dropped, bufferErr, unread>>
  /\ UNCHANGED jsVars /\ UNCHANGED fileVars /\ UNCHANGED procVars

(* Requeued lines go to the end of the buffer file; when that append fails
   the .replay file stays for the next round.                                *)
ReplayRequeue ==
  /\ up # "down" /\ rp.pc = "requeue"
  /\ main' = main \o rp.requeue
  /\ rp' = [rp EXCEPT !.pc = "remove"]
  /\ UNCHANGED <<kind, arrived, hs, sem, acks, fut, replay>> /\ UNCHANGED jsVars
  /\ UNCHANGED procVars /\ UNCHANGED lossVars

ReplayRequeueErr ==
  /\ up # "down" /\ rp.pc = "requeue"
  /\ DiskFails
  /\ rp' = IdleReplay
  /\ UNCHANGED <<kind, arrived, hs, sem, acks, fut, dropped, bufferErr, unread>>
  /\ UNCHANGED jsVars /\ UNCHANGED fileVars /\ UNCHANGED procVars

(* The removal takes the lines a failed scan never reached with it. *)
ReplayRemove ==
  /\ up # "down" /\ rp.pc = "remove"
  /\ \/ /\ replay' = NoReplayFile
        /\ unread' = unread \cup ToSet(SubSeq(replay.lines, rp.pos, Len(replay.lines)))
        /\ UNCHANGED diskErrs
     \/ DiskFails /\ UNCHANGED <<replay, unread>>
  /\ rp' = IdleReplay
  /\ UNCHANGED <<kind, arrived, hs, sem, acks, fut, main, dropped, bufferErr>>
  /\ UNCHANGED jsVars /\ UNCHANGED procVars

-----------------------------------------------------------------------------
(* Shutdown: ctx is cancelled, Close takes the write lock (so no handler is
   between its closed check and its send), and the process leaves when the
   loops have ended or the 10 s are over.                                    *)
Shutdown ==
  /\ up = "running" /\ exits < MaxExits
  /\ up' = "stopping"
  /\ UNCHANGED <<kind, arrived, hs, sem, acks, fut, rp, closed, exits, exitLost>>
  /\ UNCHANGED jsVars /\ UNCHANGED fileVars /\ UNCHANGED lossVars

Close ==
  /\ up = "stopping" /\ ~closed
  /\ \A h \in Handlers : hs[h].pc = "idle"
  /\ closed' = TRUE
  /\ UNCHANGED <<kind, arrived, hs, sem, acks, fut, rp, up, exits, exitLost>>
  /\ UNCHANGED jsVars /\ UNCHANGED fileVars /\ UNCHANGED lossVars

InMemory == ToSet(acks) \cup {hs[h].m : h \in {g \in Handlers : hs[g].pc # "idle"}}

(* The process goes away: after Close (drained or timed out) or by a crash.
   Only the two files survive.                                               *)
Exit ==
  /\ up # "down" /\ exits < MaxExits
  /\ exits' = exits + 1
  /\ up' = "down"
  /\ exitLost' = exitLost \cup (InMemory \cap Events)
  /\ hs' = [h \in Handlers |-> IdleHandler]
  /\ sem' = 0 /\ acks' = <<>>
  /\ fut' = [m \in Msgs |-> "none"]
  /\ rp' = IdleReplay /\ closed' = FALSE
  /\ UNCHANGED <<kind, arrived>> /\ UNCHANGED jsVars
  /\ UNCHANGED fileVars /\ UNCHANGED lossVars

Restart ==
  /\ up = "down"
  /\ up' = "running"
  /\ UNCHANGED <<kind, arrived, hs, sem, acks, fut, rp, closed, exits, exitLost>>
  /\ UNCHANGED jsVars /\ UNCHANGED fileVars /\ UNCHANGED lossVars

Next ==
  \/ \E m \in Msgs : HandleBadTopic(m) \/ HandleWhenClosed(m)
  \/ \E h \in Handlers, m \in Msgs : Handle(h, m)
  \/ \E h \in Handlers : AcquireSem(h) \/ PublishAsyncOk(h) \/ PublishAsyncErr(h)
  \/ \E m \in Msgs : JSStore(m) \/ JSRefuse(m)
  \/ AckLoopOk \/ AckLoopFail
  \/ ReplayStart \/ ReplayPublishOk \/ ReplayPublishErr \/ ReplayCarryOver
  \/ ReplayScanEnd \/ ReplayRequeue \/ ReplayRequeueErr \/ ReplayRemove
  \/ Shutdown \/ Close \/ Exit \/ Restart

Spec == Init /\ [][Next]_vars

(* The goroutines run, the retry ticker keeps firing, and the disk and the
   stream work again and again; the operator and the broker owe nothing.     *)
Fairness ==
  /\ \A h \in Handlers : WF_vars(AcquireSem(h))
                         /\ WF_vars(PublishAsyncOk(h) \/ PublishAsyncErr(h))
  /\ WF_vars(AckLoopOk \/ AckLoopFail)
  /\ WF_vars(ReplayStart) /\ WF_vars(ReplayCarryOver) /\ WF_vars(ReplayScanEnd)
  /\ SF_vars(ReplayPublishOk) /\ SF_vars(ReplayRequeue)
  /\ SF_vars(ReplayRemove /\ replay' = NoReplayFile)
  /\ WF_vars(Restart) /\ WF_vars(Close) /\ WF_vars(up = "stopping" /\ Exit)

FairSpec == Spec /\ Fairness

-----------------------------------------------------------------------------
(* Every buffered-kind message that entered Handle is stored, or still held
   in the window, or on disk; what is not was counted in buffer_err, was only
   in memory when the process went away, or was behind a read error of the
   replay file.  Timeouts, late stores, a crash in the middle of Replay and a
   failing requeue never lose one (bridge.go onFailure, buffer.go Replay).   *)
EventsAccounted ==
  \A m \in arrived \cap Events :
     m \in stream \cup InMemory \cup ToSet(main) \cup ToSet(replay.lines)
           \cup bufferErr \cup exitLost \cup unread

(* The back-pressure window of Handle, Close and ackLoop.  A goroutine about
   to send on b.acks never finds the channel closed (a panic) and never blocks
   on it while holding the read lock; and permits neither leak nor are forged:
   there is one per goroutine past the semaphore and one per unsettled
   publication, so the bridge does not wedge and no more than Window
   publications are out.                                                     *)
WindowSound ==
  /\ \A h \in Handlers : hs[h].pc = "pub" => ~closed /\ Len(acks) < Window
  /\ sem = Len(acks) + Cardinality({h \in Handlers : hs[h].pc = "pub"})

(* Once an event is in the buffer file it reaches the stream, through any
   number of failed rounds and restarts, unless a read error of the replay
   file hid it (buffer.go Replay, RunRetryLoop).                             *)
BufferedReachesStream ==
  \A m \in Msgs :
     (m \in ToSet(main) \cup ToSet(replay.lines)) ~> (m \in stream \cup unread)
=============================================================================
