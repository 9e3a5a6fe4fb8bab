---------------------------- MODULE BridgeProofs -----------------------------
(***************************************************************************)
(* What holds of the bridge for any number of messages and handlers and    *)
(* any window: the back-pressure window is kept to, and an event that      *)
(* entered Handle is never lost without a trace.                           *)
(***************************************************************************)
EXTENDS Bridge, FiniteSetTheorems, TLAPS

-----------------------------------------------------------------------------
(* The inductive invariant.                                                *)

\* A handler past the closed check holds the read lock Close waits for.
LockHeld == \A h \in Handlers : hs[h].pc # "idle" => ~closed

\* The permits in use are those of the handlers past the semaphore and of the
\* unsettled publications.
Publishing == {h \in Handlers : hs[h].pc = "pub"}
Permits == sem = Len(acks) + Cardinality(Publishing)

\* A positive acknowledgement comes only after the message was stored.
AckedStored == \A m \in Msgs : fut[m] = "ok" => m \in stream

\* Replay, where it stands: a line it has passed is stored, or on its way back
\* to the buffer file (in memory until the requeue, in the file after it).
RoundKept ==
  /\ rp.pc \in {"scan", "requeue"} =>
       \A i \in 1 .. Len(replay.lines) :
          i < rp.pos => replay.lines[i] \in stream \cup ToSet(rp.requeue)
  /\ rp.pc = "remove" =>
       \A i \in 1 .. Len(replay.lines) :
          i < rp.pos => replay.lines[i] \in stream \cup ToSet(main)

\* Without a .replay file there are no lines in it.
FileEmpty == replay.exists \/ replay.lines = <<>>

BridgeInv ==
  /\ TypeOK /\ LockHeld /\ Permits
  /\ AckedStored /\ RoundKept /\ FileEmpty /\ EventsAccounted

-----------------------------------------------------------------------------
(* The values a sequence holds, as it is extended and consumed.            *)

LEMMA ToSetOf ==
  ASSUME NEW S, NEW s \in Seq(S)
  PROVE  ToSet(s) = {s[i] : i \in 1 .. Len(s)} /\ ToSet(s) \subseteq S
BY DEF ToSet

LEMMA ToSetAppend ==
  ASSUME NEW S, NEW s \in Seq(S), NEW e \in S
  PROVE  ToSet(Append(s, e)) = ToSet(s) \cup {e}
<1>1. Append(s, e) \in Seq(S) /\ Len(Append(s, e)) = Len(s) + 1 /\ Len(s) \in Nat
  OBVIOUS
<1>2. \A i \in 1 .. Len(s) + 1 : Append(s, e)[i] = IF i <= Len(s) THEN s[i] ELSE e
  OBVIOUS
<1>3. ToSet(Append(s, e)) = {Append(s, e)[i] : i \in 1 .. Len(s) + 1}
  BY <1>1, ToSetOf
<1>4. ToSet(s) = {s[i] : i \in 1 .. Len(s)}
  BY ToSetOf
<1> QED
  BY <1>1, <1>2, <1>3, <1>4

LEMMA ToSetConcat ==
  ASSUME NEW S, NEW s \in Seq(S), NEW t \in Seq(S)
  PROVE  ToSet(s) \subseteq ToSet(s \o t) /\ ToSet(t) \subseteq ToSet(s \o t)
<1>1. s \o t \in Seq(S) /\ Len(s \o t) = Len(s) + Len(t) /\ Len(s) \in Nat /\ Len(t) \in Nat
  OBVIOUS
<1>2. ToSet(s \o t) = {(s \o t)[i] : i \in 1 .. Len(s) + Len(t)}
  BY <1>1, ToSetOf
<1>3. ToSet(s) = {s[i] : i \in 1 .. Len(s)} /\ ToSet(t) = {t[i] : i \in 1 .. Len(t)}
  BY ToSetOf
<1>4. ASSUME NEW i \in 1 .. Len(s) PROVE s[i] \in ToSet(s \o t)
  <2>1. i \in 1 .. Len(s) + Len(t) /\ (s \o t)[i] = s[i]
    BY <1>1
  <2> QED BY <1>2, <2>1
<1>5. ASSUME NEW i \in 1 .. Len(t) PROVE t[i] \in ToSet(s \o t)
  <2>1. Len(s) + i \in 1 .. Len(s) + Len(t) /\ (s \o t)[Len(s) + i] = t[i]
    BY <1>1
  <2> QED BY <1>2, <2>1
<1> QED
  BY <1>3, <1>4, <1>5

LEMMA ToSetTail ==
  ASSUME NEW S, NEW s \in Seq(S), s # <<>>
  PROVE  /\ Head(s) \in S /\ Tail(s) \in Seq(S) /\ Len(Tail(s)) = Len(s) - 1
         /\ ToSet(s) = {Head(s)} \cup ToSet(Tail(s))
<1>1. /\ Head(s) = s[1] /\ Head(s) \in S /\ Len(s) \in Nat \ {0}
      /\ Tail(s) \in Seq(S) /\ Len(Tail(s)) = Len(s) - 1
  OBVIOUS
<1>2. \A i \in 1 .. Len(s) - 1 : Tail(s)[i] = s[i + 1]
  OBVIOUS
<1>3. ToSet(s) = {s[i] : i \in 1 .. Len(s)} /\ ToSet(Tail(s)) = {Tail(s)[i] : i \in 1 .. Len(s) - 1}
  BY <1>1, ToSetOf
<1>4. ASSUME NEW i \in 1 .. Len(s) PROVE s[i] \in {Head(s)} \cup ToSet(Tail(s))
  <2>1. CASE i = 1
    BY <1>1, <2>1
  <2>2. CASE i # 1
    <3>1. i - 1 \in 1 .. Len(s) - 1 /\ Tail(s)[i - 1] = s[i]
      BY <1>1, <1>2, <2>2
    <3> QED BY <1>3, <3>1
  <2> QED BY <2>1, <2>2
<1>5. ASSUME NEW i \in 1 .. Len(s) - 1 PROVE Tail(s)[i] \in ToSet(s)
  <2>1. i + 1 \in 1 .. Len(s) /\ Tail(s)[i] = s[i + 1]
    BY <1>1, <1>2
  <2> QED BY <1>3, <2>1
<1>6. Head(s) \in ToSet(s)
  <2>1. 1 \in 1 .. Len(s)
    BY <1>1
  <2> QED BY <1>1, <1>3, <2>1
<1> QED
  BY <1>1, <1>3, <1>4, <1>5, <1>6

\* A sequence from a position on holds every later value.
LEMMA ToSetFrom ==
  ASSUME NEW S, NEW s \in Seq(S), NEW p \in Nat \ {0}, NEW i \in 1 .. Len(s), i >= p
  PROVE  s[i] \in ToSet(SubSeq(s, p, Len(s)))
<1> DEFINE r == SubSeq(s, p, Len(s))
<1>1. p <= Len(s) /\ Len(s) \in Nat /\ i - p + 1 \in 1 .. Len(s) - p + 1
  OBVIOUS
<1>2. r \in Seq(S) /\ Len(r) = Len(s) - p + 1
  BY <1>1
<1>3. r[i - p + 1] = s[p + (i - p + 1) - 1]
  BY <1>1
<1>4. r[i - p + 1] = s[i]
  BY <1>1, <1>3
<1> HIDE DEF r
<1>5. ToSet(r) = {r[j] : j \in 1 .. Len(r)}
  BY <1>2, ToSetOf
<1>6. s[i] \in ToSet(r)
  BY <1>1, <1>2, <1>4, <1>5
<1> QED
  BY <1>6 DEF r

LEMMA ToSetEmpty == ToSet(<<>>) = {}
BY DEF ToSet

-----------------------------------------------------------------------------
(* Types.                                                                  *)

LEMMA KindStays ==
  ASSUME kind' = kind
  PROVE  Telemetry' = Telemetry /\ Events' = Events /\ HandlerState' = HandlerState
BY DEF Telemetry, Events, HandlerState, IdleHandler

LEMMA KindKept ==
  ASSUME [Next]_vars
  PROVE  kind' = kind
BY DEF Next, vars, HandleBadTopic, HandleWhenClosed, Handle, AcquireSem, PublishAsyncOk,
   PublishAsyncErr, JSStore, JSRefuse, AckLoopOk, AckLoopFail, ReplayStart, ReplayPublishOk,
   ReplayPublishErr, ReplayCarryOver, ReplayScanEnd, ReplayRequeue, ReplayRequeueErr,
   ReplayRemove, Shutdown, Close, Exit, Restart

\* The file keeps what it holds and gains the message, unless that append
\* failed and was counted.
LEMMA OnFailureEffect ==
  ASSUME TypeOK, NEW m \in Telemetry \cup Events, OnFailure(m)
  PROVE  /\ main' \in Seq(Events) /\ ToSet(main) \subseteq ToSet(main')
         /\ dropped' \subseteq Telemetry
         /\ bufferErr \subseteq bufferErr' /\ bufferErr' \subseteq Events
         /\ diskErrs' \in 0 .. MaxDiskErrs /\ unread' = unread
         /\ m \in Events => m \in ToSet(main') \cup bufferErr'
<1>0. /\ main \in Seq(Events) /\ dropped \subseteq Telemetry /\ bufferErr \subseteq Events
      /\ diskErrs \in 0 .. MaxDiskErrs /\ MaxDiskErrs \in Nat
  BY BridgeAssumption DEF TypeOK
<1>1. Telemetry \cap Events = {}
  BY DEF Telemetry, Events
<1>2. CASE m \in Telemetry
  <2>1. /\ dropped' = dropped \cup {m} /\ main' = main /\ bufferErr' = bufferErr
        /\ diskErrs' = diskErrs /\ unread' = unread /\ m \notin Events
    BY <1>1, <1>2 DEF OnFailure
  <2> QED BY <1>0, <1>2, <2>1
<1>3. CASE m \in Events
  <2>1. main' = Append(main, m) \/ (main' = main /\ bufferErr' = bufferErr \cup {m})
    BY <1>1, <1>3 DEF OnFailure
  <2>2. main' \in Seq(Events) /\ ToSet(main) \subseteq ToSet(main') /\ m \in ToSet(main') \cup bufferErr'
    <3>1. CASE main' = Append(main, m)
      <4>1. Append(main, m) \in Seq(Events) /\ ToSet(Append(main, m)) = ToSet(main) \cup {m}
        BY <1>0, <1>3, ToSetAppend
      <4> QED BY <3>1, <4>1
    <3>2. CASE main' = main /\ bufferErr' = bufferErr \cup {m}
      BY <1>0, <3>2
    <3> QED BY <2>1, <3>1, <3>2
  <2>3. /\ dropped' = dropped /\ unread' = unread
        /\ bufferErr' \in {bufferErr, bufferErr \cup {m}}
        /\ diskErrs' = diskErrs \/ (diskErrs < MaxDiskErrs /\ diskErrs' = diskErrs + 1)
    BY <1>1, <1>3 DEF OnFailure, DiskFails
  <2> QED BY <1>0, <1>3, <2>2, <2>3
<1> QED BY <1>2, <1>3

Message == Telemetry \cup Events

LEMMA Facts ==
  ASSUME TypeOK
  PROVE  /\ arrived \subseteq Msgs /\ hs \in [Handlers -> HandlerState]
         /\ acks \in Seq(Message) /\ fut \in [Msgs -> {"none", "wait", "ok", "err"}]
         /\ wire \subseteq Msgs /\ stream \subseteq Msgs
         /\ main \in Seq(Events) /\ replay \in [exists : BOOLEAN, lines : Seq(Events)]
         /\ rp \in [pc : {"idle", "scan", "requeue", "remove"}, pos : Nat \ {0},
                    requeue : Seq(Events), failed : BOOLEAN]
         /\ Message \subseteq Msgs /\ Events \subseteq Message
         /\ IdleHandler \in HandlerState
         /\ \A h \in Handlers : hs[h].pc # "idle" => hs[h].pc \in {"sem", "pub"} /\ hs[h].m \in Message
BY DEF TypeOK, Message, Telemetry, Events, HandlerState, IdleHandler

LEMMA MessageTypes ==
  ASSUME TypeOK, [Next]_vars
  PROVE  /\ arrived' \subseteq Msgs /\ hs' \in [Handlers -> HandlerState]
         /\ acks' \in Seq(Message) /\ fut' \in [Msgs -> {"none", "wait", "ok", "err"}]
         /\ wire' \subseteq Msgs /\ stream' \subseteq Msgs
<1> DEFINE Q == /\ arrived' \subseteq Msgs /\ hs' \in [Handlers -> HandlerState]
                /\ acks' \in Seq(Message) /\ fut' \in [Msgs -> {"none", "wait", "ok", "err"}]
                /\ wire' \subseteq Msgs /\ stream' \subseteq Msgs
<1>0. /\ arrived \subseteq Msgs /\ hs \in [Handlers -> HandlerState]
      /\ acks \in Seq(Message) /\ fut \in [Msgs -> {"none", "wait", "ok", "err"}]
      /\ wire \subseteq Msgs /\ stream \subseteq Msgs /\ Message \subseteq Msgs
      /\ IdleHandler \in HandlerState
      /\ \A h \in Handlers : hs[h].pc # "idle" => hs[h].pc \in {"sem", "pub"} /\ hs[h].m \in Message
  BY Facts
<1>1. BadTopic \subseteq Msgs
  BY DEF BadTopic
<1>2. \A h \in Handlers, x \in HandlerState : [hs EXCEPT ![h] = x] \in [Handlers -> HandlerState]
  BY <1>0
<1>3. \A m \in Msgs, x \in {"none", "wait", "ok", "err"} :
         [fut EXCEPT ![m] = x] \in [Msgs -> {"none", "wait", "ok", "err"}]
  BY <1>0
<1>4. ASSUME NEW m \in Msgs, HandleBadTopic(m) \/ HandleWhenClosed(m) PROVE Q
  <2>1. /\ arrived' = arrived \cup {m} /\ hs' = hs /\ acks' = acks /\ fut' = fut
        /\ wire' = wire /\ stream' = stream
    BY <1>4 DEF HandleBadTopic, HandleWhenClosed, jsVars
  <2> QED BY <1>0, <2>1
<1>5. ASSUME NEW h \in Handlers, NEW m \in Msgs, Handle(h, m) PROVE Q
  <2>1. /\ arrived' = arrived \cup {m} /\ hs' = [hs EXCEPT ![h] = [pc |-> "sem", m |-> m]]
        /\ acks' = acks /\ fut' = fut /\ wire' = wire /\ stream' = stream /\ m \in Message
    BY <1>5 DEF Handle, jsVars, Message
  <2>2. [pc |-> "sem", m |-> m] \in HandlerState
    BY <2>1 DEF HandlerState, Message
  <2> QED BY <1>0, <1>2, <2>1, <2>2
<1>6. ASSUME NEW h \in Handlers, AcquireSem(h) PROVE Q
  <2>1. /\ hs[h].pc = "sem" /\ hs' = [hs EXCEPT ![h].pc = "pub"] /\ arrived' = arrived
        /\ acks' = acks /\ fut' = fut /\ wire' = wire /\ stream' = stream
    BY <1>6 DEF AcquireSem, jsVars
  <2>2. hs[h] \in [pc : {"sem", "pub"}, m : Telemetry \cup Events]
    BY <1>0, <2>1 DEF HandlerState, IdleHandler
  <2>3. [hs[h] EXCEPT !.pc = "pub"] \in HandlerState
    BY <2>2 DEF HandlerState
  <2>4. hs' = [hs EXCEPT ![h] = [hs[h] EXCEPT !.pc = "pub"]]
    BY <2>1
  <2> QED BY <1>0, <1>2, <2>1, <2>3, <2>4
<1>7. ASSUME NEW h \in Handlers, PublishAsyncOk(h) PROVE Q
  <2>1. /\ hs[h].m \in Message /\ hs' = [hs EXCEPT ![h] = IdleHandler] /\ arrived' = arrived
        /\ acks' = Append(acks, hs[h].m) /\ fut' = [fut EXCEPT ![hs[h].m] = "wait"]
        /\ wire' = wire \cup {hs[h].m} /\ stream' = stream
    BY <1>0, <1>7 DEF PublishAsyncOk
  <2>2. acks' \in Seq(Message)
    BY <1>0, <2>1
  <2> QED BY <1>0, <1>2, <1>3, <2>1, <2>2
<1>8. ASSUME NEW h \in Handlers, PublishAsyncErr(h) PROVE Q
  <2>1. /\ hs' = [hs EXCEPT ![h] = IdleHandler] /\ arrived' = arrived
        /\ acks' = acks /\ fut' = fut /\ wire' = wire /\ stream' = stream
    BY <1>8 DEF PublishAsyncErr, jsVars
  <2> QED BY <1>0, <1>2, <2>1
<1>9. ASSUME NEW m \in Msgs, JSStore(m) \/ JSRefuse(m) PROVE Q
  <2>1. /\ hs' = hs /\ arrived' = arrived /\ acks' = acks
        /\ wire' = wire \ {m} /\ stream' \subseteq stream \cup {m}
        /\ fut' = fut \/ fut' = [fut EXCEPT ![m] = "ok"] \/ fut' = [fut EXCEPT ![m] = "err"]
    BY <1>9 DEF JSStore, JSRefuse
  <2> QED BY <1>0, <1>3, <2>1
<1>10. CASE AckLoopOk \/ AckLoopFail
  <2>1. /\ hs' = hs /\ arrived' = arrived /\ wire' = wire /\ stream' = stream
        /\ acks # <<>> /\ acks' = Tail(acks) /\ fut' = [fut EXCEPT ![Head(acks)] = "none"]
    BY <1>10 DEF AckLoopOk, AckLoopFail, jsVars
  <2>2. Head(acks) \in Msgs /\ acks' \in Seq(Message)
    BY <1>0, <2>1, ToSetTail
  <2> QED BY <1>0, <1>3, <2>1, <2>2
<1>11. CASE ReplayPublishOk \/ ReplayPublishErr
  <2>1. /\ hs' = hs /\ arrived' = arrived /\ acks' = acks /\ fut' = fut /\ wire' = wire
        /\ rp.pos <= Len(replay.lines) /\ stream' \subseteq stream \cup {replay.lines[rp.pos]}
    BY <1>11 DEF ReplayPublishOk, ReplayPublishErr
  <2>2. replay.lines \in Seq(Events) /\ rp.pos \in Nat \ {0} /\ Events \subseteq Msgs
    BY Facts
  <2>3. replay.lines[rp.pos] \in Msgs
    BY <2>1, <2>2
  <2> QED BY <1>0, <2>1, <2>3
<1>12. CASE Exit
  <2>1. /\ hs' = [h \in Handlers |-> IdleHandler] /\ arrived' = arrived /\ acks' = <<>>
        /\ fut' = [m \in Msgs |-> "none"] /\ wire' = wire /\ stream' = stream
    BY <1>12 DEF Exit, jsVars
  <2> QED BY <1>0, <2>1
<1>13. CASE \/ UNCHANGED vars \/ ReplayStart \/ ReplayCarryOver \/ ReplayScanEnd \/ ReplayRequeue
            \/ ReplayRequeueErr \/ ReplayRemove \/ Shutdown \/ Close \/ Restart
  <2>1. /\ hs' = hs /\ arrived' = arrived /\ acks' = acks /\ fut' = fut
        /\ wire' = wire /\ stream' = stream
    BY <1>13 DEF vars, jsVars, ReplayStart, ReplayCarryOver, ReplayScanEnd, ReplayRequeue,
       ReplayRequeueErr, ReplayRemove, Shutdown, Close, Restart
  <2> QED BY <1>0, <2>1
<1> QED
  BY <1>4, <1>5, <1>6, <1>7, <1>8, <1>9, <1>10, <1>11, <1>12, <1>13 DEF Next

LEMMA FileTypes ==
  ASSUME TypeOK, [Next]_vars
  PROVE  /\ main' \in Seq(Events) /\ replay' \in [exists : BOOLEAN, lines : Seq(Events)]
         /\ rp' \in [pc : {"idle", "scan", "requeue", "remove"}, pos : Nat \ {0},
                     requeue : Seq(Events), failed : BOOLEAN]
<1> DEFINE Round == [pc : {"idle", "scan", "requeue", "remove"}, pos : Nat \ {0},
                     requeue : Seq(Events), failed : BOOLEAN]
           Q == /\ main' \in Seq(Events) /\ replay' \in [exists : BOOLEAN, lines : Seq(Events)]
                /\ rp' \in Round
<1>0. main \in Seq(Events) /\ replay \in [exists : BOOLEAN, lines : Seq(Events)] /\ rp \in Round
  BY Facts
<1>1. IdleReplay \in Round /\ [IdleReplay EXCEPT !.pc = "scan"] \in Round
  <2>1. <<>> \in Seq(Events) /\ 1 \in Nat \ {0}
    OBVIOUS
  <2>2. IdleReplay \in Round
    BY <2>1 DEF IdleReplay
  <2> QED BY <2>2
<1>2. NoReplayFile \in [exists : BOOLEAN, lines : Seq(Events)]
  BY DEF NoReplayFile
<1>3. ASSUME NEW m \in Message, OnFailure(m), UNCHANGED <<replay, rp>> PROVE Q
  <2>1. main' \in Seq(Events)
    BY <1>3, OnFailureEffect DEF Message
  <2> QED BY <1>0, <1>3, <2>1
<1>4. ASSUME NEW m \in Msgs, HandleWhenClosed(m) PROVE Q
  <2>1. m \in Message /\ OnFailure(m) /\ UNCHANGED <<replay, rp>>
    BY <1>4 DEF HandleWhenClosed, Message
  <2> QED BY <1>3, <2>1
<1>5. ASSUME NEW h \in Handlers, PublishAsyncErr(h) PROVE Q
  <2>1. hs[h].m \in Message
    BY <1>5, Facts DEF PublishAsyncErr
  <2> QED BY <1>3, <1>5, <2>1 DEF PublishAsyncErr
<1>6. CASE AckLoopFail
  <2>1. Head(acks) \in Message
    BY <1>6, Facts, ToSetTail DEF AckLoopFail
  <2> QED BY <1>3, <1>6, <2>1 DEF AckLoopFail
<1>7. CASE ReplayStart
  <2>1. rp' = [IdleReplay EXCEPT !.pc = "scan"]
    BY <1>7 DEF ReplayStart
  <2>2. (main' = main /\ replay' = replay) \/ (main' = <<>> /\ replay' = [exists |-> TRUE, lines |-> main])
    BY <1>7 DEF ReplayStart, fileVars
  <2>3. [exists |-> TRUE, lines |-> main] \in [exists : BOOLEAN, lines : Seq(Events)] /\ <<>> \in Seq(Events)
    BY <1>0
  <2> QED BY <1>0, <1>1, <2>1, <2>2, <2>3
<1>8. CASE ReplayPublishOk
  <2>1. rp' = [rp EXCEPT !.pos = @ + 1] /\ main' = main /\ replay' = replay
    BY <1>8 DEF ReplayPublishOk, fileVars
  <2>2. rp.pos + 1 \in Nat \ {0}
    BY <1>0
  <2> QED BY <1>0, <2>1, <2>2
<1>9. CASE ReplayPublishErr \/ ReplayCarryOver
  <2>1. /\ rp.pos <= Len(replay.lines) /\ main' = main /\ replay' = replay
        /\ \E b \in BOOLEAN : rp' = [rp EXCEPT !.pos = @ + 1, !.failed = b,
                                               !.requeue = Append(@, replay.lines[rp.pos])]
    <3>1. CASE ReplayPublishErr
      BY <3>1 DEF ReplayPublishErr, fileVars
    <3>2. CASE ReplayCarryOver
      <4>1. rp' = [rp EXCEPT !.pos = @ + 1, !.requeue = Append(@, replay.lines[rp.pos])]
        BY <3>2 DEF ReplayCarryOver
      <4>2. rp.failed \in BOOLEAN /\ rp' = [rp EXCEPT !.pos = @ + 1, !.failed = rp.failed,
                                                     !.requeue = Append(@, replay.lines[rp.pos])]
        BY <1>0, <4>1
      <4> QED BY <3>2, <4>2 DEF ReplayCarryOver, fileVars
    <3> QED BY <1>9, <3>1, <3>2
  <2>2. replay.lines[rp.pos] \in Events
    BY <1>0, <2>1
  <2>3. Append(rp.requeue, replay.lines[rp.pos]) \in Seq(Events) /\ rp.pos + 1 \in Nat \ {0}
    BY <1>0, <2>2
  <2> QED BY <1>0, <2>1, <2>3
<1>10. CASE ReplayScanEnd
  <2>1. \E c \in {"remove", "requeue"} : rp' = [rp EXCEPT !.pc = c]
    BY <1>10 DEF ReplayScanEnd
  <2>2. main' = main /\ replay' = replay
    BY <1>10 DEF ReplayScanEnd, fileVars
  <2> QED BY <1>0, <2>1, <2>2
<1>11. CASE ReplayRequeue
  <2>1. main' = main \o rp.requeue /\ rp' = [rp EXCEPT !.pc = "remove"] /\ replay' = replay
    BY <1>11 DEF ReplayRequeue
  <2>2. main \o rp.requeue \in Seq(Events)
    BY <1>0
  <2> QED BY <1>0, <2>1, <2>2
<1>12. CASE ReplayRequeueErr \/ ReplayRemove \/ Exit
  <2>1. rp' = IdleReplay /\ main' = main /\ replay' \in {replay, NoReplayFile}
    BY <1>12 DEF ReplayRequeueErr, ReplayRemove, Exit, fileVars
  <2> QED BY <1>0, <1>1, <1>2, <2>1
<1>13. CASE UNCHANGED vars
  BY <1>0, <1>13 DEF vars
<1>14. ASSUME \/ \E m \in Msgs : HandleBadTopic(m) \/ JSStore(m) \/ JSRefuse(m)
              \/ \E h \in Handlers, m \in Msgs : Handle(h, m)
              \/ \E h \in Handlers : AcquireSem(h) \/ PublishAsyncOk(h)
              \/ AckLoopOk \/ Shutdown \/ Close \/ Restart
       PROVE  Q
  <2>1. main' = main /\ replay' = replay /\ rp' = rp
    BY <1>14 DEF fileVars, HandleBadTopic, JSStore, JSRefuse, Handle, AcquireSem, PublishAsyncOk,
       AckLoopOk, Shutdown, Close, Restart
  <2> QED BY <1>0, <2>1
<1> QED
  BY <1>4, <1>5, <1>6, <1>7, <1>8, <1>9, <1>10, <1>11, <1>12, <1>13, <1>14 DEF Next

LEMMA LossTypes ==
  ASSUME TypeOK, [Next]_vars
  PROVE  /\ closed' \in BOOLEAN /\ up' \in {"running", "stopping", "down"}
         /\ exits' \in 0 .. MaxExits /\ exitLost' \subseteq Events
         /\ dropped' \subseteq Telemetry /\ bufferErr' \subseteq Events
         /\ diskErrs' \in 0 .. MaxDiskErrs /\ unread' \subseteq Events
<1> DEFINE P == /\ closed' \in BOOLEAN /\ up' \in {"running", "stopping", "down"}
                /\ exits' \in 0 .. MaxExits /\ exitLost' \subseteq Events
           L == /\ dropped' \subseteq Telemetry /\ bufferErr' \subseteq Events
                /\ diskErrs' \in 0 .. MaxDiskErrs /\ unread' \subseteq Events
<1>0. /\ closed \in BOOLEAN /\ up \in {"running", "stopping", "down"}
      /\ exits \in 0 .. MaxExits /\ exitLost \subseteq Events /\ MaxExits \in Nat
      /\ dropped \subseteq Telemetry /\ bufferErr \subseteq Events
      /\ diskErrs \in 0 .. MaxDiskErrs /\ unread \subseteq Events /\ MaxDiskErrs \in Nat
  BY BridgeAssumption DEF TypeOK
<1>1. UNCHANGED procVars => P
  BY <1>0 DEF procVars
<1>2. UNCHANGED lossVars => L
  BY <1>0 DEF lossVars
<1>3. ASSUME NEW m \in Message, OnFailure(m) PROVE L
  <2>1. /\ dropped' \subseteq Telemetry /\ bufferErr' \subseteq Events
        /\ diskErrs' \in 0 .. MaxDiskErrs /\ unread' = unread
    BY <1>3, OnFailureEffect DEF Message
  <2> QED BY <1>0, <2>1
<1>4. ASSUME NEW m \in Msgs, HandleWhenClosed(m) PROVE P /\ L
  <2>1. m \in Message /\ OnFailure(m) /\ UNCHANGED procVars
    BY <1>4 DEF HandleWhenClosed, Message
  <2> QED BY <1>1, <1>3, <2>1
<1>5. ASSUME NEW h \in Handlers, PublishAsyncErr(h) PROVE P /\ L
  <2>1. hs[h].m \in Message /\ OnFailure(hs[h].m) /\ UNCHANGED procVars
    BY <1>5, Facts DEF PublishAsyncErr
  <2> QED BY <1>1, <1>3, <2>1
<1>6. CASE AckLoopFail
  <2>1. Head(acks) \in Message /\ OnFailure(Head(acks)) /\ UNCHANGED procVars
    BY <1>6, Facts, ToSetTail DEF AckLoopFail
  <2> QED BY <1>1, <1>3, <2>1
<1>7. CASE ReplayScanEnd \/ ReplayRequeueErr
  <2>1. /\ UNCHANGED procVars
        /\ dropped' = dropped /\ bufferErr' = bufferErr /\ unread' = unread
        /\ diskErrs' = diskErrs \/ (diskErrs < MaxDiskErrs /\ diskErrs' = diskErrs + 1)
    BY <1>7 DEF ReplayScanEnd, ReplayRequeueErr, DiskFails
  <2> QED BY <1>0, <1>1, <2>1
<1>8. CASE ReplayRemove
  <2> DEFINE U == ToSet(SubSeq(replay.lines, rp.pos, Len(replay.lines)))
  <2>1. /\ UNCHANGED procVars
        /\ dropped' = dropped /\ bufferErr' = bufferErr /\ unread' \subseteq unread \cup U
        /\ diskErrs' = diskErrs \/ (diskErrs < MaxDiskErrs /\ diskErrs' = diskErrs + 1)
    BY <1>8 DEF ReplayRemove, DiskFails
  <2>2. U \subseteq Events
    <3>1. replay.lines \in Seq(Events) /\ rp.pos \in Nat \ {0}
      BY Facts
    <3>2. SubSeq(replay.lines, rp.pos, Len(replay.lines)) \in Seq(Events)
      BY <3>1
    <3> QED BY <3>2, ToSetOf
  <2> QED BY <1>0, <1>1, <2>1, <2>2
<1>9. CASE Shutdown \/ Close \/ Restart
  <2>1. /\ closed' \in {closed, TRUE} /\ up' \in {up, "stopping", "running"}
        /\ exits' = exits /\ exitLost' = exitLost /\ UNCHANGED lossVars
    BY <1>9 DEF Shutdown, Close, Restart
  <2> QED BY <1>0, <1>2, <2>1
<1>10. CASE Exit
  <2>1. /\ closed' = FALSE /\ up' = "down" /\ exits < MaxExits /\ exits' = exits + 1
        /\ exitLost' = exitLost \cup (InMemory \cap Events) /\ UNCHANGED lossVars
    BY <1>10 DEF Exit
  <2>2. exits' \in 0 .. MaxExits /\ exitLost' \subseteq Events
    BY <1>0, <2>1
  <2> QED BY <1>2, <2>1, <2>2
<1>11. ASSUME \/ UNCHANGED vars
              \/ \E m \in Msgs : HandleBadTopic(m) \/ JSStore(m) \/ JSRefuse(m)
              \/ \E h \in Handlers, m \in Msgs : Handle(h, m)
              \/ \E h \in Handlers : AcquireSem(h) \/ PublishAsyncOk(h)
              \/ AckLoopOk \/ ReplayStart \/ ReplayPublishOk \/ ReplayPublishErr
              \/ ReplayCarryOver \/ ReplayRequeue
       PROVE  P /\ L
  <2>1. UNCHANGED procVars /\ UNCHANGED lossVars
    BY <1>11 DEF vars, procVars, lossVars, HandleBadTopic, JSStore, JSRefuse, Handle, AcquireSem,
       PublishAsyncOk, AckLoopOk, ReplayStart, ReplayPublishOk, ReplayPublishErr, ReplayCarryOver,
       ReplayRequeue
  <2> QED BY <1>1, <1>2, <2>1
<1> QED
  BY <1>4, <1>5, <1>6, <1>7, <1>8, <1>9, <1>10, <1>11 DEF Next

-----------------------------------------------------------------------------
(* The back-pressure window.                                               *)

LEMMA PublishingFinite ==
  ASSUME TypeOK
  PROVE  /\ IsFiniteSet(Publishing) /\ Cardinality(Publishing) \in Nat
         /\ \A h \in Publishing : /\ IsFiniteSet(Publishing \ {h})
                                  /\ Cardinality(Publishing \ {h}) = Cardinality(Publishing) - 1
                                  /\ Cardinality(Publishing) > 0
         /\ \A h \in Handlers \ Publishing :
               Cardinality(Publishing \cup {h}) = Cardinality(Publishing) + 1
<1>1. Publishing \in SUBSET Handlers
  BY DEF Publishing
<1>2. IsFiniteSet(Publishing)
  BY <1>1, FS_Subset, BridgeAssumption
<1>3. Cardinality(Publishing) \in Nat
  BY <1>2, FS_CardinalityType
<1>4. ASSUME NEW h \in Publishing
      PROVE  /\ IsFiniteSet(Publishing \ {h})
             /\ Cardinality(Publishing \ {h}) = Cardinality(Publishing) - 1
             /\ Cardinality(Publishing) > 0
  <2>1. IsFiniteSet(Publishing \ {h}) /\ Cardinality(Publishing \ {h}) = Cardinality(Publishing) - 1
    BY <1>2, <1>4, FS_RemoveElement
  <2>2. Cardinality(Publishing \ {h}) \in Nat
    BY <2>1, FS_CardinalityType
  <2> QED BY <1>3, <2>1, <2>2
<1>5. ASSUME NEW h \in Handlers \ Publishing
      PROVE  Cardinality(Publishing \cup {h}) = Cardinality(Publishing) + 1
  BY <1>2, <1>5, FS_AddElement
<1> QED
  BY <1>2, <1>3, <1>4, <1>5

\* One handler moves: it joins or leaves those between semaphore and channel.
LEMMA PublishingMoves ==
  ASSUME TypeOK, NEW h \in Handlers, NEW v \in HandlerState, hs' = [hs EXCEPT ![h] = v]
  PROVE  Publishing' = IF v.pc = "pub" THEN Publishing \cup {h} ELSE Publishing \ {h}
<1>1. hs \in [Handlers -> HandlerState]
  BY Facts
<1>2. \A g \in Handlers : hs'[g] = IF g = h THEN v ELSE hs[g]
  BY <1>1
<1> QED
  BY <1>2 DEF Publishing

LEMMA WindowKept ==
  ASSUME TypeOK, Permits
  PROVE  /\ sem \in Nat /\ sem <= Window /\ Window \in Nat /\ Len(acks) \in Nat
         /\ acks # <<>> => sem > 0
         /\ \A h \in Handlers : hs[h].pc = "pub" => sem > 0 /\ Len(acks) < Window
<1>1. /\ sem \in Nat /\ sem <= Window /\ Window \in Nat /\ Len(acks) \in Nat
      /\ acks # <<>> => Len(acks) > 0
  <2>1. acks \in Seq(Message) /\ sem \in 0 .. Window /\ Window \in Nat
    BY BridgeAssumption DEF TypeOK, Message
  <2> QED BY <2>1
<1>2. Cardinality(Publishing) \in Nat /\ \A h \in Publishing : Cardinality(Publishing) > 0
  BY PublishingFinite
<1>3. ASSUME NEW h \in Handlers, hs[h].pc = "pub" PROVE sem > 0 /\ Len(acks) < Window
  <2>1. Cardinality(Publishing) > 0
    BY <1>2, <1>3 DEF Publishing
  <2> QED BY <1>1, <1>2, <2>1 DEF Permits
<1> QED
  BY <1>1, <1>2, <1>3 DEF Permits

LEMMA PermitStep ==
  ASSUME TypeOK, Permits, [Next]_vars
  PROVE  sem' \in 0 .. Window /\ Permits'
<1> DEFINE Q == sem' \in 0 .. Window /\ Permits'
<1>0. /\ sem \in Nat /\ sem <= Window /\ Window \in Nat /\ Len(acks) \in Nat
      /\ acks # <<>> => sem > 0
      /\ \A h \in Handlers : hs[h].pc = "pub" => sem > 0 /\ Len(acks) < Window
  BY WindowKept
<1>1. /\ Cardinality(Publishing) \in Nat
      /\ \A h \in Publishing : Cardinality(Publishing \ {h}) = Cardinality(Publishing) - 1
      /\ \A h \in Handlers \ Publishing :
            Cardinality(Publishing \cup {h}) = Cardinality(Publishing) + 1
  BY PublishingFinite
<1>2. /\ acks \in Seq(Message) /\ IdleHandler \in HandlerState /\ IdleHandler.pc = "idle"
      /\ \A h \in Handlers : hs[h].pc # "idle" => hs[h].m \in Message
  BY Facts DEF IdleHandler
<1>3. ASSUME NEW h \in Handlers, NEW m \in Msgs, Handle(h, m) PROVE Q
  <2> DEFINE v == [pc |-> "sem", m |-> m]
  <2>1. v \in HandlerState /\ hs' = [hs EXCEPT ![h] = v] /\ h \notin Publishing /\ sem' = sem /\ acks' = acks
    BY <1>3 DEF Handle, HandlerState, Publishing
  <2>2. Publishing' = Publishing
    BY <2>1, PublishingMoves
  <2> QED BY <1>0, <2>1, <2>2 DEF Permits
<1>4. ASSUME NEW h \in Handlers, AcquireSem(h) PROVE Q
  <2> DEFINE v == [hs[h] EXCEPT !.pc = "pub"]
  <2>1. hs[h].pc = "sem" /\ sem < Window /\ sem' = sem + 1 /\ acks' = acks /\ hs' = [hs EXCEPT ![h].pc = "pub"]
    BY <1>4 DEF AcquireSem
  <2>2. hs[h] \in [pc : {"sem", "pub"}, m : Telemetry \cup Events]
    BY <2>1, Facts DEF HandlerState, IdleHandler
  <2>3. v \in HandlerState /\ v.pc = "pub" /\ hs' = [hs EXCEPT ![h] = v]
    BY <2>1, <2>2 DEF HandlerState
  <2> HIDE DEF v
  <2>4. Publishing' = Publishing \cup {h}
    BY <2>3, PublishingMoves
  <2>5. h \in Handlers \ Publishing
    BY <2>1 DEF Publishing
  <2> QED BY <1>0, <1>1, <2>1, <2>4, <2>5 DEF Permits
<1>5. ASSUME NEW h \in Handlers, PublishAsyncOk(h) \/ PublishAsyncErr(h) PROVE Q
  <2>1. hs[h].pc = "pub" /\ hs' = [hs EXCEPT ![h] = IdleHandler] /\ hs[h].m \in Message
    BY <1>2, <1>5 DEF PublishAsyncOk, PublishAsyncErr
  <2>2. Publishing' = Publishing \ {h} /\ h \in Publishing
    BY <1>2, <2>1, PublishingMoves DEF Publishing
  <2>3. CASE PublishAsyncOk(h)
    <3>1. sem' = sem /\ acks' = Append(acks, hs[h].m)
      BY <2>3 DEF PublishAsyncOk
    <3>2. Len(acks') = Len(acks) + 1
      BY <1>2, <2>1, <3>1
    <3> QED BY <1>0, <1>1, <2>2, <3>1, <3>2 DEF Permits
  <2>4. CASE PublishAsyncErr(h)
    <3>1. sem' = sem - 1 /\ acks' = acks
      BY <2>4 DEF PublishAsyncErr
    <3> QED BY <1>0, <1>1, <2>1, <2>2, <3>1 DEF Permits
  <2> QED BY <1>5, <2>3, <2>4
<1>6. CASE AckLoopOk \/ AckLoopFail
  <2>1. acks # <<>> /\ acks' = Tail(acks) /\ sem' = sem - 1 /\ hs' = hs
    BY <1>6 DEF AckLoopOk, AckLoopFail
  <2>2. Len(acks') = Len(acks) - 1
    BY <1>2, <2>1, ToSetTail
  <2>3. Publishing' = Publishing
    BY <2>1 DEF Publishing
  <2> QED BY <1>0, <1>1, <2>1, <2>2, <2>3 DEF Permits
<1>7. CASE Exit
  <2>1. sem' = 0 /\ acks' = <<>> /\ hs' = [h \in Handlers |-> IdleHandler]
    BY <1>7 DEF Exit
  <2>2. Publishing' = {}
    BY <2>1 DEF Publishing, IdleHandler
  <2> QED BY <1>0, <2>1, <2>2, FS_EmptySet DEF Permits
<1>8. ASSUME \/ UNCHANGED vars
             \/ \E m \in Msgs : HandleBadTopic(m) \/ HandleWhenClosed(m) \/ JSStore(m) \/ JSRefuse(m)
             \/ ReplayStart \/ ReplayPublishOk \/ ReplayPublishErr \/ ReplayCarryOver
             \/ ReplayScanEnd \/ ReplayRequeue \/ ReplayRequeueErr \/ ReplayRemove
             \/ Shutdown \/ Close \/ Restart
      PROVE  Q
  <2>1. sem' = sem /\ acks' = acks /\ hs' = hs
    BY <1>8 DEF vars, HandleBadTopic, HandleWhenClosed, JSStore, JSRefuse, ReplayStart,
       ReplayPublishOk, ReplayPublishErr, ReplayCarryOver, ReplayScanEnd, ReplayRequeue,
       ReplayRequeueErr, ReplayRemove, Shutdown, Close, Restart
  <2>2. Publishing' = Publishing
    BY <2>1 DEF Publishing
  <2> QED BY <1>0, <2>1, <2>2 DEF Permits
<1> QED
  BY <1>3, <1>4, <1>5, <1>6, <1>7, <1>8 DEF Next

LEMMA LockStep ==
  ASSUME TypeOK, LockHeld, [Next]_vars
  PROVE  LockHeld'
<1>0. hs \in [Handlers -> HandlerState] /\ IdleHandler.pc = "idle"
  BY Facts DEF IdleHandler
<1>1. ASSUME NEW h \in Handlers, NEW m \in Msgs, Handle(h, m) PROVE LockHeld'
  BY <1>0, <1>1 DEF Handle, LockHeld, procVars
<1>2. ASSUME NEW h \in Handlers, AcquireSem(h) PROVE LockHeld'
  BY <1>0, <1>2 DEF AcquireSem, LockHeld, procVars
<1>3. ASSUME NEW h \in Handlers, PublishAsyncOk(h) \/ PublishAsyncErr(h) PROVE LockHeld'
  <2>1. hs' = [hs EXCEPT ![h] = IdleHandler] /\ closed' = closed
    BY <1>3 DEF PublishAsyncOk, PublishAsyncErr, procVars
  <2> QED BY <1>0, <2>1 DEF LockHeld
<1>4. CASE Close
  BY <1>4 DEF Close, LockHeld
<1>5. CASE Exit
  BY <1>0, <1>5 DEF Exit, LockHeld
<1>6. ASSUME \/ UNCHANGED vars
             \/ \E m \in Msgs : HandleBadTopic(m) \/ HandleWhenClosed(m) \/ JSStore(m) \/ JSRefuse(m)
             \/ AckLoopOk \/ AckLoopFail
             \/ ReplayStart \/ ReplayPublishOk \/ ReplayPublishErr \/ ReplayCarryOver
             \/ ReplayScanEnd \/ ReplayRequeue \/ ReplayRequeueErr \/ ReplayRemove
             \/ Shutdown \/ Restart
      PROVE  LockHeld'
  <2>1. hs' = hs /\ closed' = closed
    BY <1>6 DEF vars, procVars, HandleBadTopic, HandleWhenClosed, JSStore, JSRefuse, AckLoopOk,
       AckLoopFail, ReplayStart, ReplayPublishOk, ReplayPublishErr, ReplayCarryOver, ReplayScanEnd,
       ReplayRequeue, ReplayRequeueErr, ReplayRemove, Shutdown, Restart
  <2> QED BY <2>1 DEF LockHeld
<1> QED
  BY <1>1, <1>2, <1>3, <1>4, <1>5, <1>6 DEF Next

-----------------------------------------------------------------------------
(* Nothing is lost.                                                        *)

LEMMA StreamGrows ==
  ASSUME [Next]_vars
  PROVE  stream \subseteq stream'
BY DEF Next, vars, jsVars, HandleBadTopic, HandleWhenClosed, Handle, AcquireSem, PublishAsyncOk,
   PublishAsyncErr, JSStore, JSRefuse, AckLoopOk, AckLoopFail, ReplayStart, ReplayPublishOk,
   ReplayPublishErr, ReplayCarryOver, ReplayScanEnd, ReplayRequeue, ReplayRequeueErr,
   ReplayRemove, Shutdown, Close, Exit, Restart

LEMMA AckedStep ==
  ASSUME TypeOK, AckedStored, [Next]_vars
  PROVE  AckedStored'
<1>0. fut \in [Msgs -> {"none", "wait", "ok", "err"}] /\ stream \subseteq stream'
  BY Facts, StreamGrows
<1>1. ASSUME NEW m \in Msgs, NEW x \in {"none", "wait", "ok", "err"}, fut' = [fut EXCEPT ![m] = x],
             x = "ok" => m \in stream'
      PROVE  AckedStored'
  BY <1>0, <1>1 DEF AckedStored
<1>2. ASSUME NEW m \in Msgs, JSStore(m) PROVE AckedStored'
  <2>1. m \in stream' /\ (fut' = fut \/ fut' = [fut EXCEPT ![m] = "ok"])
    BY <1>2 DEF JSStore
  <2> QED BY <1>0, <1>1, <2>1 DEF AckedStored
<1>3. ASSUME NEW m \in Msgs, JSRefuse(m) PROVE AckedStored'
  <2>1. fut' = fut \/ fut' = [fut EXCEPT ![m] = "err"]
    BY <1>3 DEF JSRefuse
  <2> QED BY <1>0, <1>1, <2>1 DEF AckedStored
<1>4. ASSUME NEW h \in Handlers, PublishAsyncOk(h) PROVE AckedStored'
  <2>1. hs[h].m \in Msgs /\ fut' = [fut EXCEPT ![hs[h].m] = "wait"]
    BY <1>4, Facts DEF PublishAsyncOk
  <2> QED BY <1>1, <2>1
<1>5. CASE AckLoopOk \/ AckLoopFail
  <2>1. acks # <<>> /\ fut' = [fut EXCEPT ![Head(acks)] = "none"]
    BY <1>5 DEF AckLoopOk, AckLoopFail
  <2>2. Head(acks) \in Msgs
    BY <2>1, Facts, ToSetTail
  <2> QED BY <1>1, <2>1, <2>2
<1>6. CASE Exit
  BY <1>6 DEF Exit, AckedStored
<1>7. ASSUME \/ UNCHANGED vars
             \/ \E m \in Msgs : HandleBadTopic(m) \/ HandleWhenClosed(m)
             \/ \E h \in Handlers, m \in Msgs : Handle(h, m)
             \/ \E h \in Handlers : AcquireSem(h) \/ PublishAsyncErr(h)
             \/ ReplayStart \/ ReplayPublishOk \/ ReplayPublishErr \/ ReplayCarryOver
             \/ ReplayScanEnd \/ ReplayRequeue \/ ReplayRequeueErr \/ ReplayRemove
             \/ Shutdown \/ Close \/ Restart
      PROVE  AckedStored'
  <2>1. fut' = fut
    BY <1>7 DEF vars, HandleBadTopic, HandleWhenClosed, Handle, AcquireSem, PublishAsyncErr,
       ReplayStart, ReplayPublishOk, ReplayPublishErr, ReplayCarryOver, ReplayScanEnd,
       ReplayRequeue, ReplayRequeueErr, ReplayRemove, Shutdown, Close, Restart
  <2> QED BY <1>0, <2>1 DEF AckedStored
<1> QED
  BY <1>2, <1>3, <1>4, <1>5, <1>6, <1>7 DEF Next

\* The buffer file only grows, but for the rename that starts a round.
LEMMA FileGrows ==
  ASSUME TypeOK, [Next]_vars, ~ReplayStart
  PROVE  /\ ToSet(main) \subseteq ToSet(main') /\ bufferErr \subseteq bufferErr'
         /\ unread \subseteq unread' /\ exitLost \subseteq exitLost'
<1> DEFINE Q == /\ ToSet(main) \subseteq ToSet(main') /\ bufferErr \subseteq bufferErr'
                /\ unread \subseteq unread' /\ exitLost \subseteq exitLost'
<1>1. ASSUME NEW m \in Message, OnFailure(m), UNCHANGED procVars PROVE Q
  <2>1. /\ ToSet(main) \subseteq ToSet(main') /\ bufferErr \subseteq bufferErr' /\ unread' = unread
    BY <1>1, OnFailureEffect DEF Message
  <2> QED BY <1>1, <2>1 DEF procVars
<1>2. ASSUME NEW m \in Msgs, HandleWhenClosed(m) PROVE Q
  <2>1. m \in Message /\ OnFailure(m) /\ UNCHANGED procVars
    BY <1>2 DEF HandleWhenClosed, Message
  <2> QED BY <1>1, <2>1
<1>3. ASSUME NEW h \in Handlers, PublishAsyncErr(h) PROVE Q
  <2>1. hs[h].m \in Message /\ OnFailure(hs[h].m) /\ UNCHANGED procVars
    BY <1>3, Facts DEF PublishAsyncErr
  <2> QED BY <1>1, <2>1
<1>4. CASE AckLoopFail
  <2>1. Head(acks) \in Message /\ OnFailure(Head(acks)) /\ UNCHANGED procVars
    BY <1>4, Facts, ToSetTail DEF AckLoopFail
  <2> QED BY <1>1, <2>1
<1>5. CASE ReplayRequeue
  <2>1. main' = main \o rp.requeue /\ UNCHANGED procVars /\ UNCHANGED lossVars
    BY <1>5 DEF ReplayRequeue
  <2>2. ToSet(main) \subseteq ToSet(main')
    BY <2>1, Facts, ToSetConcat
  <2> QED BY <2>1, <2>2 DEF procVars, lossVars
<1>6. ASSUME \/ UNCHANGED vars
             \/ \E m \in Msgs : HandleBadTopic(m) \/ JSStore(m) \/ JSRefuse(m)
             \/ \E h \in Handlers, m \in Msgs : Handle(h, m)
             \/ \E h \in Handlers : AcquireSem(h) \/ PublishAsyncOk(h)
             \/ AckLoopOk \/ ReplayPublishOk \/ ReplayPublishErr \/ ReplayCarryOver
             \/ ReplayScanEnd \/ ReplayRequeueErr \/ ReplayRemove
             \/ Shutdown \/ Close \/ Exit \/ Restart
      PROVE  Q
  <2>1. /\ main' = main /\ bufferErr' = bufferErr
        /\ unread \subseteq unread' /\ exitLost \subseteq exitLost'
    BY <1>6 DEF vars, fileVars, procVars, lossVars, HandleBadTopic, JSStore, JSRefuse, Handle,
       AcquireSem, PublishAsyncOk, AckLoopOk, ReplayPublishOk, ReplayPublishErr, ReplayCarryOver,
       ReplayScanEnd, ReplayRequeueErr, ReplayRemove, Shutdown, Close, Exit, Restart
  <2> QED BY <2>1
<1> QED
  BY <1>2, <1>3, <1>4, <1>5, <1>6 DEF Next

LEMMA RoundStep ==
  ASSUME TypeOK, RoundKept, [Next]_vars
  PROVE  RoundKept'
<1> DEFINE n == Len(replay.lines)
<1>0. /\ main \in Seq(Events) /\ replay.lines \in Seq(Events) /\ rp.requeue \in Seq(Events)
      /\ rp.pos \in Nat \ {0} /\ rp.pc \in {"idle", "scan", "requeue", "remove"} /\ n \in Nat
      /\ rp \in [pc : {"idle", "scan", "requeue", "remove"}, pos : Nat \ {0},
                 requeue : Seq(Events), failed : BOOLEAN]
      /\ stream \subseteq stream'
  BY Facts, StreamGrows
<1>1. ASSUME rp' = rp, replay' = replay, ~ReplayStart PROVE RoundKept'
  <2>1. ToSet(main) \subseteq ToSet(main')
    BY <1>1, FileGrows
  <2> QED BY <1>0, <1>1, <2>1 DEF RoundKept
<1>2. ASSUME rp' = IdleReplay PROVE RoundKept'
  BY <1>2 DEF RoundKept, IdleReplay
<1>3. CASE ReplayStart
  <2>1. rp'.pc = "scan" /\ rp'.pos = 1
    BY <1>3 DEF ReplayStart, IdleReplay
  <2> QED BY <2>1 DEF RoundKept
<1>4. CASE ReplayPublishOk
  <2>1. /\ rp.pc = "scan" /\ stream' = stream \cup {replay.lines[rp.pos]} /\ replay' = replay
        /\ rp'.pc = "scan" /\ rp'.pos = rp.pos + 1 /\ rp'.requeue = rp.requeue
    BY <1>0, <1>4 DEF ReplayPublishOk, fileVars
  <2>2. ASSUME NEW i \in 1 .. n, i < rp.pos + 1
        PROVE  replay.lines[i] \in stream' \cup ToSet(rp.requeue)
    <3>1. i < rp.pos \/ i = rp.pos
      BY <1>0, <2>2
    <3> QED BY <2>1, <2>2, <3>1 DEF RoundKept
  <2> QED BY <2>1, <2>2 DEF RoundKept
<1>5. CASE ReplayPublishErr \/ ReplayCarryOver
  <2>1. /\ rp.pc = "scan" /\ rp.pos <= n /\ replay' = replay
        /\ rp'.pc = "scan" /\ rp'.pos = rp.pos + 1
        /\ rp'.requeue = Append(rp.requeue, replay.lines[rp.pos])
    BY <1>0, <1>5 DEF ReplayPublishErr, ReplayCarryOver, fileVars
  <2>2. replay.lines[rp.pos] \in Events
    BY <1>0, <2>1
  <2>3. ToSet(rp'.requeue) = ToSet(rp.requeue) \cup {replay.lines[rp.pos]}
    BY <1>0, <2>1, <2>2, ToSetAppend
  <2>4. ASSUME NEW i \in 1 .. n, i < rp.pos + 1
        PROVE  replay.lines[i] \in stream' \cup ToSet(rp'.requeue)
    <3>1. i < rp.pos \/ i = rp.pos
      BY <1>0, <2>4
    <3> QED BY <1>0, <2>1, <2>3, <2>4, <3>1 DEF RoundKept
  <2> QED BY <2>1, <2>4 DEF RoundKept
<1>6. CASE ReplayScanEnd
  <2>1. /\ rp.pc = "scan" /\ replay' = replay
        /\ rp'.pc = IF rp.requeue = <<>> THEN "remove" ELSE "requeue"
        /\ rp'.pos = rp.pos /\ rp'.requeue = rp.requeue
    BY <1>0, <1>6 DEF ReplayScanEnd, fileVars
  <2>2. \A i \in 1 .. n : i < rp.pos => replay.lines[i] \in stream' \cup ToSet(rp.requeue)
    BY <1>0, <2>1 DEF RoundKept
  <2>3. CASE rp.requeue = <<>>
    BY <2>1, <2>2, <2>3, ToSetEmpty DEF RoundKept
  <2>4. CASE rp.requeue # <<>>
    BY <2>1, <2>2, <2>4 DEF RoundKept
  <2> QED BY <2>3, <2>4
<1>7. CASE ReplayRequeue
  <2>1. /\ rp.pc = "requeue" /\ replay' = replay /\ main' = main \o rp.requeue
        /\ rp'.pc = "remove" /\ rp'.pos = rp.pos
    BY <1>0, <1>7 DEF ReplayRequeue
  <2>2. ToSet(rp.requeue) \subseteq ToSet(main')
    BY <1>0, <2>1, ToSetConcat
  <2> QED BY <1>0, <2>1, <2>2 DEF RoundKept
<1>8. CASE ReplayRequeueErr \/ ReplayRemove \/ Exit
  BY <1>2, <1>8 DEF ReplayRequeueErr, ReplayRemove, Exit
<1>9. ASSUME ~ReplayStart,
             \/ UNCHANGED vars
             \/ \E m \in Msgs : HandleBadTopic(m) \/ HandleWhenClosed(m) \/ JSStore(m) \/ JSRefuse(m)
             \/ \E h \in Handlers, m \in Msgs : Handle(h, m)
             \/ \E h \in Handlers : AcquireSem(h) \/ PublishAsyncOk(h) \/ PublishAsyncErr(h)
             \/ AckLoopOk \/ AckLoopFail \/ Shutdown \/ Close \/ Restart
      PROVE  RoundKept'
  <2>1. rp' = rp /\ replay' = replay
    BY <1>9 DEF vars, fileVars, HandleBadTopic, HandleWhenClosed, JSStore, JSRefuse, Handle,
       AcquireSem, PublishAsyncOk, PublishAsyncErr, AckLoopOk, AckLoopFail, Shutdown, Close, Restart
  <2> QED BY <1>1, <1>9, <2>1
<1> QED
  BY <1>3, <1>4, <1>5, <1>6, <1>7, <1>8, <1>9 DEF Next

LEMMA FileStep ==
  ASSUME TypeOK, FileEmpty, [Next]_vars
  PROVE  FileEmpty'
<1>1. CASE ReplayStart
  BY <1>1 DEF ReplayStart, fileVars, FileEmpty
<1>2. CASE ReplayRemove
  BY <1>2 DEF ReplayRemove, NoReplayFile, FileEmpty
<1>3. ASSUME ~ReplayStart, ~ReplayRemove PROVE replay' = replay
  BY <1>3 DEF Next, vars, fileVars, HandleBadTopic, HandleWhenClosed, Handle, AcquireSem,
     PublishAsyncOk, PublishAsyncErr, JSStore, JSRefuse, AckLoopOk, AckLoopFail, ReplayPublishOk,
     ReplayPublishErr, ReplayCarryOver, ReplayScanEnd, ReplayRequeue, ReplayRequeueErr,
     Shutdown, Close, Exit, Restart
<1> QED
  BY <1>1, <1>2, <1>3 DEF FileEmpty

-----------------------------------------------------------------------------
(* Where an event can be.                                                  *)
Whereabouts == stream \cup InMemory \cup ToSet(main) \cup ToSet(replay.lines)
               \cup bufferErr \cup exitLost \cup unread

LEMMA AccountedBy ==
  ASSUME TypeOK, EventsAccounted, [Next]_vars,
         \A m \in Events : m \in Whereabouts => m \in Whereabouts',
         \A m \in (arrived' \ arrived) \cap Events : m \in Whereabouts'
  PROVE  EventsAccounted'
<1>1. Events' = Events
  BY KindKept, KindStays
<1> QED
  BY <1>1 DEF EventsAccounted, Whereabouts

LEMMA InMemoryIs ==
  /\ \A m : m \in InMemory <=> m \in ToSet(acks) \/ \E h \in Handlers : hs[h].pc # "idle" /\ hs[h].m = m
  /\ \A m : m \in InMemory' <=> m \in ToSet(acks') \/ \E h \in Handlers : hs'[h].pc # "idle" /\ hs'[h].m = m
BY DEF InMemory

\* A message leaves a handler or the ack queue for a place that keeps it.
LEMMA LeavesHandler ==
  ASSUME TypeOK, NEW h \in Handlers, hs' = [hs EXCEPT ![h] = IdleHandler],
         ToSet(acks) \subseteq ToSet(acks'), NEW m \in InMemory, m # hs[h].m
  PROVE  m \in InMemory'
<1>1. hs \in [Handlers -> HandlerState]
  BY Facts
<1> QED
  BY <1>1, InMemoryIs

LEMMA LeavesQueue ==
  ASSUME TypeOK, hs' = hs, acks # <<>>, acks' = Tail(acks), NEW m \in InMemory, m # Head(acks)
  PROVE  m \in InMemory'
<1>1. ToSet(acks) = {Head(acks)} \cup ToSet(acks')
  BY Facts, ToSetTail
<1> QED
  BY <1>1, InMemoryIs

LEMMA AccountStep ==
  ASSUME TypeOK, AckedStored, RoundKept, FileEmpty, EventsAccounted, [Next]_vars
  PROVE  EventsAccounted'
<1>0. /\ hs \in [Handlers -> HandlerState] /\ acks \in Seq(Message) /\ Events \subseteq Message
      /\ Message \subseteq Msgs
      /\ main \in Seq(Events) /\ replay.lines \in Seq(Events) /\ rp.pos \in Nat \ {0}
      /\ \A h \in Handlers : hs[h].pc # "idle" => hs[h].m \in Message
      /\ stream \subseteq stream'
  BY Facts, StreamGrows
<1>1. ~ReplayStart => /\ ToSet(main) \subseteq ToSet(main') /\ bufferErr \subseteq bufferErr'
                      /\ unread \subseteq unread' /\ exitLost \subseteq exitLost'
  BY FileGrows
<1>2. ASSUME ~ReplayStart, replay' = replay,
             \A m \in InMemory \cap Events : m \in Whereabouts',
             \A m \in (arrived' \ arrived) \cap Events : m \in Whereabouts'
      PROVE  EventsAccounted'
  <2>1. \A m \in Events : m \in Whereabouts => m \in Whereabouts'
    BY <1>0, <1>1, <1>2 DEF Whereabouts
  <2> QED BY <1>2, <2>1, AccountedBy
<1>3. ASSUME ~ReplayStart, replay' = replay, hs' = hs, acks' = acks,
             \A m \in (arrived' \ arrived) \cap Events : m \in Whereabouts'
      PROVE  EventsAccounted'
  <2>1. InMemory' = InMemory
    BY <1>3 DEF InMemory
  <2> QED BY <1>2, <1>3, <2>1 DEF Whereabouts
<1>4. ASSUME ~ReplayStart, NEW m \in Msgs, HandleBadTopic(m) PROVE EventsAccounted'
  <2>1. m \notin Events /\ arrived' = arrived \cup {m} /\ hs' = hs /\ acks' = acks /\ replay' = replay
    BY <1>4 DEF HandleBadTopic, BadTopic, Events, fileVars
  <2> QED BY <1>3, <1>4, <2>1
<1>5. ASSUME ~ReplayStart, NEW m \in Msgs, HandleWhenClosed(m) PROVE EventsAccounted'
  <2>1. /\ m \in Message /\ OnFailure(m) /\ arrived' = arrived \cup {m}
        /\ hs' = hs /\ acks' = acks /\ replay' = replay
    BY <1>5 DEF HandleWhenClosed, Message
  <2>2. m \in Events => m \in ToSet(main') \cup bufferErr'
    BY <2>1, OnFailureEffect DEF Message
  <2>3. \A x \in (arrived' \ arrived) \cap Events : x \in Whereabouts'
    BY <2>1, <2>2 DEF Whereabouts
  <2> QED BY <1>3, <1>5, <2>1, <2>3
<1>6. ASSUME ~ReplayStart, NEW h \in Handlers, NEW m \in Msgs, Handle(h, m) PROVE EventsAccounted'
  <2>1. /\ hs[h].pc = "idle" /\ hs' = [hs EXCEPT ![h] = [pc |-> "sem", m |-> m]] /\ acks' = acks
        /\ arrived' = arrived \cup {m} /\ replay' = replay
    BY <1>6 DEF Handle, fileVars
  <2>2. hs'[h] = [pc |-> "sem", m |-> m] /\ \A g \in Handlers : g # h => hs'[g] = hs[g]
    BY <1>0, <2>1
  <2>3. m \in InMemory'
    BY <2>2, InMemoryIs
  <2>4. InMemory \subseteq InMemory'
    BY <2>1, <2>2, InMemoryIs
  <2> QED BY <1>2, <1>6, <2>1, <2>3, <2>4 DEF Whereabouts
<1>7. ASSUME ~ReplayStart, NEW h \in Handlers, AcquireSem(h) PROVE EventsAccounted'
  <2>1. /\ hs[h].pc = "sem" /\ hs' = [hs EXCEPT ![h].pc = "pub"] /\ acks' = acks
        /\ arrived' = arrived /\ replay' = replay
    BY <1>7 DEF AcquireSem, fileVars
  <2>2. hs[h] \in [pc : {"sem", "pub"}, m : Telemetry \cup Events]
    BY <1>0, <2>1 DEF HandlerState, IdleHandler
  <2>3. hs'[h].m = hs[h].m /\ hs'[h].pc = "pub" /\ \A g \in Handlers : g # h => hs'[g] = hs[g]
    BY <1>0, <2>1, <2>2
  <2>4. InMemory \subseteq InMemory'
    BY <2>1, <2>3, InMemoryIs
  <2> QED BY <1>2, <1>7, <2>1, <2>4 DEF Whereabouts
<1>8. ASSUME ~ReplayStart, NEW h \in Handlers, PublishAsyncOk(h) PROVE EventsAccounted'
  <2>1. /\ hs[h].m \in Message /\ hs' = [hs EXCEPT ![h] = IdleHandler]
        /\ acks' = Append(acks, hs[h].m) /\ arrived' = arrived /\ replay' = replay
    BY <1>0, <1>8 DEF PublishAsyncOk, fileVars
  <2>2. ToSet(acks') = ToSet(acks) \cup {hs[h].m}
    BY <1>0, <2>1, ToSetAppend
  <2>3. hs[h].m \in InMemory'
    BY <2>2, InMemoryIs
  <2>4. \A m \in InMemory : m # hs[h].m => m \in InMemory'
    BY <2>1, <2>2, LeavesHandler
  <2> QED BY <1>2, <1>8, <2>1, <2>3, <2>4 DEF Whereabouts
<1>9. ASSUME ~ReplayStart, NEW h \in Handlers, PublishAsyncErr(h) PROVE EventsAccounted'
  <2>1. /\ hs[h].m \in Message /\ hs' = [hs EXCEPT ![h] = IdleHandler] /\ OnFailure(hs[h].m)
        /\ acks' = acks /\ arrived' = arrived /\ replay' = replay
    BY <1>0, <1>9 DEF PublishAsyncErr
  <2>2. hs[h].m \in Events => hs[h].m \in ToSet(main') \cup bufferErr'
    BY <2>1, OnFailureEffect DEF Message
  <2>3. \A m \in InMemory : m # hs[h].m => m \in InMemory'
    BY <2>1, LeavesHandler
  <2> QED BY <1>2, <1>9, <2>1, <2>2, <2>3 DEF Whereabouts
<1>10. CASE ~ReplayStart /\ AckLoopOk
  <2>1. /\ acks # <<>> /\ fut[Head(acks)] = "ok" /\ acks' = Tail(acks) /\ hs' = hs
        /\ arrived' = arrived /\ replay' = replay
    BY <1>10 DEF AckLoopOk, fileVars
  <2>2. Head(acks) \in Msgs
    BY <1>0, <2>1, ToSetTail
  <2>3. Head(acks) \in stream'
    BY <1>0, <2>1, <2>2 DEF AckedStored
  <2>4. \A m \in InMemory : m # Head(acks) => m \in InMemory'
    BY <2>1, LeavesQueue
  <2> QED BY <1>2, <1>10, <2>1, <2>3, <2>4 DEF Whereabouts
<1>11. CASE ~ReplayStart /\ AckLoopFail
  <2>1. /\ acks # <<>> /\ acks' = Tail(acks) /\ hs' = hs /\ OnFailure(Head(acks))
        /\ arrived' = arrived /\ replay' = replay
    BY <1>11 DEF AckLoopFail
  <2>2. Head(acks) \in Message
    BY <1>0, <2>1, ToSetTail
  <2>3. Head(acks) \in Events => Head(acks) \in ToSet(main') \cup bufferErr'
    BY <2>1, <2>2, OnFailureEffect DEF Message
  <2>4. \A m \in InMemory : m # Head(acks) => m \in InMemory'
    BY <2>1, LeavesQueue
  <2> QED BY <1>2, <1>11, <2>1, <2>3, <2>4 DEF Whereabouts
<1>12. CASE ~ReplayStart /\ Exit
  <2>1. exitLost' = exitLost \cup (InMemory \cap Events) /\ arrived' = arrived /\ replay' = replay
    BY <1>12 DEF Exit, fileVars
  <2> QED BY <1>2, <1>12, <2>1 DEF Whereabouts
<1>13. CASE ReplayStart
  <2>1. /\ bufferErr' = bufferErr /\ unread' = unread /\ exitLost' = exitLost
        /\ arrived' = arrived /\ hs' = hs /\ acks' = acks
    BY <1>13 DEF ReplayStart, procVars, lossVars
  <2>2. InMemory' = InMemory
    BY <2>1 DEF InMemory
  <2>3. ToSet(main) \cup ToSet(replay.lines) \subseteq ToSet(main') \cup ToSet(replay'.lines)
    <3>1. CASE main' = main /\ replay' = replay
      BY <3>1
    <3>2. CASE ~replay.exists /\ replay' = [exists |-> TRUE, lines |-> main]
      <4>1. ToSet(replay.lines) = {} /\ replay'.lines = main
        BY <3>2, ToSetEmpty DEF FileEmpty
      <4> QED BY <4>1
    <3> QED BY <1>13, <3>1, <3>2 DEF ReplayStart, fileVars
  <2>4. \A m \in Events : m \in Whereabouts => m \in Whereabouts'
    BY <1>0, <2>1, <2>2, <2>3 DEF Whereabouts
  <2> QED BY <2>1, <2>4, AccountedBy
<1>14. CASE ~ReplayStart /\ ReplayRemove
  <2> DEFINE n == Len(replay.lines)
             rest == SubSeq(replay.lines, rp.pos, n)
  <2>1. /\ rp.pc = "remove" /\ arrived' = arrived /\ hs' = hs /\ acks' = acks /\ main' = main
        /\ replay' = replay \/ unread' = unread \cup ToSet(rest)
    BY <1>14 DEF ReplayRemove
  <2>2. CASE replay' = replay
    BY <1>3, <1>14, <2>1, <2>2
  <2>3. CASE unread' = unread \cup ToSet(rest)
    <3>1. n \in Nat /\ rest \in Seq(Events) /\ ToSet(replay.lines) = {replay.lines[i] : i \in 1 .. n}
      <4>1. n \in Nat /\ rest \in Seq(Events)
        BY <1>0
      <4> QED BY <1>0, <4>1, ToSetOf
    <3>2. ASSUME NEW i \in 1 .. n, i >= rp.pos PROVE replay.lines[i] \in ToSet(rest)
      BY <1>0, <3>2, ToSetFrom
    <3>3. \A i \in 1 .. n : i < rp.pos => replay.lines[i] \in stream \cup ToSet(main)
      BY <2>1 DEF RoundKept
    <3>4. ToSet(replay.lines) \subseteq stream' \cup ToSet(main') \cup unread'
      <4>1. ASSUME NEW i \in 1 .. n PROVE replay.lines[i] \in stream' \cup ToSet(main') \cup unread'
        <5>1. i < rp.pos \/ i >= rp.pos
          BY <1>0, <3>1
        <5>2. CASE i < rp.pos
          BY <1>0, <2>1, <3>3, <5>2
        <5>3. CASE i >= rp.pos
          BY <2>3, <3>2, <5>3
        <5> QED BY <5>1, <5>2, <5>3
      <4> QED BY <3>1, <4>1
    <3>5. InMemory' = InMemory
      BY <2>1 DEF InMemory
    <3>6. \A m \in Events : m \in Whereabouts => m \in Whereabouts'
      BY <1>0, <1>1, <1>14, <3>4, <3>5 DEF Whereabouts
    <3> QED BY <2>1, <3>6, AccountedBy
  <2> QED BY <2>1, <2>2, <2>3
<1>15. ASSUME ~ReplayStart,
              \/ UNCHANGED vars
              \/ \E m \in Msgs : JSStore(m) \/ JSRefuse(m)
              \/ ReplayPublishOk \/ ReplayPublishErr \/ ReplayCarryOver
              \/ ReplayScanEnd \/ ReplayRequeue \/ ReplayRequeueErr
              \/ Shutdown \/ Close \/ Restart
       PROVE  EventsAccounted'
  <2>1. hs' = hs /\ acks' = acks /\ arrived' = arrived /\ replay' = replay
    BY <1>15 DEF vars, fileVars, JSStore, JSRefuse, ReplayPublishOk, ReplayPublishErr,
       ReplayCarryOver, ReplayScanEnd, ReplayRequeue, ReplayRequeueErr, Shutdown, Close, Restart
  <2> QED BY <1>3, <1>15, <2>1
<1> QED
  BY <1>4, <1>5, <1>6, <1>7, <1>8, <1>9, <1>10, <1>11, <1>12, <1>13, <1>14, <1>15 DEF Next

-----------------------------------------------------------------------------
(* The theorems.                                                           *)

LEMMA InitHolds == Init => BridgeInv
<1> SUFFICES ASSUME Init PROVE BridgeInv
  OBVIOUS
<1>1. TypeOK
  <2>1. 0 \in 0 .. Window /\ 0 \in 0 .. MaxExits /\ 0 \in 0 .. MaxDiskErrs
    BY BridgeAssumption
  <2>2. hs \in [Handlers -> HandlerState] /\ fut \in [Msgs -> {"none", "wait", "ok", "err"}]
    BY DEF Init, HandlerState
  <2>3. replay \in [exists : BOOLEAN, lines : Seq(Events)] /\ <<>> \in Seq(Events) /\ 1 \in Nat \ {0}
    BY DEF Init, NoReplayFile
  <2>4. rp \in [pc : {"idle", "scan", "requeue", "remove"}, pos : Nat \ {0},
                requeue : Seq(Events), failed : BOOLEAN]
    BY <2>3 DEF Init, IdleReplay
  <2>5. /\ kind \in [Msgs -> Kinds] /\ arrived = {} /\ sem = 0 /\ acks = <<>> /\ wire = {}
        /\ stream = {} /\ main = <<>> /\ closed = FALSE /\ up = "running" /\ exits = 0
        /\ diskErrs = 0 /\ dropped = {} /\ bufferErr = {} /\ exitLost = {} /\ unread = {}
    BY DEF Init
  <2>6. acks \in Seq(Telemetry \cup Events) /\ main \in Seq(Events)
    BY <2>5
  <2> QED BY <2>1, <2>2, <2>3, <2>4, <2>5, <2>6 DEF TypeOK
<1>2. LockHeld /\ AckedStored /\ RoundKept /\ FileEmpty /\ EventsAccounted
  BY DEF Init, LockHeld, AckedStored, RoundKept, FileEmpty, EventsAccounted, IdleHandler,
     IdleReplay, NoReplayFile
<1>3. Publishing = {}
  BY DEF Init, Publishing, IdleHandler
<1>4. Permits
  BY <1>3, FS_EmptySet DEF Init, Permits
<1> QED
  BY <1>1, <1>2, <1>4 DEF BridgeInv

LEMMA Inductive == BridgeInv /\ [Next]_vars => BridgeInv'
<1> SUFFICES ASSUME BridgeInv, [Next]_vars PROVE BridgeInv'
  OBVIOUS
<1>1. TypeOK'
  <2>1. kind' = kind /\ kind \in [Msgs -> Kinds]
    BY KindKept DEF BridgeInv, TypeOK
  <2>2. Telemetry' = Telemetry /\ Events' = Events /\ HandlerState' = HandlerState
    BY <2>1, KindStays
  <2>3. sem' \in 0 .. Window
    BY PermitStep DEF BridgeInv
  <2> QED BY <2>1, <2>2, <2>3, MessageTypes, FileTypes, LossTypes DEF BridgeInv, TypeOK, Message
<1> QED
  BY <1>1, LockStep, PermitStep, AckedStep, RoundStep, FileStep, AccountStep DEF BridgeInv

\* The inductive invariant holds in every state of the bridge.
THEOREM InvariantHolds == Spec => []BridgeInv
<1> QED
  BY InitHolds, Inductive, PTL DEF Spec

\* Every variable keeps to its type; in particular the permits in use never
\* exceed the window (bridge.go New, Handle, ackLoop).
THEOREM TypeCorrect == Spec => []TypeOK
<1>1. BridgeInv => TypeOK
  BY DEF BridgeInv
<1> QED
  BY <1>1, InvariantHolds, PTL

\* A goroutine about to send on b.acks finds it open and with room, and the
\* permits in use are exactly those that will be given back (bridge.go Handle,
\* Close, ackLoop).
THEOREM WindowHolds == Spec => []WindowSound
<1>1. BridgeInv => WindowSound
  BY WindowKept DEF BridgeInv, LockHeld, Permits, Publishing, WindowSound
<1> QED
  BY <1>1, InvariantHolds, PTL

\* An event that entered Handle is stored, in the window, or in a file, or one
\* of the counted or named losses took it, through late answers, failed
\* publications, interrupted rounds of Replay and any number of process exits
\* (bridge.go onFailure, buffer.go Replay).
THEOREM NoEventVanishes == Spec => []EventsAccounted
<1>1. BridgeInv => EventsAccounted
  BY DEF BridgeInv
<1> QED
  BY <1>1, InvariantHolds, PTL
=============================================================================
