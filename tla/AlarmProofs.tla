----------------------------- MODULE AlarmProofs -----------------------------
(***************************************************************************)
(* What holds of alarm-svc for any number of replicas, events, faults and  *)
(* rows: an event that left the stream is accounted for, no step rewrites  *)
(* an alarm's history, and a reconciliation round repairs what it was due  *)
(* to repair.                                                              *)
(***************************************************************************)
EXTENDS Alarm, TLAPS

-----------------------------------------------------------------------------
(* Types.                                                                  *)

JobRec == [pc : {"idle", "squelch", "insert", "notify", "mark"}, ev : Events \cup {None}, id : 0 .. MaxAlarms]

RoundRec == [pc : {"idle", "alarms", "create"}, since : Nat, evs : SUBSET Events, known : SUBSET Events,
             due : SUBSET Events, failed : BOOLEAN]

\* What TypeOK says of the locals of one handler: past its INSERT it holds the
\* id of a row of its own event.
OwnRow(j, rows) ==
    /\ (j.pc = "idle") <=> (j.ev = None)
    /\ j.pc \in {"notify", "mark"} => j.id \in DOMAIN rows /\ rows[j.id].ev = j.ev

\* Rows are neither deleted nor given to another event.
RowsKept ==
    /\ alarms' \in Seq(Rows) /\ Len(alarms') <= MaxAlarms
    /\ \A i \in DOMAIN alarms : i \in DOMAIN alarms' /\ alarms'[i].ev = alarms[i].ev

LEMMA InitType == Init => TypeOK
  BY AlarmConstants DEF Init, TypeOK, Idle, NoRound, NoKey, NoTime, Actors, Rows, Status

LEMMA JobFacts ==
    ASSUME TypeOK, NEW a \in Actors
    PROVE  /\ job[a] \in JobRec
           /\ OwnRow(job[a], alarms)
           /\ job[a].pc # "idle" => job[a].ev \in Events
  BY AlarmConstants DEF TypeOK, JobRec, OwnRow

\* A step in which at most one thread moves, to locals that own their row.
LEMMA JobStep ==
    ASSUME TypeOK, RowsKept, NEW a \in Actors, NEW v \in JobRec,
           job' = [job EXCEPT ![a] = v], OwnRow(v, alarms')
    PROVE  /\ job' \in [Actors -> JobRec]
           /\ \A b \in Actors : OwnRow(job'[b], alarms')
           /\ job'[a] = v
           /\ \A b \in Actors \ {a} : job'[b] = job[b]
<1>1. job \in [Actors -> JobRec]
  BY DEF TypeOK, JobRec
<1>2. /\ job' \in [Actors -> JobRec] /\ job'[a] = v
      /\ \A b \in Actors \ {a} : job'[b] = job[b]
  BY <1>1
<1>3. ASSUME NEW b \in Actors PROVE OwnRow(job'[b], alarms')
  <2>1. CASE b = a
    BY <1>2, <2>1
  <2>2. CASE b # a
    BY <1>2, <2>2, JobFacts DEF OwnRow, RowsKept
  <2> QED BY <2>1, <2>2
<1> QED BY <1>2, <1>3

LEMMA NoJobStep ==
    ASSUME TypeOK, RowsKept, job' = job
    PROVE  job' \in [Actors -> JobRec] /\ \A b \in Actors : OwnRow(job'[b], alarms')
<1>1. job \in [Actors -> JobRec]
  BY DEF TypeOK, JobRec
<1>2. ASSUME NEW b \in Actors PROVE OwnRow(job'[b], alarms')
  BY JobFacts DEF OwnRow, RowsKept
<1> QED BY <1>1, <1>2

\* Rows are only appended, marked, acknowledged, closed and escalated.
LEMMA RowsStep == TypeOK /\ [Next]_vars => RowsKept
<1> SUFFICES ASSUME TypeOK, [Next]_vars PROVE RowsKept
  OBVIOUS
<1> USE AlarmConstants
<1>0. alarms \in Seq(Rows) /\ Len(alarms) \in Nat /\ Len(alarms) <= MaxAlarms /\ DOMAIN alarms = 1 .. Len(alarms)
  BY DEF TypeOK
<1>1. CASE UNCHANGED alarms
  BY <1>0, <1>1 DEF RowsKept
<1>2. ASSUME NEW a \in Actors, Insert(a) PROVE RowsKept
  <2> DEFINE r == [ev |-> job[a].ev, status |-> "open", notifiedAt |-> NoTime, escalatedAt |-> NoTime]
  <2>1. r \in Rows
    BY <1>2, JobFacts DEF Insert, Rows, Status, NoTime
  <2>2. alarms' = Append(alarms, r) /\ Len(alarms) < MaxAlarms
    BY <1>2 DEF Insert
  <2> QED BY <1>0, <2>1, <2>2 DEF RowsKept
<1>3. ASSUME NEW i \in DOMAIN alarms, NEW r \in Rows, r.ev = alarms[i].ev,
             alarms' = [alarms EXCEPT ![i] = r]
      PROVE  RowsKept
  BY <1>0, <1>3 DEF RowsKept
<1>4. ASSUME NEW a \in Actors, MarkNotified(a) PROVE RowsKept
  <2> DEFINE i == job[a].id
             r == MarkedRow(alarms[i])
  <2>1. i \in DOMAIN alarms
    BY <1>4, JobFacts DEF MarkNotified, OwnRow
  <2>2. alarms[i] \in Rows
    BY <1>0, <2>1
  <2>3. r \in Rows /\ r.ev = alarms[i].ev
    <3>1. now \in 0 .. NoTime
      BY DEF TypeOK, NoTime
    <3>2. r = alarms[i] \/ r = [alarms[i] EXCEPT !.status = "notified", !.notifiedAt = now]
      BY DEF MarkedRow
    <3>3. [alarms[i] EXCEPT !.status = "notified", !.notifiedAt = now] \in Rows
      BY <2>2, <3>1 DEF Rows, Status
    <3> QED BY <2>2, <3>2, <3>3 DEF Rows
  <2>4. alarms' = [alarms EXCEPT ![i] = r]
    BY <1>4 DEF MarkNotified
  <2> QED BY <2>1, <2>3, <2>4, <1>3
<1>5. ASSUME NEW i \in DOMAIN alarms, Ack(i) \/ Close(i) PROVE RowsKept
  <2>1. PICK s \in Status : alarms' = [alarms EXCEPT ![i].status = s]
    BY <1>5 DEF Ack, Close, Status
  <2> DEFINE r == [alarms[i] EXCEPT !.status = s]
  <2>2. alarms[i] \in Rows
    BY <1>0
  <2>3. r \in Rows /\ r.ev = alarms[i].ev
    BY <2>2 DEF Rows
  <2>4. alarms' = [alarms EXCEPT ![i] = r]
    BY <2>1
  <2> QED BY <2>3, <2>4, <1>3
<1>6. CASE EscalateOnce
  <2> DEFINE g(i) == IF DueForEscalation(alarms[i]) THEN [alarms[i] EXCEPT !.escalatedAt = now] ELSE alarms[i]
  <2>1. ASSUME NEW i \in 1 .. Len(alarms) PROVE g(i) \in Rows /\ g(i).ev = alarms[i].ev
    <3>1. alarms[i] \in Rows
      BY <1>0
    <3>2. now \in 0 .. NoTime
      BY DEF TypeOK, NoTime
    <3> QED BY <3>1, <3>2 DEF Rows
  <2>2. alarms' = [i \in 1 .. Len(alarms) |-> g(i)]
    BY <1>0, <1>6 DEF EscalateOnce
  <2> HIDE DEF g
  <2> QED BY <1>0, <2>1, <2>2 DEF RowsKept
<1>7. ~ UNCHANGED alarms =>
        \/ \E a \in Actors : Insert(a) \/ MarkNotified(a)
        \/ \E i \in DOMAIN alarms : Ack(i) \/ Close(i)
        \/ EscalateOnce
  BY DEF Next, vars, Tick, Arrive, TdStore, Receive, SquelchStep, Squelched, TakeKey, SquelchRedisErr, HandleStep,
         NotifyOK, HandleFault, InsertErr, NotifyErr, MarkErr, Crash, RecStep, RecQueryEvents, RecQueryAlarms,
         RecNextKey, RecDone, RecQueryErr
<1> QED BY <1>1, <1>2, <1>4, <1>5, <1>6, <1>7

\* What every handler's locals become, and whose.
LEMMA JobsStep ==
    ASSUME TypeOK, [Next]_vars
    PROVE  /\ job' \in [Actors -> JobRec]
           /\ \A b \in Actors : OwnRow(job'[b], alarms')
           /\ job'[Rec].pc # "squelch"
           /\ job'[Rec].pc # "idle" => round'.pc = "create"
<1> DEFINE G == /\ job' \in [Actors -> JobRec]
                /\ \A b \in Actors : OwnRow(job'[b], alarms')
                /\ job'[Rec].pc # "squelch"
                /\ job'[Rec].pc # "idle" => round'.pc = "create"
<1> USE AlarmConstants
<1>0. RowsKept /\ Rec \in Actors /\ Workers \subseteq Actors
  BY RowsStep DEF Actors
<1>1. ASSUME UNCHANGED job, round'.pc = round.pc \/ job[Rec] = Idle \/ round.pc # "create" PROVE G
  BY <1>0, <1>1, NoJobStep DEF TypeOK, Idle
<1>2. ASSUME NEW a \in Actors, NEW v \in JobRec, job' = [job EXCEPT ![a] = v], OwnRow(v, alarms'),
             a = Rec => v.pc # "squelch",
             a = Rec => v.pc = "idle" \/ round'.pc = "create",
             a # Rec => round'.pc = round.pc
      PROVE  G
  BY <1>0, <1>2, JobStep DEF TypeOK
<1>3. Idle \in JobRec /\ \A rows : OwnRow(Idle, rows)
  BY DEF Idle, JobRec, OwnRow, TypeOK
<1>4. ASSUME NEW a \in Actors, job' = [job EXCEPT ![a] = Idle], a # Rec => round' = round PROVE G
  BY <1>2, <1>3, <1>4, Zenon DEF Idle
<1>5. ASSUME NEW a \in Actors, NEW pc \in {"insert", "notify", "mark"}, Goto(a, pc), job[a].pc # "idle",
             pc \in {"notify", "mark"} => job[a].pc \in {"notify", "mark"}, round' = round PROVE G
  <2> DEFINE v == [job[a] EXCEPT !.pc = pc]
  <2>1. v \in JobRec /\ v.pc = pc /\ v.ev = job[a].ev /\ v.id = job[a].id
    BY <1>5, JobFacts DEF JobRec
  <2>2. job' = [job EXCEPT ![a] = v]
    BY <1>5 DEF Goto
  <2>3. OwnRow(v, alarms')
    BY <1>0, <1>5, <2>1, JobFacts DEF OwnRow, RowsKept
  <2>4. a = Rec => round.pc = "create"
    BY <1>5 DEF TypeOK
  <2> HIDE DEF v
  <2> QED BY <1>2, <1>5, <2>1, <2>2, <2>3, <2>4
<1>6. ASSUME NEW w \in Workers, NEW e \in Events, Receive(w, e) PROVE G
  <2> DEFINE v == [pc |-> "squelch", ev |-> e, id |-> 0]
  <2>1. v \in JobRec /\ OwnRow(v, alarms')
    BY DEF JobRec, OwnRow, TypeOK
  <2>2. round' = round /\ (job' = job \/ job' = [job EXCEPT ![w] = v])
    BY <1>6 DEF Receive
  <2> HIDE DEF v
  <2> QED BY <1>0, <1>1, <1>2, <2>1, <2>2
<1>7. ASSUME NEW a \in Actors, Insert(a) PROVE G
  <2> DEFINE v == [job[a] EXCEPT !.pc = "notify", !.id = Len(alarms) + 1]
  <2>1. alarms \in Seq(Rows) /\ Len(alarms) \in Nat /\ Len(alarms) < MaxAlarms
    BY <1>7 DEF TypeOK, Insert
  <2>2. v \in JobRec /\ v.pc = "notify" /\ v.ev = job[a].ev /\ v.id = Len(alarms) + 1 /\ v.ev # None
    <3>1. job[a] \in JobRec /\ job[a].pc = "insert" /\ job[a].ev # None
      BY <1>7, JobFacts DEF Insert, OwnRow
    <3>2. Len(alarms) + 1 \in 0 .. MaxAlarms
      BY <2>1
    <3> QED BY <3>1, <3>2 DEF JobRec
  <2>3. job' = [job EXCEPT ![a] = v] /\ round' = round
    BY <1>7 DEF Insert
  <2>4. v.id \in DOMAIN alarms' /\ alarms'[v.id].ev = v.ev
    BY <1>7, <2>1, <2>2 DEF Insert
  <2>5. a = Rec => round.pc = "create"
    BY <1>7 DEF TypeOK, Insert
  <2> HIDE DEF v
  <2> QED BY <1>2, <2>2, <2>3, <2>4, <2>5 DEF OwnRow
<1>8. ASSUME RecNextKey PROVE G
  <2>1. PICK e \in Events : LET v == [pc |-> "insert", ev |-> e, id |-> 0] IN job' = job \/ job' = [job EXCEPT ![Rec] = v]
    BY <1>8 DEF RecNextKey, TypeOK
  <2> DEFINE v == [pc |-> "insert", ev |-> e, id |-> 0]
  <2>2. v \in JobRec /\ OwnRow(v, alarms') /\ v.pc = "insert"
    BY DEF JobRec, OwnRow, TypeOK
  <2>3. round'.pc = "create" /\ round.pc = "create"
    BY <1>8 DEF RecNextKey, TypeOK
  <2> HIDE DEF v
  <2> QED BY <1>0, <1>1, <1>2, <2>1, <2>2, <2>3 DEF v
<1>9. ASSUME UNCHANGED <<job, round>> PROVE G
  BY <1>1, <1>9
<1>10. ASSUME RecQueryEvents \/ RecQueryAlarms \/ RecDone \/ RecQueryErr PROVE G
  BY <1>1, <1>10 DEF RecQueryEvents, RecQueryAlarms, RecDone, RecQueryErr, Fault
<1>11. ASSUME NEW w \in Workers, Squelched(w) PROVE G
  BY <1>0, <1>4, <1>11 DEF Squelched, ReturnOK
<1>16. ASSUME NEW a \in Actors, MarkNotified(a) PROVE G
  BY <1>4, <1>16 DEF MarkNotified, ReturnOK
<1>17. ASSUME NEW a \in Actors, HandleFault(a) PROVE G
  BY <1>4, <1>17 DEF HandleFault, InsertErr, NotifyErr, MarkErr, Crash, ReturnOK, ReturnErr
<1>12. ASSUME NEW w \in Workers, TakeKey(w) \/ SquelchRedisErr(w) PROVE G
  BY <1>0, <1>5, <1>12 DEF TakeKey, SquelchRedisErr
<1>13. ASSUME NEW a \in Actors, NotifyOK(a) PROVE G
  BY <1>5, <1>13 DEF NotifyOK
<1>14. ASSUME \/ Tick \/ EscalateOnce \/ UNCHANGED vars
              \/ \E e \in Events : Arrive(e) \/ TdStore(e)
              \/ \E i \in DOMAIN alarms : Ack(i) \/ Close(i)
       PROVE  G
  <2>1. UNCHANGED <<job, round>>
    BY <1>14 DEF vars, Tick, Arrive, TdStore, Ack, Close, EscalateOnce
  <2> QED BY <1>9, <2>1
<1> HIDE DEF G
<1>15. G
  BY <1>6, <1>7, <1>8, <1>10, <1>11, <1>12, <1>13, <1>14, <1>16, <1>17
  DEF Next, SquelchStep, HandleStep, RecStep
<1> QED BY <1>15 DEF G

LEMMA NextType == TypeOK /\ [Next]_vars => TypeOK'
<1> SUFFICES ASSUME TypeOK, [Next]_vars PROVE TypeOK'
  OBVIOUS
<1> USE AlarmConstants
<1> DEFINE Rest == /\ now \in 0 .. MaxTime
                   /\ msg \in [Events -> {"none", "pending", "acked"}]
                   /\ td \subseteq Safety
                   /\ squelch \in [Pairs -> [exp : 0 .. MaxTime + SquelchTTL, by : Events \cup {None}]]
                   /\ round \in RoundRec
                   /\ faults \in 0 .. MaxFaults
                   /\ by \in [Events -> Events \cup {None}]
                   /\ aborted \subseteq Events
<1>0. Rest
  BY DEF TypeOK, RoundRec
<1>9. ASSUME NEW r \in RoundRec, NEW E1 \in SUBSET Events, NEW E2 \in SUBSET Events
      PROVE  /\ [r EXCEPT !.failed = TRUE] \in RoundRec
             /\ [r EXCEPT !.evs = E1] \in RoundRec
             /\ [r EXCEPT !.evs = E1, !.known = E2] \in RoundRec
             /\ [r EXCEPT !.pc = "create", !.known = E2] \in RoundRec
  BY DEF RoundRec
<1>10. NoRound \in RoundRec
  BY DEF NoRound, RoundRec
<1>11. round.evs \in SUBSET Events /\ round.known \in SUBSET Events
  BY <1>0 DEF RoundRec
<1>1. ASSUME UNCHANGED <<now, msg, td, squelch, round, faults, by, aborted>> PROVE Rest'
  BY <1>0, <1>1
<1>2. ASSUME Tick \/ \E e \in Events : Arrive(e) \/ TdStore(e) PROVE Rest'
  BY <1>0, <1>2 DEF Tick, Arrive, TdStore
<1>3. ASSUME NEW w \in Workers, NEW e \in Events, Receive(w, e) PROVE Rest'
  BY <1>0, <1>3 DEF Receive
<1>4. ASSUME NEW w \in Workers, SquelchStep(w) \/ SquelchRedisErr(w) PROVE Rest'
  <2>1. w \in Actors
    BY DEF Actors
  <2>2. job[w].pc = "squelch" => job[w].ev \in Events /\ Pair[job[w].ev] \in Pairs
    BY <2>1, JobFacts DEF Pairs
  <2>3. CASE Squelched(w)
    BY <1>0, <2>2, <2>3 DEF Squelched, ReturnOK
  <2>4. CASE TakeKey(w)
    BY <1>0, <2>2, <2>4 DEF TakeKey
  <2>5. CASE SquelchRedisErr(w)
    BY <1>0, <2>5 DEF SquelchRedisErr, Fault
  <2> QED BY <1>4, <2>3, <2>4, <2>5 DEF SquelchStep
<1>5. ASSUME NEW a \in Actors, HandleStep(a) \/ HandleFault(a) PROVE Rest'
  <2>1. job[a].pc # "idle" => job[a].ev \in Events
    BY JobFacts
  <2>2. CASE HandleStep(a)
    BY <1>0, <2>2 DEF HandleStep, Insert, NotifyOK, MarkNotified, ReturnOK
  <2>3. CASE InsertErr(a)
    <3>1. round' \in RoundRec
      BY <1>0, <1>9, <2>3 DEF InsertErr
    <3> QED BY <1>0, <2>1, <2>3, <3>1 DEF InsertErr, ReturnErr, Fault
  <2>4. CASE NotifyErr(a) \/ MarkErr(a)
    BY <1>0, <2>1, <2>4 DEF NotifyErr, MarkErr, ReturnOK, ReturnErr, Fault
  <2>5. CASE Crash(a)
    BY <1>0, <1>10, <2>1, <2>5 DEF Crash, Fault
  <2> QED BY <1>5, <2>2, <2>3, <2>4, <2>5 DEF HandleFault
<1>6. ASSUME RecStep \/ RecQueryErr PROVE Rest'
  <2>1. AlarmEvents \subseteq Events
    <3>1. \A i \in DOMAIN alarms : alarms[i] \in Rows
      BY DEF TypeOK
    <3> QED BY <3>1 DEF AlarmEvents, Rows
  <2>2. CASE RecQueryEvents
    <3>1. td \subseteq Events /\ Recent \in SUBSET Events
      BY <1>0 DEF Recent
    <3> DEFINE since == IF now > Window THEN now - Window ELSE 0
               seen == {e \in td : Ts[e] >= since}
    <3>2. round' = [pc |-> "alarms", since |-> since, evs |-> seen,
                    known |-> {}, due |-> Recent, failed |-> FALSE]
      BY <2>2 DEF RecQueryEvents
    <3>3. since \in Nat /\ seen \in SUBSET Events
      BY <1>0, <3>1
    <3>4. round' \in RoundRec
      <4> HIDE DEF since, seen
      <4> QED BY <3>1, <3>2, <3>3 DEF RoundRec
    <3> QED BY <1>0, <2>2, <3>4 DEF RecQueryEvents
  <2>3. CASE RecQueryAlarms
    <3>1. round' \in RoundRec
      BY <1>0, <1>9, <2>1, <2>3 DEF RecQueryAlarms
    <3> QED BY <1>0, <2>3, <3>1 DEF RecQueryAlarms
  <2>4. CASE RecNextKey
    <3>1. PICK e \in round.evs :
             \/ round' = [round EXCEPT !.evs = round.evs \ {e}]
             \/ round' = [round EXCEPT !.evs = round.evs \ {e}, !.known = round.known \cup {e}]
      <4>1. PICK e \in round.evs :
               IF \E f \in round.known : Covers(f, e)
                 THEN round' = [round EXCEPT !.evs = @ \ {e}]
                 ELSE round' = [round EXCEPT !.evs = @ \ {e}, !.known = @ \cup {e}]
        BY <2>4 DEF RecNextKey
      <4> QED BY <1>0, <4>1 DEF RoundRec
    <3>2. round.evs \ {e} \in SUBSET Events /\ round.known \cup {e} \in SUBSET Events
      BY <1>11
    <3>3. round' \in RoundRec
      <4> DEFINE E1 == round.evs \ {e}
                 E2 == round.known \cup {e}
      <4>1. E1 \in SUBSET Events /\ E2 \in SUBSET Events
        BY <3>2
      <4>2. round' = [round EXCEPT !.evs = E1] \/ round' = [round EXCEPT !.evs = E1, !.known = E2]
        BY <3>1
      <4> HIDE DEF E1, E2
      <4> QED BY <1>0, <4>1, <4>2 DEF RoundRec
    <3> QED BY <1>0, <2>4, <3>3 DEF RecNextKey
  <2>5. CASE RecDone \/ RecQueryErr
    <3>1. round' \in RoundRec
      BY <1>10, <2>5 DEF RecDone, RecQueryErr
    <3> QED BY <1>0, <2>5, <3>1 DEF RecDone, RecQueryErr, Fault
  <2> QED BY <1>6, <2>2, <2>3, <2>4, <2>5 DEF RecStep
<1>7. ASSUME EscalateOnce \/ UNCHANGED vars \/ \E i \in DOMAIN alarms : Ack(i) \/ Close(i) PROVE Rest'
  BY <1>1, <1>7 DEF EscalateOnce, vars, Ack, Close
<1>8. Rest'
  <2> HIDE DEF Rest
  <2> QED BY <1>2, <1>3, <1>4, <1>5, <1>6, <1>7 DEF Next
<1> QED BY <1>8, RowsStep, JobsStep DEF TypeOK, RowsKept, JobRec, OwnRow, RoundRec

\* Every variable keeps its type; in particular a handler past its INSERT
\* holds the id of a row of its own event (service.go, handleEvent).
THEOREM TypeCorrect == Spec => []TypeOK
  BY InitType, NextType, PTL DEF Spec

-----------------------------------------------------------------------------
(* The inductive invariants.                                               *)

\* What became of an event whose handler got past the squelch.
Handled(e) == HasAlarm(e) \/ InHandler(e) \/ e \in aborted

\* A squelch key that was ever set stands for an event that was handled, and
\* so does the record of the key that swallowed an event.
KeysHandled ==
    \A p \in Pairs : squelch[p].exp > 0 => squelch[p].by # None /\ Handled(squelch[p].by)

AckedHandled ==
    \A e \in Safety : msg[e] = "acked" => HasAlarm(e) \/ (by[e] # None /\ Handled(by[e]))

AccountInv == TypeOK /\ KeysHandled /\ AckedHandled

\* An alarm nobody was notified of has no time of notification.
OpenNotNotified == \A i \in DOMAIN alarms : alarms[i].status = "open" => alarms[i].notifiedAt = NoTime

\* A round has seen every event that is due, and covers each that it has put
\* behind it by an event it knows; what it knows has a row, but for the event
\* whose INSERT is under way.
RoundInv ==
    /\ round.pc = "alarms" => round.due \subseteq round.evs
    /\ round.pc = "create" /\ ~ round.failed =>
         /\ \A e \in round.due \ round.evs : \E f \in round.known : Covers(f, e)
         /\ \A f \in round.known : HasAlarm(f) \/ (job[Rec].pc = "insert" /\ job[Rec].ev = f)

-----------------------------------------------------------------------------
(* An acknowledged event is accounted for.                                 *)

\* Once handled, always: the row stays, and a handler leaves its event only
\* with a row or among the aborted.
LEMMA HandledStays ==
    ASSUME TypeOK, [Next]_vars, NEW e \in Events, Handled(e)
    PROVE  Handled(e)'
<1> USE AlarmConstants
<1>0. RowsKept /\ aborted \subseteq aborted'
  BY RowsStep DEF Next, vars, Tick, Arrive, TdStore, Receive, SquelchStep, Squelched, TakeKey, SquelchRedisErr, HandleStep,
     Insert, NotifyOK, MarkNotified, HandleFault, InsertErr, NotifyErr, MarkErr, Crash, Ack, Close, EscalateOnce, RecStep,
     RecQueryEvents, RecQueryAlarms, RecNextKey, RecDone, RecQueryErr
<1>1. CASE HasAlarm(e)
  BY <1>0, <1>1 DEF HasAlarm, AlarmEvents, RowsKept, Handled
<1>2. CASE e \in aborted
  BY <1>0, <1>2 DEF Handled
<1>3. ASSUME NEW w \in Workers, job[w].ev = e, job[w].pc # "squelch" PROVE Handled(e)'
  <2>1. w \in Actors /\ w # Rec /\ job \in [Actors -> JobRec]
    BY DEF Actors, TypeOK, JobRec
  <2>2. job[w].pc \in {"insert", "notify", "mark"}
    BY <1>3, <2>1, JobFacts DEF OwnRow, JobRec
  <2>3. CASE job[w].pc \in {"notify", "mark"}
    BY <1>1, <1>3, <2>1, <2>3, JobFacts DEF OwnRow, HasAlarm, AlarmEvents
  <2>4. CASE job[w].pc = "insert"
    <3>1. CASE job'[w] = job[w]
      BY <1>3, <2>2, <3>1 DEF Handled, InHandler
    <3>2. CASE Insert(w)
      <4>1. /\ Len(alarms) + 1 \in DOMAIN alarms'
            /\ alarms'[Len(alarms) + 1].ev = e
        <5> DEFINE r == [ev |-> e, status |-> "open", notifiedAt |-> NoTime, escalatedAt |-> NoTime]
        <5>1. alarms \in Seq(Rows) /\ alarms' = Append(alarms, r)
          BY <1>3, <3>2 DEF Insert, TypeOK
        <5> QED BY <5>1
      <4> QED BY <4>1 DEF Handled, HasAlarm, AlarmEvents
    <3>3. CASE InsertErr(w) \/ Crash(w)
      BY <1>3, <2>1, <2>4, <3>3 DEF InsertErr, Crash, Handled
    <3>4. job'[w] = job[w] \/ Insert(w) \/ InsertErr(w) \/ Crash(w)
      <4>1. ASSUME NEW a \in Actors, NEW v, a # w, job' = [job EXCEPT ![a] = v] PROVE job'[w] = job[w]
        BY <2>1, <4>1
      <4>2. ASSUME NEW a \in Actors, NEW pc, a # w, Goto(a, pc) PROVE job'[w] = job[w]
        BY <2>1, <4>2 DEF Goto
      <4>3. CASE UNCHANGED job
        BY <4>3
      <4>4. ASSUME NEW v \in Workers, NEW x \in Events, Receive(v, x) PROVE job'[w] = job[w]
        BY <2>1, <2>4, <4>4 DEF Receive, Idle
      <4>5. ASSUME NEW v \in Workers, SquelchStep(v) \/ SquelchRedisErr(v) PROVE job'[w] = job[w]
        BY <2>1, <2>4, <4>5 DEF SquelchStep, Squelched, TakeKey, SquelchRedisErr, ReturnOK, Goto
      <4>6. ASSUME NEW a \in Actors, HandleStep(a) \/ HandleFault(a), a # w PROVE job'[w] = job[w]
        BY <2>1, <4>6 DEF HandleStep, HandleFault, Insert, NotifyOK, MarkNotified, InsertErr, NotifyErr, MarkErr, Crash,
           ReturnOK, ReturnErr, Goto
      <4>7. ASSUME HandleStep(w) \/ HandleFault(w) PROVE Insert(w) \/ InsertErr(w) \/ Crash(w)
        BY <2>4, <4>7 DEF HandleStep, HandleFault, NotifyOK, MarkNotified, NotifyErr, MarkErr
      <4>8. ASSUME RecStep \/ RecQueryErr PROVE job'[w] = job[w]
        BY <2>1, <4>8 DEF RecStep, RecQueryEvents, RecQueryAlarms, RecNextKey, RecDone, RecQueryErr
      <4>9. ASSUME \/ Tick \/ EscalateOnce \/ UNCHANGED vars
                   \/ \E x \in Events : Arrive(x) \/ TdStore(x)
                   \/ \E i \in DOMAIN alarms : Ack(i) \/ Close(i)
            PROVE  job'[w] = job[w]
        BY <4>9 DEF vars, Tick, Arrive, TdStore, Ack, Close, EscalateOnce
      <4> QED BY <4>4, <4>5, <4>6, <4>7, <4>8, <4>9 DEF Next
    <3> QED BY <3>1, <3>2, <3>3, <3>4
  <2> QED BY <2>2, <2>3, <2>4
<1> QED BY <1>1, <1>2, <1>3 DEF Handled, InHandler

LEMMA KeysStep == AccountInv /\ [Next]_vars => KeysHandled'
<1> SUFFICES ASSUME AccountInv, [Next]_vars, NEW p \in Pairs, squelch'[p].exp > 0,
                    NEW k, k = squelch'[p].by
             PROVE  k # None /\ Handled(k)'
  BY DEF KeysHandled
<1> USE AlarmConstants
<1>0. TypeOK /\ KeysHandled
  BY DEF AccountInv
<1>1. CASE squelch'[p] = squelch[p]
  <2>1. k # None /\ Handled(k) /\ k \in Events
    BY <1>0, <1>1 DEF KeysHandled, TypeOK
  <2> QED BY <1>0, <2>1, HandledStays
<1>2. ASSUME NEW w \in Workers, TakeKey(w), p = Pair[job[w].ev] PROVE k # None /\ Handled(k)'
  <2>1. w \in Actors /\ job[w].ev \in Events
    BY <1>0, <1>2, JobFacts DEF Actors, TakeKey
  <2>2. k = job[w].ev
    BY <1>0, <1>2, <2>1 DEF TakeKey, TypeOK
  <2>3. job'[w].ev = job[w].ev /\ job'[w].pc = "insert"
    BY <1>0, <1>2, <2>1 DEF TakeKey, Goto, TypeOK
  <2> QED BY <2>1, <2>2, <2>3 DEF Handled, InHandler
<1>3. squelch'[p] = squelch[p] \/ \E w \in Workers : TakeKey(w) /\ p = Pair[job[w].ev]
  <2>1. ASSUME NEW w \in Workers, TakeKey(w), p # Pair[job[w].ev] PROVE squelch'[p] = squelch[p]
    BY <1>0, <2>1 DEF TakeKey, TypeOK
  <2>2. UNCHANGED squelch \/ \E w \in Workers : TakeKey(w)
    BY DEF Next, vars, Tick, Arrive, TdStore, Receive, SquelchStep, Squelched, SquelchRedisErr, HandleStep, Insert,
       NotifyOK, MarkNotified, HandleFault, InsertErr, NotifyErr, MarkErr, Crash, Ack, Close, EscalateOnce, RecStep,
       RecQueryEvents, RecQueryAlarms, RecNextKey, RecDone, RecQueryErr
  <2> QED BY <2>1, <2>2
<1> QED BY <1>1, <1>2, <1>3

LEMMA AckedStep == AccountInv /\ [Next]_vars => AckedHandled'
<1> SUFFICES ASSUME AccountInv, [Next]_vars, NEW e \in Safety, msg'[e] = "acked",
                    NEW k, k = by'[e]
             PROVE  HasAlarm(e)' \/ (k # None /\ Handled(k)')
  BY DEF AckedHandled
<1> USE AlarmConstants
<1>0. TypeOK /\ KeysHandled /\ AckedHandled /\ e \in Events
  BY DEF AccountInv
<1>1. HasAlarm(e) => HasAlarm(e)'
  BY <1>0, RowsStep DEF HasAlarm, AlarmEvents, RowsKept
<1>2. ASSUME NEW b, b = by[e], msg[e] = "acked", k = b PROVE HasAlarm(e)' \/ (k # None /\ Handled(k)')
  <2>1. HasAlarm(e) \/ (b # None /\ Handled(b) /\ b \in Events)
    BY <1>0, <1>2 DEF AckedHandled, TypeOK
  <2> QED BY <1>0, <1>1, <1>2, <2>1, HandledStays
<1>3. ASSUME NEW w \in Workers, Squelched(w), job[w].ev = e PROVE k # None /\ Handled(k)'
  <2> DEFINE q == squelch[Pair[e]]
  <2>0. Pair[e] \in Pairs /\ q.exp > now /\ k = q.by
    BY <1>0, <1>3 DEF Squelched, TypeOK, Pairs
  <2>1. q.exp > 0 /\ q.by \in Events \cup {None}
    BY <1>0, <2>0 DEF TypeOK
  <2>2. k \in Events /\ Handled(k)
    BY <1>0, <2>0, <2>1 DEF KeysHandled
  <2> QED BY <1>0, <2>0, <2>2, HandledStays
<1>4. ASSUME NEW a \in Actors, job[a].ev = e, job[a].pc \in {"notify", "mark"} PROVE HasAlarm(e)'
  BY <1>0, <1>1, <1>4, JobFacts DEF OwnRow, HasAlarm, AlarmEvents
<1>5. CASE msg'[e] = msg[e] /\ by'[e] = by[e]
  BY <1>2, <1>5
<1>6. ASSUME NEW w \in Workers, Squelched(w), job[w].ev # e PROVE msg'[e] = msg[e] /\ by'[e] = by[e]
  BY <1>0, <1>6 DEF Squelched, ReturnOK, TypeOK
<1>7. ASSUME NEW a \in Actors, MarkNotified(a) \/ NotifyErr(a) PROVE HasAlarm(e)' \/ (msg'[e] = msg[e] /\ by'[e] = by[e])
  BY <1>0, <1>4, <1>7 DEF MarkNotified, NotifyErr, ReturnOK, TypeOK
<1>8. ASSUME NEW v \in Workers, NEW x \in Events, Receive(v, x) PROVE msg'[e] = msg[e] /\ by'[e] = by[e]
  BY <1>0, <1>8 DEF Receive, TypeOK
<1>9. ASSUME NEW x \in Events, Arrive(x) PROVE msg'[e] = msg[e] /\ by'[e] = by[e]
  BY <1>0, <1>9 DEF Arrive, TypeOK
<1>10. \/ UNCHANGED <<msg, by>>
       \/ \E x \in Events : Arrive(x)
       \/ \E v \in Workers, x \in Events : Receive(v, x)
       \/ \E w \in Workers : Squelched(w)
       \/ \E a \in Actors : MarkNotified(a) \/ NotifyErr(a)
  BY DEF Next, vars, Tick, TdStore, SquelchStep, TakeKey, SquelchRedisErr, HandleStep, Insert, NotifyOK, HandleFault,
     InsertErr, MarkErr, Crash, ReturnErr, Ack, Close, EscalateOnce, RecStep, RecQueryEvents, RecQueryAlarms, RecNextKey,
     RecDone, RecQueryErr
<1> QED BY <1>3, <1>5, <1>6, <1>7, <1>8, <1>9, <1>10

LEMMA AccountInvariant == Spec => []AccountInv
<1>1. Init => AccountInv
  BY AlarmConstants, InitType DEF Init, AccountInv, KeysHandled, AckedHandled, NoKey
<1>2. AccountInv /\ [Next]_vars => AccountInv'
  BY NextType, KeysStep, AckedStep DEF AccountInv
<1> QED BY <1>1, <1>2, PTL DEF Spec

\* A safety event leaves the stream only with a row of its own or swallowed by
\* a squelch key whose setter has a row, is being handled, or was given up
\* before its INSERT (consumer.go's Ack and Nak, service.go's handleEvent).
THEOREM NoEventVanishes == Spec => []AckedEventAccounted
<1>1. AccountInv => AckedEventAccounted
  BY DEF AccountInv, AckedHandled, AckedEventAccounted, Handled
<1> QED BY <1>1, AccountInvariant, PTL

-----------------------------------------------------------------------------
(* An alarm's history.                                                     *)

\* What one step may do to one row.
RowStep(r, q) ==
    \/ q = r
    \/ q = MarkedRow(r)
    \/ r.status \in Sources("acked") /\ q = [r EXCEPT !.status = "acked"]
    \/ r.status \in Sources("closed") /\ q = [r EXCEPT !.status = "closed"]
    \/ DueForEscalation(r) /\ q = [r EXCEPT !.escalatedAt = now]

LEMMA RowsChange ==
    ASSUME TypeOK, [Next]_vars, NEW i \in DOMAIN alarms
    PROVE  i \in DOMAIN alarms' /\ RowStep(alarms[i], alarms'[i])
<1>0. RowsKept /\ alarms \in Seq(Rows) /\ i \in 1 .. Len(alarms) /\ Len(alarms) \in Nat
  BY RowsStep DEF TypeOK
<1>1. CASE UNCHANGED alarms
  BY <1>1 DEF RowStep
<1>2. ASSUME NEW a \in Actors, Insert(a) PROVE alarms'[i] = alarms[i]
  <2> DEFINE r == [ev |-> job[a].ev, status |-> "open", notifiedAt |-> NoTime, escalatedAt |-> NoTime]
  <2>1. alarms' = Append(alarms, r)
    BY <1>2 DEF Insert
  <2> HIDE DEF r
  <2> QED BY <1>0, <2>1
<1>3. ASSUME NEW a \in Actors, MarkNotified(a) PROVE alarms'[i] = alarms[i] \/ alarms'[i] = MarkedRow(alarms[i])
  BY <1>0, <1>3 DEF MarkNotified
<1>4. ASSUME NEW j \in DOMAIN alarms, Ack(j) \/ Close(j) PROVE RowStep(alarms[i], alarms'[i])
  BY <1>0, <1>4 DEF Ack, Close, RowStep
<1>5. CASE EscalateOnce
  BY <1>0, <1>5 DEF EscalateOnce, RowStep
<1>6. \/ UNCHANGED alarms
      \/ \E a \in Actors : Insert(a) \/ MarkNotified(a)
      \/ \E j \in DOMAIN alarms : Ack(j) \/ Close(j)
      \/ EscalateOnce
  BY DEF Next, vars, Tick, Arrive, TdStore, Receive, SquelchStep, Squelched, TakeKey, SquelchRedisErr, HandleStep,
         NotifyOK, HandleFault, InsertErr, NotifyErr, MarkErr, Crash, RecStep, RecQueryEvents, RecQueryAlarms,
         RecNextKey, RecDone, RecQueryErr
<1> QED BY <1>0, <1>1, <1>2, <1>3, <1>4, <1>5, <1>6 DEF RowsKept, RowStep

LEMMA HistoryInvariant == Spec => [](TypeOK /\ OpenNotNotified)
<1>1. Init => OpenNotNotified
  BY DEF Init, OpenNotNotified
<1>2. TypeOK /\ OpenNotNotified /\ [Next]_vars => OpenNotNotified'
  <2> SUFFICES ASSUME TypeOK, OpenNotNotified, [Next]_vars, NEW i \in DOMAIN alarms', alarms'[i].status = "open"
               PROVE  alarms'[i].notifiedAt = NoTime
    BY DEF OpenNotNotified
  <2>0. alarms \in Seq(Rows)
    BY DEF TypeOK
  <2>1. CASE i \in DOMAIN alarms
    <3>1. alarms[i] \in Rows /\ RowStep(alarms[i], alarms'[i])
      BY <2>0, <2>1, RowsChange
    <3> QED BY <2>1, <3>1 DEF RowStep, MarkedRow, Rows, OpenNotNotified, DueForEscalation
  <2>2. CASE i \notin DOMAIN alarms
    <3>1. PICK a \in Actors : Insert(a)
      <4>1. \/ DOMAIN alarms' = DOMAIN alarms
            \/ \E a \in Actors : Insert(a)
        BY DEF Next, vars, Tick, Arrive, TdStore, Receive, SquelchStep, Squelched, TakeKey, SquelchRedisErr, HandleStep,
           NotifyOK, MarkNotified, Ack, Close, EscalateOnce, HandleFault, InsertErr, NotifyErr, MarkErr, Crash, RecStep,
           RecQueryEvents, RecQueryAlarms, RecNextKey, RecDone, RecQueryErr
      <4> QED BY <2>2, <4>1
    <3> DEFINE r == [ev |-> job[a].ev, status |-> "open", notifiedAt |-> NoTime, escalatedAt |-> NoTime]
    <3>2. alarms' = Append(alarms, r) /\ r.notifiedAt = NoTime
      BY <3>1 DEF Insert
    <3> HIDE DEF r
    <3> QED BY <2>0, <2>2, <3>2
  <2> QED BY <2>1, <2>2
<1> QED BY <1>1, <1>2, TypeCorrect, PTL DEF Spec

\* No interleaving of the handlers' markNotified, the users' acknowledgements
\* and the escalation UPDATE moves a status outside state.go's table, writes a
\* timestamp twice or escalates what has been answered.
THEOREM HistoryStands == Spec => AlarmHistory
<1> DEFINE Stands(i) ==
      /\ i \in DOMAIN alarms'
      /\ alarms'[i].ev = alarms[i].ev
      /\ alarms'[i].status # alarms[i].status => Allowed(alarms[i].status, alarms'[i].status)
      /\ alarms[i].notifiedAt # NoTime => alarms'[i].notifiedAt = alarms[i].notifiedAt
      /\ alarms[i].escalatedAt # NoTime => alarms'[i].escalatedAt = alarms[i].escalatedAt
      /\ alarms'[i].escalatedAt # alarms[i].escalatedAt =>
           /\ alarms[i].status = "notified"
           /\ alarms[i].notifiedAt + EscalateAfter < alarms'[i].escalatedAt
<1>1. ASSUME TypeOK, OpenNotNotified, [Next]_vars, NEW i \in DOMAIN alarms PROVE Stands(i)
  <2> DEFINE r == alarms[i]
             q == alarms'[i]
  <2>1. r \in Rows /\ i \in DOMAIN alarms' /\ RowStep(r, q) /\ (r.status = "open" => r.notifiedAt = NoTime)
    BY <1>1, RowsChange DEF OpenNotNotified, TypeOK
  <2> HIDE DEF r, q
  <2>2. CASE q = MarkedRow(r)
    BY <2>1, <2>2 DEF r, q, MarkedRow, Rows, Allowed, transitions
  <2>3. ASSUME NEW s, r.status \in Sources(s), q = [r EXCEPT !.status = s] PROVE Stands(i)
    BY <2>1, <2>3 DEF r, q, Rows, Sources
  <2>4. CASE DueForEscalation(r) /\ q = [r EXCEPT !.escalatedAt = now]
    BY <2>1, <2>4 DEF r, q, Rows, DueForEscalation
  <2>5. CASE q = r
    BY <2>1, <2>5 DEF r, q
  <2> QED BY <2>1, <2>2, <2>3, <2>4, <2>5 DEF RowStep
<1>2. TypeOK /\ OpenNotNotified /\ [Next]_vars => [\A i \in DOMAIN alarms : Stands(i)]_vars
  BY <1>1
<1> QED BY <1>2, HistoryInvariant, PTL DEF Spec, AlarmHistory

-----------------------------------------------------------------------------
(* A reconciliation round repairs.                                         *)

\* What the round knows to have a row, or is about to give one.
Backed(f) == HasAlarm(f) \/ (job[Rec].pc = "insert" /\ job[Rec].ev = f)

\* The reconciler's thread leaves its INSERT with a row, with failed set, or
\* with the round itself gone.
LEMMA BackedStays ==
    ASSUME TypeOK, [Next]_vars, NEW f \in Events, Backed(f), round'.pc = "create", ~ round'.failed,
           round.pc = "create", ~ round.failed
    PROVE  Backed(f)'
<1> USE AlarmConstants
<1>0. RowsKept /\ Rec \in Actors /\ job \in [Actors -> JobRec]
  BY RowsStep DEF Actors, TypeOK, JobRec
<1>1. CASE HasAlarm(f)
  BY <1>0, <1>1 DEF HasAlarm, AlarmEvents, RowsKept, Backed
<1>2. CASE job[Rec].pc = "insert" /\ job[Rec].ev = f
  <2>1. CASE job'[Rec] = job[Rec]
    BY <1>2, <2>1 DEF Backed
  <2>2. CASE Insert(Rec)
    <3> DEFINE r == [ev |-> f, status |-> "open", notifiedAt |-> NoTime, escalatedAt |-> NoTime]
    <3>1. alarms \in Seq(Rows) /\ alarms' = Append(alarms, r)
      BY <1>2, <2>2 DEF Insert, TypeOK
    <3>2. Len(alarms) + 1 \in DOMAIN alarms' /\ alarms'[Len(alarms) + 1].ev = f
      BY <3>1
    <3> QED BY <3>2 DEF Backed, HasAlarm, AlarmEvents
  <2>3. ~ InsertErr(Rec) /\ ~ Crash(Rec)
    BY DEF InsertErr, Crash, NoRound, TypeOK
  <2>4. job'[Rec] = job[Rec] \/ Insert(Rec) \/ InsertErr(Rec) \/ Crash(Rec)
    <3>1. ASSUME NEW w \in Workers, NEW x \in Events, Receive(w, x) PROVE job'[Rec] = job[Rec]
      BY <1>0, <3>1 DEF Receive
    <3>2. ASSUME NEW w \in Workers, SquelchStep(w) \/ SquelchRedisErr(w) PROVE job'[Rec] = job[Rec]
      BY <1>0, <3>2 DEF SquelchStep, Squelched, TakeKey, SquelchRedisErr, ReturnOK, Goto
    <3>3. ASSUME NEW a \in Actors, HandleStep(a) \/ HandleFault(a), a # Rec PROVE job'[Rec] = job[Rec]
      BY <1>0, <3>3 DEF HandleStep, HandleFault, Insert, NotifyOK, MarkNotified, InsertErr, NotifyErr, MarkErr, Crash,
         ReturnOK, ReturnErr, Goto
    <3>4. ASSUME HandleStep(Rec) \/ HandleFault(Rec) PROVE Insert(Rec) \/ InsertErr(Rec) \/ Crash(Rec)
      BY <1>2, <3>4 DEF HandleStep, HandleFault, NotifyOK, MarkNotified, NotifyErr, MarkErr
    <3>5. ASSUME RecStep \/ RecQueryErr PROVE job'[Rec] = job[Rec]
      <4>1. ~ RecNextKey
        <5>1. job[Rec] # Idle
          BY <1>2 DEF Idle
        <5> QED BY <5>1, Zenon DEF RecNextKey
      <4>2. UNCHANGED job
        BY <3>5, <4>1 DEF RecStep, RecQueryEvents, RecQueryAlarms, RecDone, RecQueryErr
      <4> QED BY <4>2
    <3>6. ASSUME \/ Tick \/ EscalateOnce \/ UNCHANGED vars
                 \/ \E x \in Events : Arrive(x) \/ TdStore(x)
                 \/ \E i \in DOMAIN alarms : Ack(i) \/ Close(i)
          PROVE  job'[Rec] = job[Rec]
      BY <3>6 DEF vars, Tick, Arrive, TdStore, Ack, Close, EscalateOnce
    <3> QED BY <3>1, <3>2, <3>3, <3>4, <3>5, <3>6 DEF Next
  <2> QED BY <2>1, <2>2, <2>3, <2>4
<1> QED BY <1>1, <1>2 DEF Backed

\* The ways in which a step changes the locals of a round.
LEMMA RoundStep ==
    ASSUME TypeOK, [Next]_vars
    PROVE  \/ round' = round
           \/ RecQueryEvents \/ RecQueryAlarms \/ RecNextKey
           \/ round' = NoRound
           \/ round' = [round EXCEPT !.failed = TRUE]
<1>1. ASSUME NEW a \in Actors, HandleFault(a)
      PROVE  round' = round \/ round' = NoRound \/ round' = [round EXCEPT !.failed = TRUE]
  BY <1>1 DEF HandleFault, InsertErr, NotifyErr, MarkErr, Crash
<1>2. CASE RecStep \/ RecQueryErr
  BY <1>2 DEF RecStep, RecDone, RecQueryErr
<1>3. ASSUME NEW a \in Actors, HandleStep(a) PROVE round' = round
  BY <1>3 DEF HandleStep, Insert, NotifyOK, MarkNotified
<1>4. ASSUME NEW w \in Workers, SquelchStep(w) \/ SquelchRedisErr(w) \/ \E e \in Events : Receive(w, e) PROVE round' = round
  BY <1>4 DEF SquelchStep, Squelched, TakeKey, SquelchRedisErr, Receive
<1>5. ASSUME \/ Tick \/ EscalateOnce \/ UNCHANGED vars
             \/ \E x \in Events : Arrive(x) \/ TdStore(x)
             \/ \E i \in DOMAIN alarms : Ack(i) \/ Close(i)
      PROVE  round' = round
  BY <1>5 DEF vars, Tick, Arrive, TdStore, Ack, Close, EscalateOnce
<1> QED BY <1>1, <1>2, <1>3, <1>4, <1>5 DEF Next

LEMMA RoundInvStep == TypeOK /\ RoundInv /\ [Next]_vars => RoundInv'
<1> SUFFICES ASSUME TypeOK, RoundInv, [Next]_vars PROVE RoundInv'
  OBVIOUS
<1> USE AlarmConstants
<1>0. round \in RoundRec /\ td \subseteq Events /\ Rec \in Actors /\ job \in [Actors -> JobRec] /\ now \in Nat
  BY DEF TypeOK, RoundRec, Actors, JobRec
<1>1. CASE round' = round
  <2>1. ASSUME round.pc = "create", ~ round.failed, NEW f \in round.known PROVE Backed(f)'
    BY <1>0, <1>1, <2>1, BackedStays DEF RoundInv, Backed, RoundRec
  <2> QED BY <1>1, <2>1 DEF RoundInv, Backed, Covers
<1>2. CASE RecQueryEvents
  <2> DEFINE since == IF now > Window THEN now - Window ELSE 0
  <2>1. round' = [pc |-> "alarms", since |-> since, evs |-> {e \in td : Ts[e] >= since},
                  known |-> {}, due |-> Recent, failed |-> FALSE]
    BY <1>2 DEF RecQueryEvents
  <2>2. \A e \in Recent : e \in td /\ Ts[e] >= since
    BY <1>0 DEF Recent
  <2> HIDE DEF since
  <2> QED BY <2>1, <2>2 DEF RoundInv
<1>3. CASE RecQueryAlarms
  <2>1. round'.pc = "create" /\ round'.evs = round.evs /\ round'.due = round.due /\ round'.known \subseteq AlarmEvents
    BY <1>0, <1>3 DEF RecQueryAlarms, RoundRec
  <2>2. round.due \subseteq round.evs /\ alarms' = alarms
    BY <1>3 DEF RecQueryAlarms, RoundInv
  <2> QED BY <2>1, <2>2 DEF RoundInv, HasAlarm, AlarmEvents
<1>4. CASE RecNextKey
  <2>1. round.pc = "create" /\ job[Rec] = Idle /\ alarms' = alarms
    BY <1>4 DEF RecNextKey
  <2>2. PICK e \in round.evs :
           IF \E f \in round.known : Covers(f, e)
             THEN round' = [round EXCEPT !.evs = @ \ {e}] /\ UNCHANGED job
             ELSE /\ round' = [round EXCEPT !.evs = @ \ {e}, !.known = @ \cup {e}]
                  /\ job' = [job EXCEPT ![Rec] = [pc |-> "insert", ev |-> e, id |-> 0]]
    BY <1>4 DEF RecNextKey
  <2>3. CASE \E f \in round.known : Covers(f, e)
    <3>1. round' = [round EXCEPT !.evs = @ \ {e}] /\ UNCHANGED job
      BY <2>2, <2>3
    <3>2. /\ round'.pc = "create" /\ round'.failed = round.failed /\ round'.due = round.due
          /\ round'.evs = round.evs \ {e} /\ round'.known = round.known
      BY <1>0, <2>1, <3>1 DEF RoundRec
    <3> QED BY <2>1, <2>3, <3>1, <3>2 DEF RoundInv, HasAlarm, AlarmEvents, Covers
  <2>4. CASE ~ \E f \in round.known : Covers(f, e)
    <3>1. /\ round' = [round EXCEPT !.evs = @ \ {e}, !.known = @ \cup {e}]
          /\ job' = [job EXCEPT ![Rec] = [pc |-> "insert", ev |-> e, id |-> 0]]
      BY <2>2, <2>4
    <3>2. /\ round'.pc = "create" /\ round'.failed = round.failed /\ round'.due = round.due
          /\ round'.evs = round.evs \ {e} /\ round'.known = round.known \cup {e}
      BY <1>0, <2>1, <3>1 DEF RoundRec
    <3>3. job'[Rec].pc = "insert" /\ job'[Rec].ev = e
      BY <1>0, <3>1
    <3>4. \A f \in round.known : ~ round.failed => HasAlarm(f)
      BY <2>1 DEF RoundInv, Idle
    <3>5. Covers(e, e)
      BY <1>0, <2>2 DEF Covers, RoundRec
    <3>6. \A f \in round'.known : ~ round'.failed => HasAlarm(f)' \/ (job'[Rec].pc = "insert" /\ job'[Rec].ev = f)
      BY <2>1, <3>2, <3>3, <3>4 DEF HasAlarm, AlarmEvents
    <3>7. ~ round'.failed => \A x \in round'.due \ round'.evs : \E f \in round'.known : Covers(f, x)
      BY <2>1, <3>2, <3>5 DEF RoundInv
    <3> QED BY <3>2, <3>6, <3>7 DEF RoundInv, Covers
  <2> QED BY <2>3, <2>4
<1>5. CASE round' = NoRound
  BY <1>5 DEF NoRound, RoundInv
<1>6. CASE round' = [round EXCEPT !.failed = TRUE]
  BY <1>0, <1>6 DEF RoundInv, RoundRec
<1> QED BY <1>1, <1>2, <1>3, <1>4, <1>5, <1>6, RoundStep

LEMMA RoundInvariant == Spec => [](TypeOK /\ RoundInv)
<1>1. Init => RoundInv
  BY DEF Init, RoundInv, NoRound
<1> QED BY <1>1, RoundInvStep, TypeCorrect, PTL DEF Spec

\* A round that ends without a failed INSERT leaves every event that was due
\* when it began covered by a row, although its snapshot of the alarms is stale
\* by the time it creates (reconcile.go, RunOnce and Missing).
THEOREM RoundsRepair == Spec => RoundRepairs
<1> DEFINE Repairs == round.pc = "create" /\ round'.pc = "idle" /\ job = job' /\ ~ round.failed =>
                        \A e \in round.due : \E f \in AlarmEvents : Covers(f, e)
<1>1. ASSUME TypeOK, RoundInv, [Next]_vars, round.pc = "create", round'.pc = "idle", job = job', ~ round.failed,
             NEW e \in round.due
      PROVE  \E f \in AlarmEvents : Covers(f, e)
  <2>1. RecDone
    <3>1. round \in RoundRec /\ job \in [Actors -> JobRec] /\ Rec \in Actors
      BY <1>1 DEF TypeOK, RoundRec, JobRec, Actors
    <3>2. ASSUME NEW a \in Actors, HandleFault(a) PROVE FALSE
      <4>1. job[a] # Idle => job'[a] # job[a] \/ round' = round
        BY <1>1, <3>1, <3>2 DEF HandleFault, InsertErr, NotifyErr, MarkErr, Crash, ReturnOK, ReturnErr
      <4>2. job[a] # Idle
        BY <3>2 DEF HandleFault, InsertErr, NotifyErr, MarkErr, Crash, Idle
      <4> QED BY <1>1, <4>1, <4>2
    <3>3. ~ RecQueryEvents /\ ~ RecQueryAlarms /\ ~ RecNextKey /\ ~ RecQueryErr
      BY <1>1, <3>1 DEF RecQueryEvents, RecQueryAlarms, RecNextKey, RecQueryErr, RoundRec
    <3>4. ASSUME NEW a \in Actors, HandleStep(a) PROVE round' = round
      BY <3>4 DEF HandleStep, Insert, NotifyOK, MarkNotified
    <3>5. ASSUME NEW w \in Workers, SquelchStep(w) \/ SquelchRedisErr(w) \/ \E x \in Events : Receive(w, x)
          PROVE  round' = round
      BY <3>5 DEF SquelchStep, Squelched, TakeKey, SquelchRedisErr, Receive
    <3>6. ASSUME \/ Tick \/ EscalateOnce \/ UNCHANGED vars
                 \/ \E x \in Events : Arrive(x) \/ TdStore(x)
                 \/ \E i \in DOMAIN alarms : Ack(i) \/ Close(i)
          PROVE  round' = round
      BY <3>6 DEF vars, Tick, Arrive, TdStore, Ack, Close, EscalateOnce
    <3>7. round' # round
      BY <1>1
    <3> QED BY <1>1, <3>2, <3>3, <3>4, <3>5, <3>6, <3>7 DEF Next, RecStep
  <2>2. round.evs = {} /\ job[Rec] = Idle
    BY <2>1 DEF RecDone
  <2>3. \A f \in round.known : f \in AlarmEvents
    BY <1>1, <2>2 DEF RoundInv, Idle, HasAlarm
  <2> QED BY <1>1, <2>2, <2>3 DEF RoundInv
<1>2. TypeOK /\ RoundInv /\ [Next]_vars => [Repairs]_vars
  BY <1>1
<1> QED BY <1>2, RoundInvariant, PTL DEF Spec, RoundRepairs
=============================================================================
