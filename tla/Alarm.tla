------------------------------- MODULE Alarm -------------------------------
(***************************************************************************)
(* alarm-svc (internal/alarm): the durable consumer of safety events, the  *)
(* Redis squelch window, the alarm rows of PostgreSQL with their guarded   *)
(* status UPDATEs, the escalation ticker, and the reconciler that compares *)
(* TDengine's events with the alarm rows and re-creates the missing ones.  *)
(*                                                                         *)
(* Every statement sent to Redis or PostgreSQL is a step of its own, so    *)
(* handlers of several replicas, the reconciler, users and the escalation  *)
(* round interleave between any two statements.                            *)
(***************************************************************************)
EXTENDS Naturals, Sequences, FiniteSets

CONSTANTS
    Workers,       \* replicas of the "alarm" consumer (one callback at a time each)
    Rec,           \* the reconciler's thread (single instance, behind pglock)
    Events,        \* event messages a device may report
    Safety,        \* the events whose code is in envelope.SafetyCodes
    Pair,          \* Pair[e]: the (sn, code) of event e
    Ts,            \* Ts[e]: the event's device timestamp
    None,          \* nil
    SquelchTTL, EscalateAfter, Window, Tolerance,
    MaxTime,       \* bound: the clock stops here
    MaxFaults,     \* bound: failed statements and crashes
    MaxAlarms      \* bound: rows of iot_shard.alarm

ASSUME AlarmConstants ==
    /\ Rec \notin Workers
    /\ Safety \subseteq Events
    /\ Ts \in [Events -> Nat]
    /\ None \notin Events
    /\ {SquelchTTL, EscalateAfter, Window, Tolerance, MaxTime, MaxFaults, MaxAlarms} \subseteq Nat

VARIABLES
    now,        \* wall clock (PG now(), Redis TTLs and the reconciler's Now)
    msg,        \* msg[e]: the stream's view of e: "none", "pending", "acked"
    td,         \* events the pipeline has written to TDengine iot.events
    squelch,    \* squelch[p]: the key alarm:squelch:{p}, its expiry and who set it
    alarms,     \* iot_shard.alarm, in id order
    job,        \* job[a]: where thread a is inside handleEvent
    round,      \* the reconciler's RunOnce locals, and as history the events that
                \* were due when it began and whether one of its INSERTs failed
    faults,     \* failures so far
    by,         \* history: by[e] = the event whose squelch key swallowed e
    aborted     \* history: events whose handler took the key and never inserted

vars == <<now, msg, td, squelch, alarms, job, round, faults, by, aborted>>

Actors == Workers \cup {Rec}
Pairs == {Pair[e] : e \in Events}
Status == {"open", "notified", "acked", "closed"}
NoTime == MaxTime + 1          \* a NULL timestamp column

\* The transition table of state.go and the sets it generates for SQL guards.
transitions == [open |-> {"notified", "acked"}, notified |-> {"acked"},
                acked |-> {"closed"}, closed |-> {}]
Allowed(from, to) == to \in transitions[from]
Sources(to) == {from \in Status : Allowed(from, to)}

Idle == [pc |-> "idle", ev |-> None, id |-> 0]
NoRound == [pc |-> "idle", since |-> 0, evs |-> {}, known |-> {}, due |-> {}, failed |-> FALSE]
NoKey == [exp |-> 0, by |-> None]

Rows == [ev : Events, status : Status, notifiedAt : 0 .. NoTime, escalatedAt : 0 .. NoTime]

Init ==
    /\ now = 0
    /\ msg = [e \in Events |-> "none"]
    /\ td = {}
    /\ squelch = [p \in Pairs |-> NoKey]
    /\ alarms = <<>>
    /\ job = [a \in Actors |-> Idle]
    /\ round = NoRound
    /\ faults = 0
    /\ by = [e \in Events |-> None]
    /\ aborted = {}

-----------------------------------------------------------------------------
(* The environment: devices, the pipeline's TDengine writes, the clock.    *)

Tick ==
    /\ now < MaxTime
    /\ now' = now + 1
    /\ UNCHANGED <<msg, td, squelch, alarms, job, round, faults, by, aborted>>

\* The bridge publishes e: at its device time, or later (disk buffer, backlog).
Arrive(e) ==
    /\ msg[e] = "none" /\ Ts[e] <= now
    /\ msg' = [msg EXCEPT ![e] = "pending"]
    /\ UNCHANGED <<now, td, squelch, alarms, job, round, faults, by, aborted>>

\* pipeline-svc stores the event row, independently of alarm-svc; the reconciler
\* reads only the rows with safety codes.
TdStore(e) ==
    /\ e \in Safety
    /\ msg[e] # "none" /\ e \notin td
    /\ td' = td \cup {e}
    /\ UNCHANGED <<now, msg, squelch, alarms, job, round, faults, by, aborted>>

-----------------------------------------------------------------------------
(* handleEvent, statement by statement.                                    *)

Fault == faults < MaxFaults /\ faults' = faults + 1

Goto(a, pc) == job' = [job EXCEPT ![a].pc = pc]

\* The handler returns nil: a worker Acks; the reconciler goes to its next key.
ReturnOK(a) ==
    /\ job' = [job EXCEPT ![a] = Idle]
    /\ msg' = IF a = Rec THEN msg ELSE [msg EXCEPT ![job[a].ev] = "acked"]

ReturnErrAcks(a) == ReturnOK(a)

\* The handler returns err: a worker Naks, so the message is delivered again;
\* the reconciler logs the error and continues.
ReturnErr(a) ==
    /\ job' = [job EXCEPT ![a] = Idle]
    /\ UNCHANGED msg

\* A fetched message: an unparsable payload or a code that is no safety code is
\* Acked at once, a safety event goes on to the squelch.
Receive(w, e) ==
    /\ job[w] = Idle
    /\ msg[e] = "pending"
    /\ \A v \in Workers : job[v].ev # e
    /\ IF e \in Safety
         THEN /\ job' = [job EXCEPT ![w] = [pc |-> "squelch", ev |-> e, id |-> 0]]
              /\ UNCHANGED msg
         ELSE /\ msg' = [msg EXCEPT ![e] = "acked"]
              /\ UNCHANGED job
    /\ UNCHANGED <<now, td, squelch, alarms, round, faults, by, aborted>>

\* SetNX of the squelch key finds it live: OutcomeSquelched, Ack.
Squelched(w) ==
    LET e == job[w].ev IN
    /\ job[w].pc = "squelch"
    /\ squelch[Pair[e]].exp > now
    /\ by' = [by EXCEPT ![e] = squelch[Pair[e]].by]
    /\ ReturnOK(w)
    /\ UNCHANGED <<now, td, squelch, alarms, round, faults, aborted>>

\* SetNX takes the key for SquelchTTL.
TakeKey(w) ==
    LET e == job[w].ev IN
    /\ job[w].pc = "squelch"
    /\ squelch[Pair[e]].exp <= now
    /\ squelch' = [squelch EXCEPT ![Pair[e]] = [exp |-> now + SquelchTTL, by |-> e]]
    /\ Goto(w, "insert")
    /\ UNCHANGED <<now, msg, td, alarms, round, faults, by, aborted>>

\* Redis fails: the event passes through.
SquelchRedisErr(w) ==
    /\ job[w].pc = "squelch"
    /\ Fault
    /\ Goto(w, "insert")
    /\ UNCHANGED <<now, msg, td, squelch, alarms, round, by, aborted>>

Insert(a) ==
    /\ job[a].pc = "insert"
    /\ Len(alarms) < MaxAlarms
    /\ alarms' = Append(alarms, [ev |-> job[a].ev, status |-> "open",
                                 notifiedAt |-> NoTime, escalatedAt |-> NoTime])
    /\ job' = [job EXCEPT ![a].pc = "notify", ![a].id = Len(alarms) + 1]
    /\ UNCHANGED <<now, msg, td, squelch, round, faults, by, aborted>>

\* The INSERT fails. The squelch key stays as it is: nothing deletes it.
InsertErr(a) ==
    /\ job[a].pc = "insert"
    /\ Fault
    /\ aborted' = IF a = Rec THEN aborted ELSE aborted \cup {job[a].ev}
    /\ round' = IF a = Rec THEN [round EXCEPT !.failed = TRUE] ELSE round
    /\ ReturnErr(a)
    /\ UNCHANGED <<now, td, squelch, alarms, by>>

\* resolveTargets only reads (and falls back on failure); then the push.
NotifyOK(a) ==
    /\ job[a].pc = "notify"
    /\ Goto(a, "mark")
    /\ UNCHANGED <<now, msg, td, squelch, alarms, round, faults, by, aborted>>

\* The push fails: the row stays open and the handler returns OutcomeOpen.
NotifyErr(a) ==
    /\ job[a].pc = "notify"
    /\ Fault
    /\ ReturnOK(a)
    /\ UNCHANGED <<now, td, squelch, alarms, round, by, aborted>>

MarkedRowUnguarded(r) == [r EXCEPT !.status = "notified", !.notifiedAt = now]

\* UPDATE ... SET status='notified' WHERE id AND status='open'. No row means
\* somebody acked it meanwhile: OutcomeOpen, no error either way.
MarkedRow(r) ==
    IF r.status = "open" THEN [r EXCEPT !.status = "notified", !.notifiedAt = now] ELSE r

MarkNotified(a) ==
    /\ job[a].pc = "mark"
    /\ alarms' = [alarms EXCEPT ![job[a].id] = MarkedRow(@)]
    /\ ReturnOK(a)
    /\ UNCHANGED <<now, td, squelch, round, faults, by, aborted>>

MarkErr(a) ==
    /\ job[a].pc = "mark"
    /\ Fault
    /\ ReturnErr(a)
    /\ UNCHANGED <<now, td, squelch, alarms, round, by, aborted>>

\* The process dies inside the handler; JetStream redelivers after AckWait.
Crash(a) ==
    /\ job[a] # Idle
    /\ Fault
    /\ job' = [job EXCEPT ![a] = Idle]
    /\ aborted' = IF a # Rec /\ job[a].pc = "insert"
                    THEN aborted \cup {job[a].ev} ELSE aborted
    /\ round' = IF a = Rec THEN NoRound ELSE round
    /\ UNCHANGED <<now, msg, td, squelch, alarms, by>>

-----------------------------------------------------------------------------
(* Users (HTTP handlers) and the escalation ticker.                        *)

\* UPDATE ... SET status='acked' WHERE id AND status = ANY(Sources('acked')).
Ack(i) ==
    /\ alarms[i].status \in Sources("acked")
    /\ alarms' = [alarms EXCEPT ![i].status = "acked"]
    /\ UNCHANGED <<now, msg, td, squelch, job, round, faults, by, aborted>>

Close(i) ==
    /\ alarms[i].status \in Sources("closed")
    /\ alarms' = [alarms EXCEPT ![i].status = "closed"]
    /\ UNCHANGED <<now, msg, td, squelch, job, round, faults, by, aborted>>

DueForEscalation(r) ==
    /\ r.status = "notified"
    /\ r.notifiedAt + EscalateAfter < now
    /\ r.escalatedAt = NoTime

\* One UPDATE marks every row that is due.
EscalateOnce ==
    /\ \E i \in DOMAIN alarms : DueForEscalation(alarms[i])
    /\ alarms' = [i \in DOMAIN alarms |->
                    IF DueForEscalation(alarms[i])
                      THEN [alarms[i] EXCEPT !.escalatedAt = now] ELSE alarms[i]]
    /\ UNCHANGED <<now, msg, td, squelch, job, round, faults, by, aborted>>

-----------------------------------------------------------------------------
(* The reconciler: RunOnce.                                                *)

\* An alarm of event f covers event e: same (sn, code) and
\* event_ts in [Ts[e] - SquelchTTL, Ts[e] + Tolerance].
Covers(f, e) ==
    /\ Pair[f] = Pair[e]
    /\ Ts[e] <= Ts[f] + SquelchTTL
    /\ Ts[f] <= Ts[e] + Tolerance

AlarmEvents == {alarms[i].ev : i \in DOMAIN alarms}

Recent == {e \in td : now <= Ts[e] + Window}

RecQueryEventsNoWindow ==
    /\ round.pc = "idle"
    /\ round' = [pc |-> "alarms", since |-> now, evs |-> {e \in td : Ts[e] >= now},
                 known |-> {}, due |-> Recent, failed |-> FALSE]
    /\ UNCHANGED <<now, msg, td, squelch, alarms, job, faults, by, aborted>>

\* Query TDengine for the safety events of the window.
RecQueryEvents ==
    /\ round.pc = "idle"
    /\ \E since \in {IF now > Window THEN now - Window ELSE 0} :
         round' = [pc |-> "alarms", since |-> since,
                   evs |-> {e \in td : Ts[e] >= since}, known |-> {},
                   due |-> Recent, failed |-> FALSE]
    /\ UNCHANGED <<now, msg, td, squelch, alarms, job, faults, by, aborted>>

\* Query PostgreSQL for the alarms whose event_ts is in the same window.
RecQueryAlarms ==
    /\ round.pc = "alarms"
    /\ round' = [round EXCEPT !.pc = "create",
                   !.known = {f \in AlarmEvents : Ts[f] >= round.since}]
    /\ UNCHANGED <<now, msg, td, squelch, alarms, job, faults, by, aborted>>

\* Either query fails: the round ends with nothing created.
RecQueryErr ==
    /\ round.pc = "alarms"
    /\ Fault
    /\ round' = NoRound
    /\ UNCHANGED <<now, msg, td, squelch, alarms, job, by, aborted>>

\* Missing takes the events in ascending order of time; one that neither an
\* alarm of the snapshot nor an event emitted before covers is emitted, and
\* created by HandleEventNoSquelch, which starts at the INSERT. Missing is
\* computed before the creations, from locals only, so its loop and the
\* loop that creates are one here.
RecNextKey ==
    /\ round.pc = "create" /\ job[Rec] = Idle
    /\ \E e \in round.evs :
         /\ \A f \in round.evs : Ts[e] <= Ts[f]
         /\ IF \E f \in round.known : Covers(f, e)
              THEN /\ round' = [round EXCEPT !.evs = @ \ {e}]
                   /\ UNCHANGED job
              ELSE /\ round' = [round EXCEPT !.evs = @ \ {e}, !.known = @ \cup {e}]
                   /\ job' = [job EXCEPT ![Rec] = [pc |-> "insert", ev |-> e, id |-> 0]]
    /\ UNCHANGED <<now, msg, td, squelch, alarms, faults, by, aborted>>

RecDone ==
    /\ round.pc = "create" /\ job[Rec] = Idle /\ round.evs = {}
    /\ round' = NoRound
    /\ UNCHANGED <<now, msg, td, squelch, alarms, job, faults, by, aborted>>

-----------------------------------------------------------------------------
HandleStep(a) ==
    \/ Insert(a) \/ NotifyOK(a) \/ MarkNotified(a)

SquelchStep(w) == Squelched(w) \/ TakeKey(w)

HandleFault(a) == InsertErr(a) \/ NotifyErr(a) \/ MarkErr(a) \/ Crash(a)

RecStep == RecQueryEvents \/ RecQueryAlarms \/ RecNextKey \/ RecDone

Next ==
    \/ Tick
    \/ \E e \in Events : Arrive(e) \/ TdStore(e)
    \/ \E w \in Workers, e \in Events : Receive(w, e)
    \/ \E w \in Workers : SquelchStep(w) \/ SquelchRedisErr(w)
    \/ \E a \in Actors : HandleStep(a) \/ HandleFault(a)
    \/ \E i \in DOMAIN alarms : Ack(i) \/ Close(i)
    \/ EscalateOnce
    \/ RecStep
    \/ RecQueryErr

Spec == Init /\ [][Next]_vars

-----------------------------------------------------------------------------
(* Properties.                                                             *)

\* Types: in particular a handler past its INSERT holds the id of an existing
\* row of its own event, and the reconciler only works inside a round.
TypeOK ==
    /\ now \in 0 .. MaxTime
    /\ msg \in [Events -> {"none", "pending", "acked"}]
    /\ td \subseteq Safety
    /\ squelch \in [Pairs -> [exp : 0 .. MaxTime + SquelchTTL, by : Events \cup {None}]]
    /\ alarms \in Seq(Rows)
    /\ Len(alarms) <= MaxAlarms
    /\ job \in [Actors -> [pc : {"idle", "squelch", "insert", "notify", "mark"},
                           ev : Events \cup {None}, id : 0 .. MaxAlarms]]
    /\ \A a \in Actors :
         /\ (job[a].pc = "idle") <=> (job[a].ev = None)
         /\ job[a].pc \in {"notify", "mark"} =>
              /\ job[a].id \in DOMAIN alarms
              /\ alarms[job[a].id].ev = job[a].ev
    /\ round \in [pc : {"idle", "alarms", "create"}, since : Nat,
                  evs : SUBSET Events, known : SUBSET Events,
                  due : SUBSET Events, failed : BOOLEAN]
    /\ job[Rec].pc # "squelch"
    /\ job[Rec].pc # "idle" => round.pc = "create"
    /\ faults \in 0 .. MaxFaults
    /\ by \in [Events -> Events \cup {None}]
    /\ aborted \subseteq Events

HasAlarm(e) == e \in AlarmEvents

InHandler(e) == \E w \in Workers : job[w].ev = e /\ job[w].pc # "squelch"

\* A safety event leaves the stream only with an alarm row of its own, or
\* swallowed by a squelch key; and the event that set the key has a row, is
\* still being handled, or is one whose handler failed before the INSERT
\* (consumer.go's Ack/Nak and service.go's order of SetNX and INSERT).
AckedEventAccounted ==
    \A e \in Safety : msg[e] = "acked" =>
        \/ HasAlarm(e)
        \/ /\ by[e] # None
           /\ HasAlarm(by[e]) \/ InHandler(by[e]) \/ by[e] \in aborted

\* No step rewrites an alarm's history: the status only moves along the
\* transition table, timestamps are written once, and what is escalated is a
\* notification that nobody has answered for EscalateAfter (EscalateOnce against
\* concurrent markNotified and Ack).
AlarmHistory ==
    [][\A i \in DOMAIN alarms :
         /\ i \in DOMAIN alarms'
         /\ alarms'[i].ev = alarms[i].ev
         /\ alarms'[i].status # alarms[i].status =>
              Allowed(alarms[i].status, alarms'[i].status)
         /\ alarms[i].notifiedAt # NoTime => alarms'[i].notifiedAt = alarms[i].notifiedAt
         /\ alarms[i].escalatedAt # NoTime => alarms'[i].escalatedAt = alarms[i].escalatedAt
         /\ alarms'[i].escalatedAt # alarms[i].escalatedAt =>
              /\ alarms[i].status = "notified"
              /\ alarms[i].notifiedAt + EscalateAfter < alarms'[i].escalatedAt]_vars

\* reconcile.go: a reconciliation round that ends without a failed INSERT leaves
\* every recent safety event of TDengine covered by an alarm row, although its
\* snapshot of the alarms was stale, workers inserted meanwhile, and it skips
\* events that its own creations cover.
RoundRepairs ==
    [][round.pc = "create" /\ round'.pc = "idle" /\ job = job' /\ ~ round.failed =>
         \A e \in round.due : \E f \in AlarmEvents : Covers(f, e)]_vars
=============================================================================
