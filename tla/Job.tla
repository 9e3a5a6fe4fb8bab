-------------------------------- MODULE Job --------------------------------
(***************************************************************************)
(* job-svc (internal/job): records of laser jobs and the users' marks on   *)
(* them, kept only with the user's consent.                                *)
(*                                                                         *)
(* A JOB_* event is handled in several statements after one look at the    *)
(* reported shadow, a mark in two; withdrawals are carried out by the      *)
(* purger, which looks at desired, and by the reconciler, which looks at   *)
(* reported. Both purgers run behind pglock (PgLock.tla): one of each.     *)
(* A mark stands for its sn; ratings, times and materials are left out.    *)
(***************************************************************************)
EXTENDS Naturals, FiniteSets

CONSTANTS
    SNs, Jobs,
    Owner,         \* Owner[j]: the device that runs job j
    Events,        \* the JOB_* events in the stream: [job, code]
    Workers,       \* consumer callbacks of the replicas
    Marks,         \* POST /jobs/{id}/feedback requests: [job, sn]
    MaxFlips,      \* bound: changes of desired
    MaxFaults      \* bound: failed statements, crashes, unreadable shadows

NoOne == "none"

\* A job runs on one of the devices; events and marks are about jobs.
JobConstants ==
    /\ NoOne \notin SNs \cup Jobs
    /\ Owner \in [Jobs -> SNs]
    /\ Events \subseteq [job : Jobs, code : {"start", "done"}]
    /\ Marks \subseteq [job : Jobs, sn : SNs]

VARIABLES
    desired,   \* shadow_desired.job_feedback_optin
    reported,  \* the same field of the reported shadow: "true", "false", "missing"
    record,    \* job_record: the sn of the row of job j
    finished,  \* jobs whose row has an outcome
    feedback,  \* job_feedback: the sn of the row
    pending,   \* job_feedback_pending: the sn of the row
    todo,      \* events the stream has not been acknowledged
    work,      \* work[w]: the handler's step and event
    mark,      \* mark[m]: the step of a request
    purge,     \* locals of PurgeOnce, and history: SNs that lacked consent meanwhile
    recon,     \* locals of OptInReconciler.RunOnce, and the same history
    raced,     \* history: jobs with a pending row inserted after their record, with
               \* an event two workers had at a time, or dropped beside a record
    flips, faults

consent == <<desired, reported, flips>>
tables == <<record, finished, feedback, pending>>
vars == <<consent, tables, todo, work, mark, purge, recon, raced, faults>>

NoEvent == [job |-> NoOne, code |-> ""]
IdleWork == [pc |-> "idle", e |-> NoEvent]
IdleRound == [pc |-> "idle", list |-> {}, bad |-> {}, lapsed |-> {}]
Nothing == [j \in Jobs |-> NoOne]

Init ==
    /\ desired = [s \in SNs |-> "true"]
    /\ reported \in [SNs -> {"true", "missing"}]
    /\ record = Nothing /\ feedback = Nothing /\ pending = Nothing /\ finished = {}
    /\ todo = Events
    /\ work = [w \in Workers |-> IdleWork]
    /\ mark = [m \in Marks |-> "new"]
    /\ purge = IdleRound /\ recon = IdleRound
    /\ raced = {} /\ flips = 0 /\ faults = 0

Fault == faults < MaxFaults /\ faults' = faults + 1

-----------------------------------------------------------------------------
(* The user's switch and the device that reports it back                   *)

Lapsed(d, r) == {s \in SNs : d[s] = "false" \/ r[s] # "true"}

\* The rounds under way remember who lacked consent at some moment of them.
Remember(d, r) ==
    /\ purge' = [purge EXCEPT !.lapsed = IF purge.pc = "idle" THEN {} ELSE @ \cup Lapsed(d, r)]
    /\ recon' = [recon EXCEPT !.lapsed = IF recon.pc = "idle" THEN {} ELSE @ \cup Lapsed(d, r)]

SetDesired(s) ==
    /\ flips < MaxFlips /\ flips' = flips + 1
    /\ \E v \in {"true", "false"} \ {desired[s]} : desired' = [desired EXCEPT ![s] = v]
    /\ Remember(desired', reported)
    /\ UNCHANGED <<reported, tables, todo, work, mark, raced, faults>>

Report(s) ==
    /\ desired[s] # reported[s]
    /\ reported' = [reported EXCEPT ![s] = desired[s]]
    /\ Remember(desired, reported')
    /\ UNCHANGED <<desired, flips, tables, todo, work, mark, raced, faults>>

\* DecideOptIn: a shadow that cannot be read is an answer of its own
OptIn(s) == IF reported[s] = "true" THEN "allowed" ELSE reported[s]

-----------------------------------------------------------------------------
(* HandleEvent                                                             *)

At(w, pc) == work[w].pc = pc
Goto(w, pc) == work' = [work EXCEPT ![w].pc = pc]
Done(w) == work' = [work EXCEPT ![w] = IdleWork]
Ack(w) == Done(w) /\ todo' = todo \ {work[w].e}

\* A second delivery while the first is being handled (AckWait) is a fault.
Deliver(w) ==
    /\ At(w, "idle")
    /\ \E e \in todo :
         /\ work' = [work EXCEPT ![w] = [pc |-> "optin", e |-> e]]
         /\ IF \E v \in Workers : work[v].e = e
            THEN Fault /\ raced' = raced \cup {e.job}
            ELSE UNCHANGED <<raced, faults>>
    /\ UNCHANGED <<consent, tables, todo, mark, purge, recon>>

\* The consent first, then ValidateJobFields; an event that has none, whose
\* shadow cannot be read or whose fields are refused is acknowledged and dropped.
CheckOptIn(w) ==
    /\ At(w, "optin")
    /\ \/ /\ OptIn(Owner[work[w].e.job]) = "allowed"
          /\ Goto(w, "record") /\ UNCHANGED <<todo, faults>>
       \/ /\ OptIn(Owner[work[w].e.job]) # "allowed"
          /\ Ack(w) /\ UNCHANGED faults
       \/ Fault /\ Ack(w)
    /\ raced' = IF work'[w].pc = "idle" THEN raced \cup {j \in {work[w].e.job} : record[j] # NoOne} ELSE raced
    /\ UNCHANGED <<consent, tables, mark, purge, recon>>

\* RecordStart, or the UPDATE of RecordFinish
Record(w) ==
    LET j == work[w].e.job
    IN /\ At(w, "record")
       /\ IF work[w].e.code = "start"
          THEN /\ record' = [record EXCEPT ![j] = IF @ = NoOne THEN Owner[j] ELSE @]
               /\ Goto(w, "merge") /\ UNCHANGED finished
          ELSE /\ finished' = IF record[j] = NoOne THEN finished ELSE finished \cup {j}
               /\ Goto(w, IF record[j] = NoOne THEN "late" ELSE "merge") /\ UNCHANGED record
       /\ UNCHANGED <<consent, feedback, pending, todo, mark, purge, recon, raced, faults>>

\* RecordFinish without a row: the upsert of a record whose START was lost
LateFinish(w) ==
    LET j == work[w].e.job
    IN /\ At(w, "late") /\ Goto(w, "merge")
       /\ record' = [record EXCEPT ![j] = IF @ = NoOne THEN Owner[j] ELSE @]
       /\ finished' = finished \cup {j}
       /\ UNCHANGED <<consent, feedback, pending, todo, mark, purge, recon, raced, faults>>

\* MergePending: one transaction. Without the record, purged meanwhile, the
\* foreign key refuses the row and the event is delivered again. ON CONFLICT
\* keeps the sn of a row that is there.
MergePending(w) ==
    LET j == work[w].e.job
    IN /\ At(w, "merge")
       /\ IF pending[j] # NoOne /\ record[j] = NoOne
          THEN Done(w) /\ UNCHANGED <<feedback, pending, todo>>
          ELSE /\ Ack(w)
               /\ feedback' = [feedback EXCEPT ![j] = IF @ = NoOne THEN pending[j] ELSE @]
               /\ pending' = [pending EXCEPT ![j] = NoOne]
       /\ UNCHANGED <<consent, record, finished, mark, purge, recon, raced, faults>>

\* Mutant: the event is acknowledged all the same.
EventFailsAcks(w) ==
    /\ ~At(w, "idle") /\ Fault /\ Ack(w)
    /\ UNCHANGED <<consent, tables, mark, purge, recon, raced>>

\* A failed statement (NakWithDelay) or a crash: the event stays in the stream.
EventFails(w) ==
    /\ ~At(w, "idle") /\ Fault /\ Done(w)
    /\ UNCHANGED <<consent, tables, todo, mark, purge, recon, raced>>

-----------------------------------------------------------------------------
(* Feedback                                                                *)

MarkAt(m, pc) == mark' = [mark EXCEPT ![m] = pc]

\* The consent of the sn in the header, which need not be the job's device
MarkOptIn(m) ==
    /\ mark[m] = "new"
    /\ MarkAt(m, IF OptIn(m.sn) = "allowed" THEN "owner" ELSE "denied")
    /\ UNCHANGED <<consent, tables, todo, work, purge, recon, raced, faults>>

RecordSN(m) ==
    /\ mark[m] = "owner"
    /\ MarkAt(m, IF record[m.job] = NoOne THEN "pend"
                 ELSE IF record[m.job] # m.sn THEN "denied" ELSE "store")
    /\ UNCHANGED <<consent, tables, todo, work, purge, recon, raced, faults>>

InsertPending(m) ==
    /\ mark[m] = "pend" /\ MarkAt(m, "done")
    /\ pending' = [pending EXCEPT ![m.job] = m.sn]
    /\ raced' = IF record[m.job] # NoOne THEN raced \cup {m.job} ELSE raced
    /\ UNCHANGED <<consent, record, finished, feedback, todo, work, purge, recon, faults>>

\* The foreign key refuses a mark whose record has been purged since RecordSN.
UpsertFeedback(m) ==
    /\ mark[m] = "store" /\ MarkAt(m, "done")
    /\ feedback' = [feedback EXCEPT ![m.job] =
                      IF record[m.job] = NoOne \/ @ # NoOne THEN @ ELSE m.sn]
    /\ UNCHANGED <<consent, record, finished, pending, todo, work, purge, recon, raced, faults>>

-----------------------------------------------------------------------------
(* Purging                                                                 *)

\* Mutant: job_feedback_pending is forgotten.
PurgeSNKeepsPending(s) ==
    LET gone == {j \in Jobs : record[j] = s}
    IN /\ record' = [j \in Jobs |-> IF j \in gone THEN NoOne ELSE record[j]]
       /\ feedback' = [j \in Jobs |-> IF j \in gone THEN NoOne ELSE feedback[j]]
       /\ finished' = finished \ gone /\ UNCHANGED pending

\* PurgeSN: one transaction; job_feedback goes with its record (ON DELETE CASCADE)
PurgeSN(s) ==
    LET gone == {j \in Jobs : record[j] = s}
    IN /\ record' = [j \in Jobs |-> IF j \in gone THEN NoOne ELSE record[j]]
       /\ feedback' = [j \in Jobs |-> IF j \in gone THEN NoOne ELSE feedback[j]]
       /\ pending' = [j \in Jobs |-> IF pending[j] = s THEN NoOne ELSE pending[j]]
       /\ finished' = finished \ gone

NeedPurge(s) == desired[s] = "false"
OptedOutSNs == {s \in SNs : NeedPurge(s)}

Round(pc, list) == [pc |-> pc, list |-> list, bad |-> {}, lapsed |-> Lapsed(desired, reported)]
Ends(round, rest) == IF rest = {} THEN IdleRound ELSE [round EXCEPT !.list = rest]

\* PurgeOnce
PurgeOnce ==
    /\ purge.pc = "idle" /\ OptedOutSNs # {}
    /\ purge' = Round("purge", OptedOutSNs)
    /\ UNCHANGED <<consent, tables, todo, work, mark, recon, raced, faults>>

PurgeStep ==
    /\ purge.pc = "purge"
    /\ \E s \in purge.list :
         /\ \/ PurgeSN(s) /\ UNCHANGED faults
            \/ Fault /\ UNCHANGED tables
         /\ purge' = Ends(purge, purge.list \ {s})
    /\ UNCHANGED <<consent, todo, work, mark, recon, raced>>

\* OptInReconciler.RunOnce: the SNs of job_record, their shadows one by one,
\* and then the purge of those without consent
DistinctJobSNs == {record[j] : j \in Jobs} \ {NoOne}
ReconOnce ==
    /\ recon.pc = "idle" /\ DistinctJobSNs # {}
    /\ recon' = Round("read", DistinctJobSNs)
    /\ UNCHANGED <<consent, tables, todo, work, mark, purge, raced, faults>>

\* Mutant: whoever is not known to consent.
ViolatingUnlessAllowed(state) == state # "allowed"

\* ViolatingSNs: a shadow that cannot be read neither violates nor deletes
Violating(state) == state \in {"false", "missing"}
ReconRead ==
    /\ recon.pc = "read"
    /\ \E s \in recon.list, state \in {"allowed", "false", "missing", "error"} :
         LET bad == recon.bad \cup {t \in {s} : Violating(state)}
             rest == recon.list \ {s}
         IN /\ IF state = "error" THEN Fault ELSE state = OptIn(s) /\ UNCHANGED faults
            /\ recon' = IF rest # {} THEN [recon EXCEPT !.list = rest, !.bad = bad]
                        ELSE IF bad = {} THEN IdleRound
                        ELSE [recon EXCEPT !.pc = "purge", !.list = bad, !.bad = {}]
    /\ UNCHANGED <<consent, tables, todo, work, mark, purge, raced>>

ReconPurge ==
    /\ recon.pc = "purge"
    /\ \E s \in recon.list :
         /\ \/ PurgeSN(s) /\ UNCHANGED faults
            \/ Fault /\ UNCHANGED tables
         /\ recon' = Ends(recon, recon.list \ {s})
    /\ UNCHANGED <<consent, todo, work, mark, purge, raced>>

-----------------------------------------------------------------------------
Consumer(w) == Deliver(w) \/ CheckOptIn(w) \/ Record(w) \/ LateFinish(w) \/ MergePending(w)
Request(m) == MarkOptIn(m) \/ RecordSN(m) \/ InsertPending(m) \/ UpsertFeedback(m)
Purger == PurgeOnce \/ PurgeStep
Reconciler == ReconOnce \/ ReconRead \/ ReconPurge

Next ==
    \/ \E s \in SNs : SetDesired(s) \/ Report(s)
    \/ \E w \in Workers : Consumer(w) \/ EventFails(w)
    \/ \E m \in Marks : Request(m)
    \/ Purger \/ Reconciler

Spec == Init /\ [][Next]_vars

-----------------------------------------------------------------------------
(* Properties                                                              *)

TypeOK ==
    /\ desired \in [SNs -> {"true", "false"}]
    /\ reported \in [SNs -> {"true", "false", "missing"}]
    /\ {record, feedback, pending} \subseteq [Jobs -> SNs \cup {NoOne}]
    /\ finished \subseteq {j \in Jobs : record[j] # NoOne}
    /\ \A j \in Jobs : feedback[j] # NoOne => record[j] # NoOne
    /\ todo \subseteq Events /\ raced \subseteq Jobs
    /\ \A w \in Workers : work[w].pc \in {"idle", "optin", "record", "late", "merge"}
    /\ mark \in [Marks -> {"new", "owner", "pend", "store", "done", "denied"}]

(* A user whose consent stood during the whole of a purging round loses no *)
(* record to it: not when the shadow cannot be read, not when the switch   *)
(* was off before the round (NeedPurge, ViolatingSNs).                     *)
PurgeNeedsWithdrawal ==
    [][\A j \in Jobs : record[j] # NoOne /\ record'[j] = NoOne =>
          record[j] \in purge.lapsed \cup recon.lapsed]_vars

(* A mark that came before its record is joined to it however often the    *)
(* event fails and is delivered again: once the events of a job are done   *)
(* with, a pending mark beside a record is one that was stored after the   *)
(* record because the request had looked before it, one whose event two    *)
(* workers had at a time, or one whose event was dropped when it came      *)
(* again (HandleEvent, Feedback).                                          *)
StrandedMarkRaced ==
    \A j \in Jobs :
        /\ pending[j] # NoOne /\ record[j] # NoOne
        /\ \A e \in todo : e.job # j
        => j \in raced

(* A user who withdraws and does not come back is forgotten: no record, no *)
(* pending mark and no mark on a record of the device, although handlers   *)
(* that had seen the consent may still write after a purge (PurgeOnce).    *)
Forgotten(s) == \A j \in Jobs : record[j] # s /\ pending[j] # s
WithdrawnIsForgotten ==
    \A s \in SNs : <>[](desired[s] = "false") => <>[]Forgotten(s)
=============================================================================
