----------------------------- MODULE FleetQueue -----------------------------
(***************************************************************************)
(* fleet-svc's job queue (internal/fleet): students submit items, teachers *)
(* approve them, schedulers claim the first approved item for an idle      *)
(* device and call deviceapi's job_start over HTTP, and an expiry job      *)
(* skips what nobody takes. The rows of one queue live in PostgreSQL,      *)
(* every SQL statement is one step, and an HTTP request that its client    *)
(* gave up on may still be served.                                         *)
(*                                                                         *)
(* A device's shadow changes at any time, so each read of it may give      *)
(* either answer. Time is abstracted to the items that have outlived       *)
(* ApprovedTTL or DispatchedTTL (late).                                    *)
(***************************************************************************)
EXTENDS Naturals, Sequences

CONSTANTS
    Items, SNs,
    Schedulers,     \* replicas: pglock keeps one at a time, bar a lost session
    MaxRetry,
    MaxClaims       \* bound: claim tokens issued

ASSUME FleetConstants ==
    {MaxRetry, MaxClaims} \subseteq Nat \ {0}

NoSN == "none"
Roles == {"student", "teacher"}
Active == {"dispatched"}     \* 'assigned' and 'running' are never written
Final == {"rejected", "canceled", "skipped"}

VARIABLES
    item,     \* iot_shard.queue_item
    order,    \* item ids by approved_at, each at its last approval
    late,     \* items older than the TTL of their status
    sch,      \* sch[p]: locals of dispatchQueue
    flight,   \* job_start requests deviceapi has yet to serve
    ntok,     \* claim tokens issued so far
    started   \* history: how many job_start commands went to down/{sn}/cmd for
              \* an item, by whether the scheduler that asked heard the answer

vars == <<item, order, late, sch, flight, ntok, started>>

NoSch == [pc |-> "idle", item |-> "none", todo |-> {}, sn |-> NoSN, tok |-> 0]

Init ==
    /\ item = [i \in Items |-> [status |-> "none", sn |-> NoSN, cmd |-> 0, retry |-> 0]]
    /\ order = << >> /\ late = {}
    /\ sch = [p \in Schedulers |-> NoSch]
    /\ flight = {} /\ ntok = 0
    /\ started = [i \in Items |-> [heard |-> 0, unheard |-> 0]]

-----------------------------------------------------------------------------
(* Members.                                                                *)

Submit(i) ==
    /\ item[i].status = "none"
    /\ item' = [item EXCEPT ![i].status = "submitted"]
    /\ UNCHANGED <<order, late, sch, flight, ntok, started>>

\* model.go, transitions: the moves that the approve, reject and cancel routes
\* can ask for, by role.
Transition(from, to, role) ==
    \/ to = "canceled" /\ from \in {"submitted", "approved"}
    \/ to \in {"approved", "rejected"} /\ from \in {"submitted", "needs_teacher"} /\ role = "teacher"

\* SetItemStatus. GetItem and the check of the transition come before the
\* UPDATE, which repeats the status they saw (WHERE status = from) and is a
\* conflict otherwise: the two statements take effect where the UPDATE does.
\* Approval sets approved_at.
SetItemStatus(i, to, role) ==
    /\ Transition(item[i].status, to, role)
    /\ item' = [item EXCEPT ![i].status = to]
    /\ order' = IF to = "approved" THEN Append(SelectSeq(order, LAMBDA j : j # i), i) ELSE order
    /\ late' = late \ {i}
    /\ UNCHANGED <<sch, flight, ntok, started>>

-----------------------------------------------------------------------------
(* The scheduler's round for one queue.                                    *)

\* approved_at, as a rank.
ApprovedAt(i) == CHOOSE n \in DOMAIN order : order[n] = i

Approved == {i \in Items : item[i].status = "approved"}
ActiveSNs == {item[i].sn : i \in {j \in Items : item[j].status \in Active}}

\* HeadApproved: the approved item with the least approved_at.
HeadApproved(p) ==
    /\ sch[p].pc = "idle"
    /\ \E i \in Approved :
         /\ \A j \in Approved : ApprovedAt(i) <= ApprovedAt(j)
         /\ sch' = [sch EXCEPT ![p] = [NoSch EXCEPT !.pc = "head", !.item = i]]
    /\ UNCHANGED <<item, order, late, flight, ntok, started>>

\* The device loop with todo left to visit; without any the round is over.
ScanOf(p, todo) == IF todo = {} THEN NoSch ELSE [sch[p] EXCEPT !.pc = "scan", !.todo = todo]

\* ActiveSNs: the queue's devices without an active item.
ReadActive(p) ==
    /\ sch[p].pc = "head"
    /\ sch' = [sch EXCEPT ![p] = ScanOf(p, SNs \ ActiveSNs)]
    /\ UNCHANGED <<item, order, late, flight, ntok, started>>

\* One turn of the device loop: a device that its shadow shows idle and
\* unlocked is claimed; a busy one, or one without a shadow is passed over.
Scan(p, s) ==
    /\ sch[p].pc = "scan" /\ s \in sch[p].todo
    /\ \/ sch' = [sch EXCEPT ![p].pc = "claim", ![p].sn = s, ![p].todo = {}]
       \/ sch' = [sch EXCEPT ![p] = ScanOf(p, sch[p].todo \ {s})]
    /\ UNCHANGED <<item, order, late, flight, ntok, started>>

ClaimableAnyStatus(i, s) == s \notin ActiveSNs

\* The row is still approved and uk_item_device_active has room for s.
Claimable(i, s) == item[i].status = "approved" /\ s \notin ActiveSNs

\* ClaimDispatch with a fresh token, then the job_start request; a claim that
\* changes no row ends the round.
ClaimDispatch(p) ==
    LET i == sch[p].item  s == sch[p].sn IN
    /\ sch[p].pc = "claim"
    /\ IF Claimable(i, s)
         THEN /\ ntok < MaxClaims
              /\ ntok' = ntok + 1
              /\ item' = [item EXCEPT ![i].status = "dispatched", ![i].sn = s, ![i].cmd = ntok']
              /\ late' = late \ {i}
              /\ flight' = flight \cup {[item |-> i, sn |-> s, tok |-> ntok', by |-> p]}
              /\ sch' = [sch EXCEPT ![p].pc = "call", ![p].tok = ntok']
         ELSE /\ sch' = [sch EXCEPT ![p] = NoSch]
              /\ UNCHANGED <<item, late, flight, ntok>>
    /\ UNCHANGED <<order, started>>

\* The HTTP client gives up after 5 s although the request may yet be served.
CallTimeout(p) ==
    /\ sch[p].pc = "call"
    /\ sch' = [sch EXCEPT ![p].pc = "failed"]
    /\ UNCHANGED <<item, order, late, flight, ntok, started>>

\* deviceapi, decideJobStart: the shadow is read again, and a busy or locked
\* device is refused; publishing the command may fail too.
ServeJobStart(r) ==
    LET waits == sch[r.by].pc = "call" /\ sch[r.by].tok = r.tok
        answer(pc) == IF waits THEN [sch EXCEPT ![r.by].pc = pc] ELSE sch
    IN /\ r \in flight
       /\ flight' = flight \ {r}
       /\ \/ /\ started' = IF waits THEN [started EXCEPT ![r.item].heard = @ + 1]
                                     ELSE [started EXCEPT ![r.item].unheard = @ + 1]
             /\ sch' = answer("started")
          \/ /\ started' = started
             /\ sch' = answer("failed")
       /\ UNCHANGED <<item, order, late, ntok>>

Holds(p) == LET i == sch[p].item IN item[i].cmd = sch[p].tok /\ item[i].status = "dispatched"

\* ConfirmDispatch: deviceapi's cmd_id replaces the token.
ConfirmDispatch(p) ==
    /\ sch[p].pc = "started"
    /\ item' = IF Holds(p) THEN [item EXCEPT ![sch[p].item].cmd = MaxClaims + sch[p].tok] ELSE item
    /\ sch' = [sch EXCEPT ![p] = NoSch]
    /\ UNCHANGED <<order, late, flight, ntok, started>>

\* The row RevertDispatch leaves behind; retry is not reset by an approval.
Reverted(p) ==
    LET i == sch[p].item IN
    [item[i] EXCEPT !.status = IF item[i].retry + 1 >= MaxRetry THEN "needs_teacher" ELSE "approved",
                    !.sn = NoSN, !.cmd = 0, !.retry = @ + 1]

RevertDispatch(p) ==
    /\ sch[p].pc = "failed"
    /\ item' = IF Holds(p) THEN [item EXCEPT ![sch[p].item] = Reverted(p)] ELSE item
    /\ sch' = [sch EXCEPT ![p] = NoSch]
    /\ UNCHANGED <<order, late, flight, ntok, started>>

\* The replica dies, or a statement fails and the round is given up.
Crash(p) ==
    /\ sch[p].pc # "idle"
    /\ sch' = [sch EXCEPT ![p] = NoSch]
    /\ UNCHANGED <<item, order, late, flight, ntok, started>>

-----------------------------------------------------------------------------
(* Expiry.                                                                 *)

\* A TTL (2 h, 10 min) passes; no HTTP request is in flight that long.
Age(i) ==
    /\ item[i].status \in {"approved"} \cup Active /\ i \notin late
    /\ \A r \in flight : r.item # i
    /\ late' = late \cup {i}
    /\ UNCHANGED <<item, order, sch, flight, ntok, started>>

ExpirableApproved == {i \in late : item[i].status \in {"approved"}}

Expirable == {i \in late : item[i].status \in {"approved"} \cup Active}

\* One UPDATE over all rows.
ExpireItems ==
    /\ Expirable # {}
    /\ item' = [i \in Items |-> IF i \in Expirable THEN [item[i] EXCEPT !.status = "skipped"] ELSE item[i]]
    /\ late' = late \ Expirable
    /\ UNCHANGED <<order, sch, flight, ntok, started>>

Round(p) ==
    \/ HeadApproved(p) \/ ReadActive(p) \/ (\E s \in SNs : Scan(p, s))
    \/ ClaimDispatch(p) \/ ConfirmDispatch(p) \/ RevertDispatch(p)

Next ==
    \/ \E i \in Items : Submit(i) \/ Age(i)
    \/ \E i \in Items, to \in {"approved", "rejected", "canceled"}, r \in Roles : SetItemStatus(i, to, r)
    \/ \E p \in Schedulers : Round(p) \/ CallTimeout(p) \/ Crash(p)
    \/ \E r \in flight : ServeJobStart(r)
    \/ ExpireItems

Spec == Init /\ [][Next]_vars

\* Time passes, deviceapi serves its requests and the expiry ticker runs.
FairSpec ==
    /\ Spec
    /\ WF_vars(\E i \in Items : Age(i))
    /\ WF_vars(\E r \in flight : ServeJobStart(r))
    /\ WF_vars(ExpireItems)

-----------------------------------------------------------------------------
(* Properties.                                                             *)

\* Types: a row has a device and a command id exactly while it is dispatched
\* or has been skipped from there, and what is approved has an approval.
TypeOK ==
    /\ item \in [Items -> [status : {"none", "submitted", "approved", "dispatched", "needs_teacher"} \cup Final,
                           sn : SNs \cup {NoSN}, cmd : 0 .. 2 * MaxClaims, retry : 0 .. MaxClaims]]
    /\ \A i \in Items : /\ item[i].sn = NoSN <=> item[i].cmd = 0
                        /\ item[i].status = "dispatched" => item[i].sn # NoSN
                        /\ item[i].sn # NoSN => item[i].status \in {"dispatched", "skipped"}
                        /\ item[i].status = "approved" => \E n \in DOMAIN order : order[n] = i
    /\ late \subseteq Items /\ ntok \in 0 .. MaxClaims
    /\ sch \in [Schedulers -> [pc : {"idle", "head", "scan", "claim", "call", "started", "failed"},
                               item : Items \cup {"none"}, todo : SUBSET SNs, sn : SNs \cup {NoSN},
                               tok : 0 .. MaxClaims]]
    /\ flight \subseteq [item : Items, sn : SNs, tok : 1 .. MaxClaims, by : Schedulers]
    /\ started \in [Items -> [heard : 0 .. MaxClaims, unheard : 0 .. MaxClaims]]

\* scheduler.go: the claim is "the only basis of zero duplicate dispatch": an
\* item's job is started at most once.
StartedAtMostOnce == \A i \in Items : started[i].heard + started[i].unheard <= 1

\* What the claim token does guarantee (ClaimDispatch, RevertDispatch, model.go
\* transitions): with two replicas, stale reads, crashes, cancellations and late
\* answers, of all the starts of an item at most one was confirmed to the
\* scheduler that asked, and an item with such a start is not cancelled, rejected
\* or back in the queue. Any other start is one whose answer nobody heard.
HeardStartStands ==
    \A i \in Items :
        /\ started[i].heard <= 1
        /\ item[i].status \in {"submitted", "approved", "needs_teacher", "rejected", "canceled"} =>
             started[i].heard = 0

\* ExpireItems: nothing waits for ever. With finitely many claims there comes a
\* time after which no item is approved or dispatched any more: each has ended,
\* is with its teacher, or was never approved.
ApprovedIsSettled == <>[](\A i \in Items : item[i].status \notin {"approved"} \cup Active)
=============================================================================
