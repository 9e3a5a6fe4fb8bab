------------------------------ MODULE Command ------------------------------
(***************************************************************************)
(* Remote commands to one device: deviceapi's POST /cmd (whitelist, grant  *)
(* check, audit, publish), its audit consumer and GET /cmds, support-svc's *)
(* grants and self-checks, and the audit reconciler that looks for         *)
(* commands no grant covers.                                               *)
(*                                                                         *)
(* now is the wall clock all rows are stamped with; every call to          *)
(* PostgreSQL, JetStream or MQTT is a step of its own.                     *)
(***************************************************************************)
EXTENDS Naturals, FiniteSets

CONSTANTS
    Cmds,       \* command ids (UUIDs)
    Grants,     \* grant ids
    GrantTTL,
    Window,     \* DefaultAuditWindow
    MaxTime     \* bound on the clock

ASSUME CommandConstants ==
    {GrantTTL, Window} \subseteq Nat /\ MaxTime \in Nat \ {0}

Never == 0
Times == 1 .. MaxTime
Sources == {"app", "support", "agent"}      \* console, fleet: as app
Actions == {"self_check", "stop"}           \* pause: as stop

VARIABLES
    now,
    grant,     \* iot_shard.support_grant
    cmd,       \* cmd[c]: locals of postCmd and of the caller's SelfCheck
    stream,    \* iot.cmd.audit messages the consumer has not acknowledged
    audit,     \* iot_shard.cmd_audit, primary key (cmd_id, created_at)
    down,      \* commands that reached down/{sn}/cmd
    cmdres,    \* Redis cmdres:{cmd_id}: acks of the device
    told,      \* commands whose caller was told "acked"
    ticket,    \* iot_shard.cmd_ticket_map
    rec,       \* the reconciler: commands read and not yet compared
    flagged    \* commands reported as unauthorized

vars == <<now, grant, cmd, stream, audit, down, cmdres, told, ticket, rec, flagged>>

NeedsGrant(src) == src \in {"support", "agent"}

NoCmd == [pc |-> "none", src |-> "app", act |-> "stop", self |-> FALSE, chk |-> Never, at |-> Never]

Init ==
    /\ now = 1
    /\ grant = [g \in Grants |-> [status |-> "none", granted |-> Never, expires |-> Never, revoked |-> Never]]
    /\ cmd = [c \in Cmds |-> NoCmd]
    /\ stream = {} /\ audit = {} /\ down = {} /\ cmdres = {} /\ told = {} /\ ticket = {}
    /\ rec = {} /\ flagged = {}

Tick ==
    /\ now < MaxTime
    /\ now' = now + 1
    /\ UNCHANGED <<grant, cmd, stream, audit, down, cmdres, told, ticket, rec, flagged>>

-----------------------------------------------------------------------------
(* support-svc, grant.go.                                                  *)

RequestGrant(g) ==
    /\ grant[g].status = "none"
    /\ grant' = [grant EXCEPT ![g].status = "requested"]
    /\ UNCHANGED <<now, cmd, stream, audit, down, cmdres, told, ticket, rec, flagged>>

\* grantTransitions, read backwards.
GrantSources(to) == IF to = "revoked" THEN {"granted"} ELSE {"requested"}

\* userTransition by the device's owner: one UPDATE guarded by the old status.
TransitionGrant(g, to) ==
    /\ grant[g].status \in GrantSources(to)
    /\ grant' = [grant EXCEPT ![g] =
                   CASE to = "granted" -> [@ EXCEPT !.status = to, !.granted = now, !.expires = now + GrantTTL]
                     [] to = "denied" -> [@ EXCEPT !.status = to]
                     [] to = "revoked" -> [@ EXCEPT !.status = to, !.revoked = now]]
    /\ UNCHANGED <<now, cmd, stream, audit, down, cmdres, told, ticket, rec, flagged>>

Effective(g) == grant[g].status = "granted" /\ grant[g].expires > now

-----------------------------------------------------------------------------
(* A command's way through deviceapi.                                      *)

Fresh(c, src, act, self) ==
    /\ cmd[c].pc = "none"
    /\ cmd' = [cmd EXCEPT ![c] = [NoCmd EXCEPT !.pc = "posted", !.src = src, !.act = act, !.self = self]]
    /\ UNCHANGED <<now, grant, stream, audit, down, cmdres, told, ticket, rec, flagged>>

\* A request straight to deviceapi; its source comes from X-Source.
PostCmd(c, src, act) == Fresh(c, src, act, FALSE)

\* support-svc, SelfCheck and AgentSelfCheck: a first look at the grant, then
\* the request.
SelfCheck(c, g, src) == Effective(g) /\ NeedsGrant(src) /\ Fresh(c, src, "self_check", TRUE)

\* grantcheck.Check: a valid grant for the action (grants only ever name
\* self_check), whoever it was issued to.
Check(c) == NeedsGrant(cmd[c].src) => cmd[c].act = "self_check" /\ \E g \in Grants : Effective(g)

\* A refusal, also when PostgreSQL fails, leaves a best-effort denied record.
AuthorizeDenied(c) ==
    /\ cmd[c].pc = "posted" /\ NeedsGrant(cmd[c].src)
    /\ cmd' = [cmd EXCEPT ![c].pc = "refused"]
    /\ stream' \in {stream, stream \cup {[id |-> c, at |-> now, result |-> "denied"]}}
    /\ UNCHANGED <<now, grant, audit, down, cmdres, told, ticket, rec, flagged>>

AuthorizeOK(c) ==
    /\ cmd[c].pc = "posted" /\ Check(c)
    /\ cmd' = [cmd EXCEPT ![c].pc = "authorized", ![c].chk = now]
    /\ UNCHANGED <<now, grant, stream, audit, down, cmdres, told, ticket, rec, flagged>>

Record(c, result) == [id |-> c, at |-> cmd'[c].at, result |-> result]

\* The record is stamped and published; without a PubAck the command is
\* refused, although the record may have been stored.
AuditOK(c) ==
    /\ cmd[c].pc = "authorized"
    /\ cmd' = [cmd EXCEPT ![c].pc = "audited", ![c].at = now]
    /\ stream' = stream \cup {Record(c, "dispatched")}
    /\ UNCHANGED <<now, grant, audit, down, cmdres, told, ticket, rec, flagged>>

AuditErrSends(c) ==
    /\ cmd[c].pc = "authorized"
    /\ cmd' = [cmd EXCEPT ![c].pc = "audited", ![c].at = now]
    /\ stream' \in {stream, stream \cup {Record(c, "dispatched")}}
    /\ UNCHANGED <<now, grant, audit, down, cmdres, told, ticket, rec, flagged>>

AuditErr(c) ==
    /\ cmd[c].pc = "authorized"
    /\ cmd' = [cmd EXCEPT ![c].pc = "refused", ![c].at = now]
    /\ stream' \in {stream, stream \cup {Record(c, "dispatched")}}
    /\ UNCHANGED <<now, grant, audit, down, cmdres, told, ticket, rec, flagged>>

MQTTPublish(c) ==
    /\ cmd[c].pc = "audited"
    /\ cmd' = [cmd EXCEPT ![c].pc = "ok"]
    /\ down' = down \cup {c}
    /\ UNCHANGED <<now, grant, stream, audit, cmdres, told, ticket, rec, flagged>>

\* Publishing fails (a timed-out message may still be delivered); a second
\* record with the same cmd_id and created_at says so, if it can be stored.
MQTTPublishErr(c) ==
    /\ cmd[c].pc = "audited"
    /\ cmd' = [cmd EXCEPT ![c].pc = "failed"]
    /\ down' \in {down, down \cup {c}}
    /\ stream' \in {stream, stream \cup {Record(c, "dispatch_failed")}}
    /\ UNCHANGED <<now, grant, audit, cmdres, told, ticket, rec, flagged>>

Crash(c) ==
    /\ cmd[c].pc \in {"posted", "authorized", "audited"}
    /\ cmd' = [cmd EXCEPT ![c].pc = "lost"]
    /\ UNCHANGED <<now, grant, stream, audit, down, cmdres, told, ticket, rec, flagged>>

\* SelfCheck goes on: the command is filed under the grant's ticket.
InsertCmdTicket(c) ==
    /\ cmd[c].pc = "ok" /\ cmd[c].self /\ c \notin ticket
    /\ ticket' = ticket \cup {c}
    /\ UNCHANGED <<now, grant, cmd, stream, audit, down, cmdres, told, rec, flagged>>

-----------------------------------------------------------------------------
(* The audit consumer, the device's ack and GET /cmds/{cmd_id}.            *)

\* INSERT ... ON CONFLICT DO NOTHING.
InsertAudit(m) ==
    audit' = IF \E r \in audit : r.id = m.id /\ r.at = m.at THEN audit
             ELSE audit \cup {[id |-> m.id, at |-> m.at, src |-> cmd[m.id].src, result |-> m.result, acked |-> FALSE]}

\* acked is FALSE when the process dies before the Ack: the message comes back.
HandleAudit(m, acked) ==
    /\ m \in stream
    /\ InsertAudit(m)
    /\ stream' = IF acked THEN stream \ {m} ELSE stream
    /\ UNCHANGED <<now, grant, cmd, down, cmdres, told, ticket, rec, flagged>>

\* pipeline, handleCmdAck: the device's answer is kept for one hour.
DeviceAcks(c) ==
    /\ c \in down /\ c \notin cmdres /\ c \notin told
    /\ cmdres' = cmdres \cup {c}
    /\ UNCHANGED <<now, grant, cmd, stream, audit, down, told, ticket, rec, flagged>>

CmdresExpires(c) ==
    /\ c \in cmdres
    /\ cmdres' = cmdres \ {c}
    /\ UNCHANGED <<now, grant, cmd, stream, audit, down, told, ticket, rec, flagged>>

Acked(r, c) == IF r.id = c /\ ~ r.acked THEN [r EXCEPT !.result = "acked", !.acked = TRUE] ELSE r

\* GET /cmds: MarkAcked updates the rows there are, then the caller is told
\* and stops asking.
GetCmd(c) ==
    /\ c \in cmdres /\ c \notin told /\ cmd[c].pc = "ok"
    /\ audit' = {Acked(r, c) : r \in audit}
    /\ told' = told \cup {c}
    /\ UNCHANGED <<now, grant, cmd, stream, down, cmdres, ticket, rec, flagged>>

-----------------------------------------------------------------------------
(* support-svc, reconcile.go.                                              *)

\* A row that did not come through postCmd: a script, a direct write.
Bypass(c) ==
    /\ cmd[c].pc = "none"
    /\ cmd' = [cmd EXCEPT ![c] = [NoCmd EXCEPT !.pc = "bypass", !.src = "support", !.act = "self_check", !.at = now]]
    /\ audit' = audit \cup {[id |-> c, at |-> now, src |-> "support", result |-> "dispatched", acked |-> FALSE]}
    /\ UNCHANGED <<now, grant, stream, down, cmdres, told, ticket, rec, flagged>>

\* Query 1: AuditCmdsSince.
RecReadCmds ==
    /\ rec = {}
    /\ rec' = {r \in audit : NeedsGrant(r.src) /\ r.result # "denied" /\ r.at + Window >= now}
    /\ UNCHANGED <<now, grant, cmd, stream, audit, down, cmdres, told, ticket, flagged>>

CoversActiveOnly(g, t) ==
    grant[g].status = "granted" /\ grant[g].granted <= t /\ t < grant[g].expires

CoversIgnoringExpiry(g, t) == grant[g].granted # Never /\ grant[g].granted <= t

\* GrantWindow.Covers.
Covers(g, t) ==
    /\ grant[g].granted # Never
    /\ grant[g].granted <= t /\ t < grant[g].expires
    /\ grant[g].revoked # Never => t < grant[g].revoked

\* Query 2 and the difference: UnauthorizedCmds.
RecCompare ==
    /\ rec # {}
    /\ flagged' = flagged \cup {r.id : r \in {q \in rec : ~ \E g \in Grants : Covers(g, q.at)}}
    /\ rec' = {}
    /\ UNCHANGED <<now, grant, cmd, stream, audit, down, cmdres, told, ticket>>

-----------------------------------------------------------------------------
Handler(c) == AuthorizeDenied(c) \/ AuthorizeOK(c) \/ AuditOK(c) \/ AuditErr(c) \/ MQTTPublish(c)
              \/ MQTTPublishErr(c) \/ InsertCmdTicket(c)

Next ==
    \/ Tick
    \/ \E g \in Grants : RequestGrant(g) \/ \E to \in {"granted", "denied", "revoked"} : TransitionGrant(g, to)
    \/ \E c \in Cmds, src \in Sources, act \in Actions : PostCmd(c, src, act)
    \/ \E c \in Cmds, g \in Grants, src \in Sources : SelfCheck(c, g, src)
    \/ \E c \in Cmds : Handler(c) \/ Crash(c) \/ DeviceAcks(c) \/ CmdresExpires(c) \/ GetCmd(c) \/ Bypass(c)
    \/ \E m \in stream, acked \in BOOLEAN : HandleAudit(m, acked)
    \/ RecReadCmds \/ RecCompare

Spec == Init /\ [][Next]_vars

\* The durable consumer keeps working through the stream and the reconciler's
\* ticker runs.
FairSpec ==
    /\ Spec
    /\ WF_vars(RecReadCmds) /\ WF_vars(RecCompare)
    /\ WF_vars(\E m \in stream : HandleAudit(m, TRUE))

-----------------------------------------------------------------------------
(* Properties.                                                             *)

Rows(c) == {r \in audit : r.id = c}
Records(c) == {m \in stream : m.id = c}

\* Types: times are in the past, one row per key, and a row or a message
\* belongs to a command that exists.
TypeOK ==
    /\ now \in Times
    /\ grant \in [Grants -> [status : {"none", "requested", "granted", "denied", "revoked"},
                             granted : 0 .. now, expires : 0 .. now + GrantTTL, revoked : 0 .. now]]
    /\ cmd \in [Cmds -> [pc : {"none", "posted", "authorized", "audited", "ok", "failed", "refused", "lost", "bypass"},
                         src : Sources, act : Actions, self : BOOLEAN, chk : 0 .. now, at : 0 .. now]]
    /\ stream \subseteq [id : Cmds, at : Times, result : {"denied", "dispatched", "dispatch_failed"}]
    /\ audit \subseteq [id : Cmds, at : Times, src : Sources, acked : BOOLEAN,
                        result : {"denied", "dispatched", "dispatch_failed", "acked"}]
    /\ told \subseteq down /\ cmdres \subseteq down /\ ticket \subseteq Cmds /\ flagged \subseteq Cmds
    /\ \A c \in Cmds : Cardinality(Rows(c)) <= 1
    /\ \A g \in Grants : grant[g].status = "revoked" => grant[g].granted # Never

\* FR-19, "audit before command": whatever fails or crashes, a command that
\* reached the device has a record in the stream or a row in cmd_audit.
AuditBeforeCommand == \A c \in down : Records(c) # {} \/ Rows(c) # {}

\* The time in which grant g authorised commands, whatever became of it since.
Authorised(g, t) ==
    /\ grant[g].granted \in 1 .. t /\ t < grant[g].expires
    /\ grant[g].status = "revoked" => t < grant[g].revoked

\* reconcile.go: an alarm stands for a command that went around the grant
\* check, or for one whose grant was revoked or expired between the check and
\* the created_at of its record; a revocation that comes later raises none,
\* also between the reconciler's two queries.
AlarmsExplained ==
    \A c \in flagged : cmd[c].pc = "bypass" \/
        \E g \in Grants : \/ grant[g].status = "revoked" /\ grant[g].revoked \in cmd[c].chk .. cmd[c].at
                          \/ grant[g].expires \in cmd[c].chk + 1 .. cmd[c].at

\* A command that went around deviceapi while no grant authorised it is
\* reported before it leaves the reconciler's window.
BypassNoticed ==
    \A c \in Cmds :
        (cmd[c].pc = "bypass" /\ ~ \E g \in Grants : Authorised(g, cmd[c].at)) ~>
            \/ c \in flagged
            \/ cmd[c].at + Window < now
            \/ \E g \in Grants : Authorised(g, cmd[c].at)
=============================================================================
