--------------------------- MODULE DeviceApiProofs ---------------------------
(***************************************************************************)
(* What holds of deviceapi for any number of commands, grants and requests:*)
(* a command that reached the device left a record, every alarm of the     *)
(* reconciler has a cause, and a device is behind its document only after  *)
(* a race of PATCHes.                                                      *)
(***************************************************************************)
EXTENDS MCDeviceApi, FiniteSetTheorems, TLAPS

-----------------------------------------------------------------------------
(* The inductive invariant.                                                *)

Results == {"denied", "dispatched", "dispatch_failed"}
CmdRec == [pc : {"none", "posted", "authorized", "audited", "ok", "failed", "refused", "lost", "bypass"},
           src : Sources, act : Actions, self : BOOLEAN, chk : Nat, at : Nat]
GrantRec == [status : {"none", "requested", "granted", "denied", "revoked"},
             granted : Nat, expires : Nat, revoked : Nat]
Message == [id : Cmds, at : Times, result : Results]
Row == [id : Cmds, at : Times, src : Sources, acked : BOOLEAN, result : Results \cup {"acked"}]

Shapes ==
    /\ now \in Times
    /\ grant \in [Grants -> GrantRec]
    /\ cmd \in [Cmds -> CmdRec]
    /\ stream \subseteq Message /\ audit \subseteq Row /\ rec \subseteq Row
    /\ down \subseteq Cmds /\ told \subseteq down /\ cmdres \subseteq down
    /\ ticket \subseteq Cmds /\ flagged \subseteq Cmds

\* A grant's times: stamped in the past, and revoked only when it was granted.
GrantTimes ==
    \A g \in Grants :
        /\ grant[g].granted <= now /\ grant[g].expires <= now + GrantTTL /\ grant[g].revoked <= now
        /\ grant[g].status \in {"none", "requested"} => grant[g].granted = Never /\ grant[g].expires = Never
        /\ grant[g].status \in {"granted", "revoked"} => grant[g].granted # Never
        /\ grant[g].status = "revoked" <=> grant[g].revoked # Never

\* A command's times: a check before the record, neither before its step.
CmdTimes ==
    \A c \in Cmds :
        /\ cmd[c].chk <= now /\ cmd[c].at <= now
        /\ cmd[c].pc \in {"none", "posted"} => cmd[c].chk = Never
        /\ cmd[c].pc \in {"none", "posted", "authorized"} => cmd[c].at = Never
        /\ cmd[c].pc \in {"audited", "ok", "failed"} => cmd[c].at # Never
        /\ cmd[c].pc = "authorized" => cmd[c].chk # Never
        /\ cmd[c].at # Never /\ cmd[c].pc # "bypass" => cmd[c].chk # Never /\ cmd[c].chk <= cmd[c].at

\* What stream and cmd_audit hold is about commands that got that far: a
\* denied record is all there is of its command, and the others carry the
\* command's created_at.
Recorded(x) ==
    /\ cmd[x.id].pc \notin {"none", "posted", "authorized"}
    /\ x.result = "denied" => cmd[x.id].pc = "refused" /\ cmd[x.id].at = Never
    /\ x.result # "denied" => x.at = cmd[x.id].at

RecordInv ==
    /\ \A x \in stream \cup audit : Recorded(x)
    /\ \A x \in stream \cup audit, y \in stream \cup audit : x.id = y.id => x.at = y.at
    /\ \A r \in audit, q \in audit : r.id = q.id => r = q
    /\ \A r \in audit : r.src = cmd[r.id].src
    /\ \A r \in rec : /\ cmd[r.id].pc \notin {"none", "posted", "authorized"}
                      /\ r.at = cmd[r.id].at /\ NeedsGrant(cmd[r.id].src)

Logged(c) == Records(c) # {} \/ Rows(c) # {}

\* From the PubAck on there is a record, and only then can the command go out.
LoggedInv ==
    \A c \in Cmds :
        /\ cmd[c].pc \in {"audited", "ok", "failed"} => Logged(c)
        /\ c \in down => cmd[c].pc \in {"ok", "failed"}

\* A grant that authorised a check at t: granted by then, and not revoked or
\* expired before it.
ValidAt(g, t) ==
    /\ grant[g].status \in {"granted", "revoked"}
    /\ grant[g].granted <= t /\ t < grant[g].expires
    /\ grant[g].status = "revoked" => t <= grant[g].revoked

CheckedInv ==
    \A c \in Cmds : cmd[c].chk # Never /\ NeedsGrant(cmd[c].src) => \E g \in Grants : ValidAt(g, cmd[c].chk)

FlaggedInv == AlarmsExplained /\ \A c \in flagged : cmd[c].at # Never

CommandInv == Shapes /\ GrantTimes /\ CmdTimes /\ RecordInv /\ LoggedInv /\ CheckedInv /\ FlaggedInv

-----------------------------------------------------------------------------
(* How a step moves commands and grants.                                   *)

CmdMove(o, n) ==
    \/ n = o
    \/ o.pc = "none" /\ n.pc = "posted" /\ n.chk = Never /\ n.at = Never
    \/ o.pc = "none" /\ n.pc = "bypass" /\ n.chk = Never /\ n.at = now
    \/ /\ o.pc = "posted" /\ n = [o EXCEPT !.pc = "authorized", !.chk = now]
       /\ NeedsGrant(o.src) => \E g \in Grants : Effective(g)
    \/ o.pc = "posted" /\ n = [o EXCEPT !.pc = "refused"]
    \/ o.pc = "authorized" /\ n.pc \in {"audited", "refused"} /\ n = [o EXCEPT !.pc = n.pc, !.at = now]
    \/ o.pc = "audited" /\ n.pc \in {"ok", "failed"} /\ n = [o EXCEPT !.pc = n.pc]
    \/ o.pc \in {"posted", "authorized", "audited"} /\ n = [o EXCEPT !.pc = "lost"]

GrantMove(o, n) ==
    \/ n = o
    \/ o.status = "none" /\ n = [o EXCEPT !.status = "requested"]
    \/ o.status = "requested" /\ n = [o EXCEPT !.status = "granted", !.granted = now, !.expires = now + GrantTTL]
    \/ o.status = "requested" /\ n = [o EXCEPT !.status = "denied"]
    \/ o.status = "granted" /\ n = [o EXCEPT !.status = "revoked", !.revoked = now]

CmdSame == Tick \/ (\E g \in Grants : RequestGrant(g) \/ \E to \in {"granted", "denied", "revoked"} : TransitionGrant(g, to))
           \/ (\E c \in Cmds : InsertCmdTicket(c) \/ DeviceAcks(c) \/ CmdresExpires(c) \/ GetCmd(c))
           \/ (\E m \in stream, acked \in BOOLEAN : HandleAudit(m, acked))
           \/ RecReadCmds \/ RecCompare

LEMMA CmdMoves ==
    ASSUME Shapes, [Next]_vars
    PROVE  cmd' \in [Cmds -> CmdRec] /\ \A c \in Cmds : CmdMove(cmd[c], cmd'[c])
<1> DEFINE G == cmd' \in [Cmds -> CmdRec] /\ \A c \in Cmds : CmdMove(cmd[c], cmd'[c])
<1>0. cmd \in [Cmds -> CmdRec] /\ now \in Nat
  BY CommandConstants DEF Shapes, Times
<1>1. ASSUME NEW c \in Cmds, NEW v \in CmdRec, cmd' = [cmd EXCEPT ![c] = v], CmdMove(cmd[c], v) PROVE G
  <2>1. ASSUME NEW d \in Cmds PROVE CmdMove(cmd[d], cmd'[d])
    <3>1. CASE d = c
      BY <1>0, <1>1, <3>1
    <3>2. CASE d # c
      BY <1>0, <1>1, <3>2 DEF CmdMove
    <3> QED BY <3>1, <3>2
  <2> QED BY <1>0, <1>1, <2>1
<1>2. ASSUME UNCHANGED cmd PROVE G
  BY <1>0, <1>2 DEF CmdMove
<1>3. ASSUME NEW c \in Cmds, NEW src \in Sources, NEW act \in Actions, NEW self \in BOOLEAN, Fresh(c, src, act, self) PROVE G
  <2> DEFINE v == [NoCmd EXCEPT !.pc = "posted", !.src = src, !.act = act, !.self = self]
  <2>1. v \in CmdRec /\ v.pc = "posted" /\ v.chk = Never /\ v.at = Never
    BY DEF CmdRec, NoCmd, Never
  <2>2. cmd' = [cmd EXCEPT ![c] = v] /\ cmd[c].pc = "none"
    BY <1>3 DEF Fresh
  <2> HIDE DEF v
  <2> QED BY <1>1, <2>1, <2>2 DEF CmdMove
<1>4. ASSUME NEW c \in Cmds, Bypass(c) PROVE G
  <2> DEFINE v == [NoCmd EXCEPT !.pc = "bypass", !.src = "support", !.act = "self_check", !.at = now]
  <2>1. v \in CmdRec /\ v.pc = "bypass" /\ v.chk = Never /\ v.at = now
    BY <1>0 DEF CmdRec, NoCmd, Never, Sources, Actions
  <2>2. cmd' = [cmd EXCEPT ![c] = v] /\ cmd[c].pc = "none"
    BY <1>4 DEF Bypass
  <2> HIDE DEF v
  <2> QED BY <1>1, <2>1, <2>2 DEF CmdMove
<1>5. ASSUME NEW c \in Cmds, NEW pc \in {"refused", "ok", "failed", "lost"}, cmd' = [cmd EXCEPT ![c].pc = pc],
             CmdMove(cmd[c], [cmd[c] EXCEPT !.pc = pc]) PROVE G
  <2> DEFINE v == [cmd[c] EXCEPT !.pc = pc]
  <2>1. v \in CmdRec
    BY <1>0 DEF CmdRec
  <2>2. cmd' = [cmd EXCEPT ![c] = v]
    BY <1>0, <1>5
  <2> HIDE DEF v
  <2> QED BY <1>1, <1>5, <2>1, <2>2 DEF v
<1>6. ASSUME NEW c \in Cmds, AuthorizeDenied(c) \/ MQTTPublish(c) \/ MQTTPublishErr(c) \/ Crash(c) PROVE G
  <2>1. \E pc \in {"refused", "ok", "failed", "lost"} :
           cmd' = [cmd EXCEPT ![c].pc = pc] /\ CmdMove(cmd[c], [cmd[c] EXCEPT !.pc = pc])
    <3>0. cmd[c] \in CmdRec
      BY <1>0
    <3> QED BY <1>6, <3>0 DEF AuthorizeDenied, MQTTPublish, MQTTPublishErr, Crash, CmdMove, CmdRec
  <2> QED BY <1>5, <2>1
<1>7. ASSUME NEW c \in Cmds, AuthorizeOK(c) PROVE G
  <2> DEFINE v == [cmd[c] EXCEPT !.pc = "authorized", !.chk = now]
  <2>1. v \in CmdRec /\ v.pc = "authorized"
    BY <1>0 DEF CmdRec
  <2>2. cmd' = [cmd EXCEPT ![c] = v] /\ cmd[c].pc = "posted" /\ (NeedsGrant(cmd[c].src) => \E g \in Grants : Effective(g))
    BY <1>7 DEF AuthorizeOK, Check
  <2>3. CmdMove(cmd[c], v)
    BY <2>1, <2>2 DEF CmdMove
  <2> HIDE DEF v
  <2> QED BY <1>1, <2>1, <2>2, <2>3
<1>8. ASSUME NEW c \in Cmds, NEW pc \in {"audited", "refused"}, cmd[c].pc = "authorized",
             cmd' = [cmd EXCEPT ![c].pc = pc, ![c].at = now] PROVE G
  <2> DEFINE v == [cmd[c] EXCEPT !.pc = pc, !.at = now]
  <2>1. v \in CmdRec /\ v.pc = pc
    BY <1>0 DEF CmdRec
  <2>2. cmd' = [cmd EXCEPT ![c] = v] /\ cmd[c].pc = "authorized"
    BY <1>0, <1>8
  <2>3. CmdMove(cmd[c], v)
    BY <2>1, <2>2 DEF CmdMove
  <2> HIDE DEF v
  <2> QED BY <1>1, <2>1, <2>2, <2>3
<1>9. ASSUME NEW c \in Cmds, AuditOK(c) \/ AuditErr(c) PROVE G
  BY <1>8, <1>9 DEF AuditOK, AuditErr
<1>10. ASSUME CmdSame \/ UNCHANGED vars PROVE G
  <2>1. UNCHANGED cmd
    BY <1>10 DEF CmdSame, vars, Tick, RequestGrant, TransitionGrant, InsertCmdTicket, DeviceAcks, CmdresExpires, GetCmd,
       HandleAudit, RecReadCmds, RecCompare
  <2> QED BY <1>2, <2>1
<1>11. ASSUME NEW c \in Cmds, NEW src \in Sources,
              (\E act \in Actions : PostCmd(c, src, act)) \/ (\E g \in Grants : SelfCheck(c, g, src)) PROVE G
  <2>1. \E act \in Actions, self \in BOOLEAN : Fresh(c, src, act, self)
    BY <1>11 DEF PostCmd, SelfCheck, Actions
  <2> QED BY <1>3, <2>1
<1> HIDE DEF G
<1>12. G
  BY <1>4, <1>6, <1>7, <1>9, <1>10, <1>11 DEF Next, Handler, CmdSame
<1> QED BY <1>12 DEF G

LEMMA GrantMoves ==
    ASSUME Shapes, [Next]_vars
    PROVE  grant' \in [Grants -> GrantRec] /\ \A g \in Grants : GrantMove(grant[g], grant'[g])
<1> DEFINE G == grant' \in [Grants -> GrantRec] /\ \A g \in Grants : GrantMove(grant[g], grant'[g])
<1>0. grant \in [Grants -> GrantRec] /\ now \in Nat /\ now + GrantTTL \in Nat
  BY CommandConstants DEF Shapes, Times
<1>1. ASSUME NEW g \in Grants, NEW v \in GrantRec, grant' = [grant EXCEPT ![g] = v], GrantMove(grant[g], v) PROVE G
  <2>1. ASSUME NEW h \in Grants PROVE GrantMove(grant[h], grant'[h])
    <3>1. CASE h = g
      BY <1>0, <1>1, <3>1
    <3>2. CASE h # g
      BY <1>0, <1>1, <3>2 DEF GrantMove
    <3> QED BY <3>1, <3>2
  <2> QED BY <1>0, <1>1, <2>1
<1>2. ASSUME UNCHANGED grant PROVE G
  BY <1>0, <1>2 DEF GrantMove
<1>3. ASSUME NEW g \in Grants, RequestGrant(g) PROVE G
  <2> DEFINE v == [grant[g] EXCEPT !.status = "requested"]
  <2>1. v \in GrantRec
    BY <1>0 DEF GrantRec
  <2>2. grant' = [grant EXCEPT ![g] = v] /\ GrantMove(grant[g], v)
    BY <1>0, <1>3 DEF RequestGrant, GrantMove
  <2> HIDE DEF v
  <2> QED BY <1>1, <2>1, <2>2
<1>4. ASSUME NEW g \in Grants, NEW to \in {"granted", "denied", "revoked"}, TransitionGrant(g, to) PROVE G
  <2> DEFINE v == CASE to = "granted" -> [grant[g] EXCEPT !.status = to, !.granted = now, !.expires = now + GrantTTL]
                    [] to = "denied" -> [grant[g] EXCEPT !.status = to]
                    [] to = "revoked" -> [grant[g] EXCEPT !.status = to, !.revoked = now]
  <2>1. grant' = [grant EXCEPT ![g] = v]
    BY <1>4 DEF TransitionGrant
  <2>2. v \in GrantRec
    BY <1>0 DEF GrantRec
  <2>3. GrantMove(grant[g], v)
    BY <1>4 DEF TransitionGrant, GrantSources, GrantMove
  <2> HIDE DEF v
  <2> QED BY <1>1, <2>1, <2>2, <2>3
<1>5. \/ UNCHANGED grant
      \/ \E g \in Grants : RequestGrant(g) \/ \E to \in {"granted", "denied", "revoked"} : TransitionGrant(g, to)
  BY DEF Next, vars, Handler, Tick, PostCmd, SelfCheck, Fresh, AuthorizeDenied, AuthorizeOK, AuditOK, AuditErr, MQTTPublish,
     MQTTPublishErr, InsertCmdTicket, Crash, DeviceAcks, CmdresExpires, GetCmd, Bypass, HandleAudit, RecReadCmds, RecCompare
<1> QED BY <1>2, <1>3, <1>4, <1>5

LEMMA ClockMoves == Shapes /\ [Next]_vars => now' \in Times /\ now \in Nat /\ now' \in Nat /\ now <= now'
<1> SUFFICES ASSUME Shapes, [Next]_vars PROVE now' \in Times /\ now \in Nat /\ now' \in Nat /\ now <= now'
  OBVIOUS
<1>1. Tick \/ UNCHANGED now
  BY DEF Next, vars, Handler, RequestGrant, TransitionGrant, PostCmd, SelfCheck, Fresh, AuthorizeDenied,
     AuthorizeOK, AuditOK, AuditErr, MQTTPublish, MQTTPublishErr, InsertCmdTicket, Crash, DeviceAcks, CmdresExpires,
     GetCmd, Bypass, HandleAudit, RecReadCmds, RecCompare
<1>2. now \in Times
  BY DEF Shapes
<1> QED BY <1>1, <1>2, CommandConstants DEF Tick, Times

\* The records a step adds to stream, and the rows it writes.
LEMMA RecordsMove ==
    ASSUME Shapes, [Next]_vars
    PROVE  \/ UNCHANGED <<stream, audit>>
           \/ \E c \in Cmds : AuthorizeDenied(c) \/ AuditOK(c) \/ AuditErr(c) \/ MQTTPublishErr(c) \/ GetCmd(c) \/ Bypass(c)
           \/ \E m \in stream, acked \in BOOLEAN : HandleAudit(m, acked)
  BY DEF Next, vars, Handler, Tick, RequestGrant, TransitionGrant, PostCmd, SelfCheck, Fresh, AuthorizeOK, MQTTPublish,
     InsertCmdTicket, Crash, DeviceAcks, CmdresExpires, RecReadCmds, RecCompare

LEMMA ShapesStep ==
    ASSUME Shapes, CmdTimes, [Next]_vars
    PROVE  Shapes'
<1>0. now \in Times /\ cmd \in [Cmds -> CmdRec] /\ stream \subseteq Message /\ audit \subseteq Row /\ rec \subseteq Row
  BY DEF Shapes
<1>1. stream' \subseteq Message /\ audit' \subseteq Row
  <2>1. ASSUME NEW c \in Cmds, NEW at \in Times, NEW result \in Results PROVE [id |-> c, at |-> at, result |-> result] \in Message
    BY DEF Message
  <2>2. CASE UNCHANGED <<stream, audit>>
    BY <1>0, <2>2
  <2>3. ASSUME NEW c \in Cmds, AuthorizeDenied(c) PROVE stream' \subseteq Message /\ audit' \subseteq Row
    BY <1>0, <2>1, <2>3 DEF AuthorizeDenied, Results
  <2>4. ASSUME NEW c \in Cmds, AuditOK(c) \/ AuditErr(c) PROVE stream' \subseteq Message /\ audit' \subseteq Row
    <3>1. cmd'[c].at = now
      BY <1>0, <2>4 DEF AuditOK, AuditErr, CmdRec
    <3>2. Record(c, "dispatched") \in Message
      BY <1>0, <2>1, <3>1 DEF Record, Results
    <3> QED BY <1>0, <2>4, <3>2 DEF AuditOK, AuditErr
  <2>5. ASSUME NEW c \in Cmds, MQTTPublishErr(c) PROVE stream' \subseteq Message /\ audit' \subseteq Row
    <3>1. stream' = stream \/ (stream' = stream \cup {Record(c, "dispatch_failed")} /\ cmd'[c].at = cmd[c].at)
      BY <1>0, <2>5 DEF MQTTPublishErr, CmdRec
    <3>2. cmd[c].at # Never => cmd[c].at \in Times
      <4>1. cmd[c].at \in Nat /\ cmd[c].at <= now
        BY <1>0 DEF CmdTimes, CmdRec
      <4> QED BY <1>0, <4>1, CommandConstants DEF Times, Never
    <3>3. cmd[c].at # Never
      BY <2>5 DEF CmdTimes, MQTTPublishErr
    <3>4. cmd[c].at \in Times
      BY <3>2, <3>3
    <3>5. stream' = stream \/ stream' = stream \cup {[id |-> c, at |-> cmd[c].at, result |-> "dispatch_failed"]}
      BY <3>1 DEF Record
    <3>6. [id |-> c, at |-> cmd[c].at, result |-> "dispatch_failed"] \in Message
      BY <2>1, <3>4 DEF Results
    <3> QED BY <1>0, <2>5, <3>5, <3>6 DEF MQTTPublishErr
  <2>6. ASSUME NEW c \in Cmds, GetCmd(c) PROVE stream' \subseteq Message /\ audit' \subseteq Row
    <3>1. \A r \in audit : Acked(r, c) \in Row
      BY <1>0 DEF Acked, Row
    <3> QED BY <1>0, <2>6, <3>1 DEF GetCmd
  <2>7. ASSUME NEW c \in Cmds, Bypass(c) PROVE stream' \subseteq Message /\ audit' \subseteq Row
    <3>1. [id |-> c, at |-> now, src |-> "support", result |-> "dispatched", acked |-> FALSE] \in Row
      BY <1>0 DEF Row, Sources, Results
    <3> QED BY <1>0, <2>7, <3>1 DEF Bypass
  <2>8. ASSUME NEW m \in stream, NEW acked \in BOOLEAN, HandleAudit(m, acked) PROVE stream' \subseteq Message /\ audit' \subseteq Row
    <3>1. m \in Message /\ cmd[m.id].src \in Sources
      BY <1>0 DEF Message, CmdRec
    <3>2. [id |-> m.id, at |-> m.at, src |-> cmd[m.id].src, result |-> m.result, acked |-> FALSE] \in Row
      BY <3>1 DEF Message, Row
    <3> QED BY <1>0, <2>8, <3>2 DEF HandleAudit, InsertAudit
  <2> QED BY RecordsMove, <2>2, <2>3, <2>4, <2>5, <2>6, <2>7, <2>8
<1>2. rec' \subseteq Row /\ flagged' \subseteq Cmds
  <2>1. CASE UNCHANGED <<rec, flagged>>
    BY <2>1 DEF Shapes
  <2>2. CASE RecReadCmds \/ RecCompare
    BY <2>2 DEF Shapes, RecReadCmds, RecCompare, Row
  <2>3. UNCHANGED <<rec, flagged>> \/ RecReadCmds \/ RecCompare
    <3>1. ASSUME NEW c \in Cmds, Handler(c) \/ Crash(c) \/ DeviceAcks(c) \/ CmdresExpires(c) \/ GetCmd(c) \/ Bypass(c)
          PROVE  UNCHANGED <<rec, flagged>>
      BY <3>1 DEF Handler, AuthorizeDenied, AuthorizeOK, AuditOK, AuditErr, MQTTPublish, MQTTPublishErr, InsertCmdTicket,
         Crash, DeviceAcks, CmdresExpires, GetCmd, Bypass
    <3>2. ASSUME NEW g \in Grants, RequestGrant(g) \/ \E to \in {"granted", "denied", "revoked"} : TransitionGrant(g, to)
          PROVE  UNCHANGED <<rec, flagged>>
      BY <3>2 DEF RequestGrant, TransitionGrant
    <3>3. ASSUME NEW c \in Cmds, NEW src \in Sources,
                 (\E act \in Actions : PostCmd(c, src, act)) \/ (\E g \in Grants : SelfCheck(c, g, src))
          PROVE  UNCHANGED <<rec, flagged>>
      BY <3>3 DEF PostCmd, SelfCheck, Fresh
    <3>4. ASSUME NEW m \in stream, NEW acked \in BOOLEAN, HandleAudit(m, acked) PROVE UNCHANGED <<rec, flagged>>
      BY <3>4 DEF HandleAudit
    <3> QED BY <3>1, <3>2, <3>3, <3>4 DEF Next, vars, Tick
  <2> QED BY <2>1, <2>2, <2>3
<1>3. /\ down' \subseteq Cmds /\ told' \subseteq down' /\ cmdres' \subseteq down' /\ ticket' \subseteq Cmds
  <2>1. CASE UNCHANGED <<down, told, cmdres, ticket>>
    BY <2>1 DEF Shapes
  <2>2. ASSUME NEW c \in Cmds, MQTTPublish(c) \/ MQTTPublishErr(c) \/ InsertCmdTicket(c) \/ DeviceAcks(c) \/ CmdresExpires(c) \/ GetCmd(c)
        PROVE  down' \subseteq Cmds /\ told' \subseteq down' /\ cmdres' \subseteq down' /\ ticket' \subseteq Cmds
    BY <2>2 DEF Shapes, MQTTPublish, MQTTPublishErr, InsertCmdTicket, DeviceAcks, CmdresExpires, GetCmd
  <2>3. \/ UNCHANGED <<down, told, cmdres, ticket>>
        \/ \E c \in Cmds : MQTTPublish(c) \/ MQTTPublishErr(c) \/ InsertCmdTicket(c) \/ DeviceAcks(c) \/ CmdresExpires(c)
                           \/ GetCmd(c)
    <3>1. ASSUME NEW c \in Cmds, AuthorizeDenied(c) \/ AuthorizeOK(c) \/ AuditOK(c) \/ AuditErr(c) \/ Crash(c) \/ Bypass(c)
          PROVE  UNCHANGED <<down, told, cmdres, ticket>>
      BY <3>1 DEF AuthorizeDenied, AuthorizeOK, AuditOK, AuditErr, Crash, Bypass
    <3>2. ASSUME NEW g \in Grants, RequestGrant(g) \/ \E to \in {"granted", "denied", "revoked"} : TransitionGrant(g, to)
          PROVE  UNCHANGED <<down, told, cmdres, ticket>>
      BY <3>2 DEF RequestGrant, TransitionGrant
    <3>3. ASSUME NEW c \in Cmds, NEW src \in Sources,
                 (\E act \in Actions : PostCmd(c, src, act)) \/ (\E g \in Grants : SelfCheck(c, g, src))
          PROVE  UNCHANGED <<down, told, cmdres, ticket>>
      BY <3>3 DEF PostCmd, SelfCheck, Fresh
    <3>4. ASSUME NEW m \in stream, NEW acked \in BOOLEAN, HandleAudit(m, acked) PROVE UNCHANGED <<down, told, cmdres, ticket>>
      BY <3>4 DEF HandleAudit
    <3> QED BY <3>1, <3>2, <3>3, <3>4 DEF Next, vars, Handler, Tick, RecReadCmds, RecCompare
  <2> QED BY <2>1, <2>2, <2>3
<1> QED BY <1>1, <1>2, <1>3, CmdMoves, GrantMoves, ClockMoves DEF Shapes

LEMMA GrantTimesStep == Shapes /\ GrantTimes /\ [Next]_vars => GrantTimes'
<1> DEFINE Timely(o, t) ==
      /\ o.granted <= t /\ o.expires <= t + GrantTTL /\ o.revoked <= t
      /\ o.status \in {"none", "requested"} => o.granted = Never /\ o.expires = Never
      /\ o.status \in {"granted", "revoked"} => o.granted # Never
      /\ o.status = "revoked" <=> o.revoked # Never
<1>1. ASSUME NEW o \in GrantRec, NEW n \in GrantRec, NEW t \in Nat, now \in Nat, now # Never, now <= t,
             Timely(o, now), GrantMove(o, n)
      PROVE  Timely(n, t)
  <2>0. GrantTTL \in Nat
    BY CommandConstants
  <2>1. CASE n = o
    BY <1>1, <2>0, <2>1 DEF GrantRec
  <2>2. CASE o.status = "none" /\ n = [o EXCEPT !.status = "requested"]
    BY <1>1, <2>0, <2>2 DEF GrantRec
  <2>3. CASE o.status = "requested" /\ n = [o EXCEPT !.status = "granted", !.granted = now, !.expires = now + GrantTTL]
    BY <1>1, <2>0, <2>3 DEF GrantRec
  <2>4. CASE o.status = "requested" /\ n = [o EXCEPT !.status = "denied"]
    BY <1>1, <2>0, <2>4 DEF GrantRec
  <2>5. CASE o.status = "granted" /\ n = [o EXCEPT !.status = "revoked", !.revoked = now]
    BY <1>1, <2>0, <2>5 DEF GrantRec
  <2> QED BY <1>1, <2>1, <2>2, <2>3, <2>4, <2>5 DEF GrantMove
<1> SUFFICES ASSUME Shapes, GrantTimes, [Next]_vars, NEW g \in Grants PROVE Timely(grant'[g], now')
  BY DEF GrantTimes
<1>2. GrantMove(grant[g], grant'[g]) /\ grant[g] \in GrantRec /\ grant'[g] \in GrantRec
  BY GrantMoves DEF Shapes
<1>3. now \in Nat /\ now' \in Nat /\ now <= now' /\ now # Never
  BY ClockMoves, CommandConstants DEF Shapes, Times, Never
<1>4. Timely(grant[g], now)
  BY DEF GrantTimes
<1> HIDE DEF Timely
<1> QED BY <1>1, <1>2, <1>3, <1>4

LEMMA CmdTimesStep == Shapes /\ CmdTimes /\ [Next]_vars => CmdTimes'
<1> DEFINE Timely(o, t) ==
      /\ o.chk <= t /\ o.at <= t
      /\ o.pc \in {"none", "posted"} => o.chk = Never
      /\ o.pc \in {"none", "posted", "authorized"} => o.at = Never
      /\ o.pc \in {"audited", "ok", "failed"} => o.at # Never
      /\ o.at # Never /\ o.pc # "bypass" => o.chk # Never /\ o.chk <= o.at
<1>1. ASSUME NEW o \in CmdRec, NEW n \in CmdRec, NEW t \in Nat, now \in Nat, now # Never, now <= t,
             Timely(o, now), CmdMove(o, n), o.pc = "authorized" => o.chk # Never
      PROVE  Timely(n, t) /\ (n.pc = "authorized" => n.chk # Never)
  <2>1. CASE n = o
    BY <1>1, <2>1 DEF CmdRec
  <2>2. CASE o.pc = "none" /\ n.pc \in {"posted", "bypass"} /\ n.chk = Never /\ n.at \in {Never, now} /\ (n.at = now => n.pc = "bypass")
    BY <1>1, <2>2 DEF CmdRec, Never
  <2>3. CASE o.pc = "posted" /\ n = [o EXCEPT !.pc = "authorized", !.chk = now]
    BY <1>1, <2>3 DEF CmdRec
  <2>4. CASE o.pc = "posted" /\ n = [o EXCEPT !.pc = "refused"]
    BY <1>1, <2>4 DEF CmdRec
  <2>5. CASE o.pc = "authorized" /\ n.pc \in {"audited", "refused"} /\ n = [o EXCEPT !.pc = n.pc, !.at = now]
    <3>1. n.at = now /\ n.chk = o.chk
      BY <2>5 DEF CmdRec
    <3> QED BY <1>1, <2>5, <3>1 DEF CmdRec
  <2>6. CASE o.pc = "audited" /\ n.pc \in {"ok", "failed"} /\ n = [o EXCEPT !.pc = n.pc]
    <3>1. n.at = o.at /\ n.chk = o.chk
      BY <2>6 DEF CmdRec
    <3> QED BY <1>1, <2>6, <3>1 DEF CmdRec
  <2>7. CASE o.pc \in {"posted", "authorized", "audited"} /\ n = [o EXCEPT !.pc = "lost"]
    BY <1>1, <2>7 DEF CmdRec
  <2> QED BY <1>1, <2>1, <2>2, <2>3, <2>4, <2>5, <2>6, <2>7 DEF CmdMove, Never
<1> SUFFICES ASSUME Shapes, CmdTimes, [Next]_vars, NEW c \in Cmds
             PROVE  Timely(cmd'[c], now') /\ (cmd'[c].pc = "authorized" => cmd'[c].chk # Never)
  BY DEF CmdTimes
<1>2. CmdMove(cmd[c], cmd'[c]) /\ cmd[c] \in CmdRec /\ cmd'[c] \in CmdRec
  BY CmdMoves DEF Shapes
<1>3. now \in Nat /\ now' \in Nat /\ now <= now' /\ now # Never
  BY ClockMoves, CommandConstants DEF Shapes, Times, Never
<1>4. Timely(cmd[c], now) /\ (cmd[c].pc = "authorized" => cmd[c].chk # Never)
  BY DEF CmdTimes
<1> HIDE DEF Timely
<1> QED BY <1>1, <1>2, <1>3, <1>4

\* A grant that was valid at a past time stays so: a later revocation or
\* expiry does not reach back.
LEMMA ValidStays ==
    ASSUME Shapes, [Next]_vars, NEW g \in Grants, NEW t \in Nat, t <= now, ValidAt(g, t)
    PROVE  ValidAt(g, t)'
<1>1. GrantMove(grant[g], grant'[g]) /\ grant[g] \in GrantRec /\ now \in Nat
  BY GrantMoves, ClockMoves DEF Shapes
<1>2. CASE grant'[g] = grant[g]
  BY <1>2 DEF ValidAt
<1>3. CASE grant[g].status = "granted" /\ grant'[g] = [grant[g] EXCEPT !.status = "revoked", !.revoked = now]
  BY <1>1, <1>3 DEF ValidAt, GrantRec
<1> QED BY <1>1, <1>2, <1>3 DEF GrantMove, ValidAt

LEMMA CheckedStep ==
    ASSUME Shapes, GrantTimes, CmdTimes, CheckedInv, [Next]_vars
    PROVE  CheckedInv'
<1> SUFFICES ASSUME NEW c \in Cmds, cmd'[c].chk # Never, NeedsGrant(cmd'[c].src), NEW t, t = cmd'[c].chk
             PROVE  \E g \in Grants : ValidAt(g, t)'
  BY DEF CheckedInv
<1>1. CmdMove(cmd[c], cmd'[c]) /\ cmd[c] \in CmdRec /\ cmd'[c] \in CmdRec /\ now \in Nat
  BY CmdMoves, ClockMoves DEF Shapes
<1>2. CASE cmd'[c].chk = cmd[c].chk /\ cmd'[c].src = cmd[c].src
  <2>1. PICK g \in Grants : ValidAt(g, t)
    BY <1>2 DEF CheckedInv
  <2>2. t \in Nat /\ t <= now
    BY <1>1, <1>2 DEF CmdRec, CmdTimes
  <2> QED BY <2>1, <2>2, ValidStays
<1>3. CASE t = now /\ cmd'[c].src = cmd[c].src /\ (NeedsGrant(cmd[c].src) => \E g \in Grants : Effective(g))
  <2>1. PICK g \in Grants : Effective(g)
    BY <1>3
  <2>2. ValidAt(g, t)
    BY <1>3, <2>1 DEF Effective, ValidAt, GrantTimes
  <2> QED BY <1>1, <1>3, <2>2, ValidStays
<1>4. \/ cmd'[c].chk = cmd[c].chk /\ cmd'[c].src = cmd[c].src
      \/ t = now /\ cmd'[c].src = cmd[c].src /\ (NeedsGrant(cmd[c].src) => \E g \in Grants : Effective(g))
  <2> DEFINE o == cmd[c]
             n == cmd'[c]
  <2>0. o \in CmdRec /\ CmdMove(o, n) /\ n.chk # Never
    BY <1>1
  <2> HIDE DEF o, n
  <2>1. ASSUME NEW pc, n = [o EXCEPT !.pc = pc] PROVE n.chk = o.chk /\ n.src = o.src
    BY <2>0, <2>1 DEF CmdRec
  <2>2. ASSUME NEW pc, n = [o EXCEPT !.pc = pc, !.at = now] PROVE n.chk = o.chk /\ n.src = o.src
    BY <2>0, <2>2 DEF CmdRec
  <2>3. ASSUME n = [o EXCEPT !.pc = "authorized", !.chk = now] PROVE n.chk = now /\ n.src = o.src
    BY <2>0, <2>3 DEF CmdRec
  <2>4. \/ n.chk = o.chk /\ n.src = o.src
        \/ n.chk = now /\ n.src = o.src /\ (NeedsGrant(o.src) => \E g \in Grants : Effective(g))
    BY <2>0, <2>1, <2>2, <2>3 DEF CmdMove
  <2> QED BY <2>4 DEF o, n
<1> QED BY <1>2, <1>3, <1>4

Cause(c, g) ==
    \/ grant[g].status = "revoked" /\ grant[g].revoked \in cmd[c].chk .. cmd[c].at
    \/ grant[g].expires \in cmd[c].chk + 1 .. cmd[c].at

\* The comparison reports a command that went through the check only when its
\* grant ended between the check and the record.
LEMMA FlagHasCause ==
    ASSUME Shapes, GrantTimes, CmdTimes, CheckedInv, NEW c \in Cmds, cmd[c].at # Never, cmd[c].pc # "bypass",
           NeedsGrant(cmd[c].src), ~ \E g \in Grants : Covers(g, cmd[c].at)
    PROVE  \E g \in Grants : Cause(c, g)
<1>1. cmd[c].chk \in Nat /\ cmd[c].at \in Nat /\ cmd[c].chk # Never /\ cmd[c].chk <= cmd[c].at
  BY DEF Shapes, CmdRec, CmdTimes
<1>2. PICK g \in Grants : ValidAt(g, cmd[c].chk)
  BY <1>1 DEF CheckedInv
<1>3. grant[g].granted \in Nat /\ grant[g].expires \in Nat /\ grant[g].revoked \in Nat
  BY DEF Shapes, GrantRec
<1>4. grant[g].granted # Never /\ (grant[g].status = "revoked" <=> grant[g].revoked # Never)
  BY <1>2 DEF GrantTimes, ValidAt
<1>5. ~ Covers(g, cmd[c].at)
  OBVIOUS
<1> QED BY <1>1, <1>2, <1>3, <1>4, <1>5 DEF ValidAt, Covers, Cause

LEMMA FlaggedStep ==
    ASSUME CommandInv, [Next]_vars
    PROVE  FlaggedInv'
<1>0. Shapes /\ GrantTimes /\ CmdTimes /\ RecordInv /\ CheckedInv /\ FlaggedInv
  BY DEF CommandInv
<1>1. ASSUME NEW c \in Cmds, cmd[c].at # Never PROVE cmd'[c] = cmd[c] \/ \E pc : pc # "bypass" /\ cmd[c].pc # "bypass" /\ cmd'[c] = [cmd[c] EXCEPT !.pc = pc]
  <2>1. CmdMove(cmd[c], cmd'[c]) /\ cmd[c].pc \notin {"none", "posted", "authorized"}
    BY <1>0, <1>1, CmdMoves DEF CmdTimes
  <2> QED BY <2>1 DEF CmdMove
<1>2. ASSUME NEW c \in Cmds, cmd[c].at # Never
      PROVE  cmd'[c].at = cmd[c].at /\ cmd'[c].chk = cmd[c].chk /\ (cmd'[c].pc = "bypass" <=> cmd[c].pc = "bypass")
  <2>1. cmd[c] \in CmdRec
    BY <1>0 DEF Shapes
  <2> QED BY <1>1, <1>2, <2>1 DEF CmdRec
<1>3. ASSUME NEW c \in Cmds, cmd[c].at # Never, NEW g \in Grants, Cause(c, g) PROVE Cause(c, g)'
  <2>1. grant[g] \in GrantRec /\ GrantMove(grant[g], grant'[g])
    BY <1>0, GrantMoves DEF Shapes
  <2>2. cmd[c].chk \in Nat /\ cmd[c].at \in Nat
    BY <1>0 DEF Shapes, CmdRec
  <2>3. /\ grant[g].status = "revoked" => grant'[g] = grant[g]
        /\ grant[g].expires # Never => grant'[g].expires = grant[g].expires
    BY <1>0, <2>1 DEF GrantMove, GrantRec, GrantTimes
  <2>4. grant[g].expires \in cmd[c].chk + 1 .. cmd[c].at => grant[g].expires # Never
    BY <2>2 DEF Never
  <2> QED BY <1>2, <1>3, <2>3, <2>4 DEF Cause
<1>4. ASSUME NEW c \in flagged' PROVE c \in Cmds /\ cmd[c].at # Never /\ (cmd[c].pc = "bypass" \/ \E g \in Grants : Cause(c, g))
  <2>1. CASE c \in flagged
    BY <1>0, <2>1 DEF FlaggedInv, AlarmsExplained, Cause, Shapes
  <2>2. CASE c \notin flagged
    <3>1. RecCompare
      <4>1. UNCHANGED flagged \/ RecCompare
        <5>1. ASSUME NEW d \in Cmds, Handler(d) \/ Crash(d) \/ DeviceAcks(d) \/ CmdresExpires(d) \/ GetCmd(d) \/ Bypass(d)
              PROVE  UNCHANGED flagged
          BY <5>1 DEF Handler, AuthorizeDenied, AuthorizeOK, AuditOK, AuditErr, MQTTPublish, MQTTPublishErr, InsertCmdTicket,
             Crash, DeviceAcks, CmdresExpires, GetCmd, Bypass
        <5> QED BY <5>1 DEF Next, vars, Tick, RequestGrant, TransitionGrant, PostCmd, SelfCheck, Fresh, HandleAudit, RecReadCmds
      <4> QED BY <1>4, <2>2, <4>1
    <3>2. PICK r \in rec : c = r.id /\ ~ \E g \in Grants : Covers(g, r.at)
      BY <1>4, <2>2, <3>1 DEF RecCompare
    <3>3. c \in Cmds /\ r.at \in Times /\ r.at = cmd[c].at /\ NeedsGrant(cmd[c].src)
      BY <1>0, <3>2 DEF Shapes, Row, RecordInv
    <3>4. cmd[c].at # Never
      BY <3>3 DEF Times, Never
    <3>5. ~ \E g \in Grants : Covers(g, cmd[c].at)
      BY <3>2, <3>3
    <3> QED BY <1>0, <3>3, <3>4, <3>5, FlagHasCause
  <2> QED BY <2>1, <2>2
<1>5. ASSUME NEW c \in flagged' PROVE cmd'[c].at # Never /\ (cmd'[c].pc = "bypass" \/ \E g \in Grants : Cause(c, g)')
  BY <1>2, <1>3, <1>4
<1> QED BY <1>5 DEF FlaggedInv, AlarmsExplained, Cause

-----------------------------------------------------------------------------
(* Records.                                                                *)

\* What is recorded of a command stays true of it.
LEMMA RecordedStays ==
    ASSUME Shapes, [Next]_vars, NEW x, x.id \in Cmds, Recorded(x)
    PROVE  /\ Recorded(x)'
           /\ cmd'[x.id].at = cmd[x.id].at /\ cmd'[x.id].src = cmd[x.id].src
<1> DEFINE o == cmd[x.id]
           n == cmd'[x.id]
<1>1. o \in CmdRec /\ CmdMove(o, n) /\ o.pc \notin {"none", "posted", "authorized"}
  BY CmdMoves DEF Shapes, Recorded
<1>2. n = o \/ (o.pc = "audited" /\ \E pc \in {"ok", "failed", "lost"} : n = [o EXCEPT !.pc = pc])
  <2> HIDE DEF o, n
  <2> QED BY <1>1 DEF CmdMove
<1>3. n.at = o.at /\ n.src = o.src /\ n.pc \notin {"none", "posted", "authorized"} /\ (o.pc = "refused" => n = o)
  <2> HIDE DEF o, n
  <2> QED BY <1>1, <1>2 DEF CmdRec
<1> QED BY <1>3 DEF Recorded

Kin(x) == \E y \in stream \cup audit : y.id = x.id /\ y.at = x.at
Stranger(x) == \A y \in stream \cup audit : y.id # x.id

\* A step's records are true of their commands; each but one has kin among
\* the records there were, and that one is the first of its command.
LEMMA KinStep ==
    ASSUME Shapes, CmdTimes, RecordInv, [Next]_vars
    PROVE  \E n : \A x \in stream' \cup audit' : Recorded(x)' /\ (Kin(x) \/ (x = n /\ Stranger(x)))
<1> DEFINE Fits(x) == Recorded(x)' /\ Kin(x)
           Goal == \E n : \A x \in stream' \cup audit' : Recorded(x)' /\ (Kin(x) \/ (x = n /\ Stranger(x)))
<1>0. /\ \A x \in stream \cup audit : x.id \in Cmds /\ Recorded(x)
      /\ cmd \in [Cmds -> CmdRec]
  BY DEF Shapes, Message, Row, RecordInv
<1>1. ASSUME NEW x \in stream \cup audit PROVE Fits(x)
  BY <1>0, RecordedStays DEF Kin
<1>2. ASSUME NEW n, stream' \cup audit' \subseteq stream \cup audit \cup {n}, Recorded(n)', Stranger(n) PROVE Goal
  BY <1>1, <1>2
<1>3. ASSUME \A x \in stream' \cup audit' : Fits(x) PROVE Goal
  BY <1>3
<1>4. ASSUME NEW c \in Cmds, cmd[c].pc \in {"none", "posted", "authorized"}, NEW n, n.id = c PROVE Stranger(n)
  BY <1>0, <1>4 DEF Recorded, Stranger
<1>5. ASSUME UNCHANGED <<stream, audit>> PROVE Goal
  BY <1>1, <1>3, <1>5
<1>6. ASSUME NEW c \in Cmds, AuthorizeDenied(c) PROVE Goal
  <2>0. PICK n : n = [id |-> c, at |-> now, result |-> "denied"]
    OBVIOUS
  <2>1. cmd'[c].pc = "refused" /\ cmd'[c].at = Never /\ cmd[c].pc = "posted"
    BY <1>0, <1>6 DEF AuthorizeDenied, CmdTimes, CmdRec
  <2>2. stream' \cup audit' \subseteq stream \cup audit \cup {n}
    BY <1>6, <2>0 DEF AuthorizeDenied
  <2>3. Recorded(n)'
    BY <2>0, <2>1 DEF Recorded
  <2>4. Stranger(n)
    BY <1>4, <2>0, <2>1
  <2> HIDE DEF Goal
  <2> QED BY <1>2, <2>2, <2>3, <2>4
<1>7. ASSUME NEW c \in Cmds, AuditOK(c) \/ AuditErr(c) PROVE Goal
  <2>0. PICK n : n = [id |-> c, at |-> cmd'[c].at, result |-> "dispatched"]
    OBVIOUS
  <2>1. cmd'[c].pc \in {"audited", "refused"} /\ cmd[c].pc = "authorized"
    BY <1>0, <1>7 DEF AuditOK, AuditErr, CmdRec
  <2>2. stream' \cup audit' \subseteq stream \cup audit \cup {n}
    BY <1>7, <2>0 DEF AuditOK, AuditErr, Record
  <2>3. Recorded(n)'
    BY <2>0, <2>1 DEF Recorded
  <2>4. Stranger(n)
    BY <1>4, <2>0, <2>1
  <2> HIDE DEF Goal
  <2> QED BY <1>2, <2>2, <2>3, <2>4
<1>8. ASSUME NEW c \in Cmds, MQTTPublishErr(c) PROVE Goal
  <2>0. PICK n : n = [id |-> c, at |-> cmd[c].at, result |-> "dispatch_failed"]
    OBVIOUS
  <2>1. cmd'[c].pc = "failed" /\ cmd[c].pc = "audited" /\ cmd'[c].at = cmd[c].at
    BY <1>0, <1>8 DEF MQTTPublishErr, CmdRec
  <2>2. stream' \cup audit' \subseteq stream \cup audit \cup {n}
    BY <1>8, <2>0, <2>1 DEF MQTTPublishErr, Record
  <2>3. Recorded(n)'
    BY <2>0, <2>1 DEF Recorded
  <2>4. Kin(n) \/ Stranger(n)
    <3>1. ASSUME NEW y \in stream \cup audit, y.id = c PROVE y.at = cmd[c].at
      BY <1>0, <2>1, <3>1 DEF Recorded
    <3> QED BY <2>0, <3>1 DEF Kin, Stranger
  <2>5. CASE Kin(n)
    <3> HIDE DEF Goal
    <3>1. Fits(n)
      BY <2>3, <2>5
    <3> HIDE DEF Fits
    <3> QED BY <1>1, <1>3, <2>2, <3>1
  <2>6. CASE Stranger(n)
    <3> HIDE DEF Goal
    <3> QED BY <1>2, <2>2, <2>3, <2>6
  <2> QED BY <2>4, <2>5, <2>6
<1>9. ASSUME NEW c \in Cmds, GetCmd(c) PROVE Goal
  <2>1. ASSUME NEW r \in audit PROVE Fits(Acked(r, c))
    <3>1. Acked(r, c).id = r.id /\ Acked(r, c).at = r.at /\ (Acked(r, c).result = r.result \/ (Acked(r, c).result = "acked" /\ r.id = c))
      BY DEF Acked, Shapes, Row
    <3>2. r.id = c => r.result # "denied"
      BY <1>0, <1>9 DEF GetCmd, Recorded
    <3>3. Recorded(Acked(r, c))
      BY <1>0, <3>1, <3>2 DEF Recorded
    <3>4. Acked(r, c).id \in Cmds
      BY <1>0, <3>1
    <3> QED BY <3>1, <3>3, <3>4, RecordedStays DEF Kin
  <2>2. stream' = stream /\ audit' = {Acked(r, c) : r \in audit}
    BY <1>9 DEF GetCmd
  <2> HIDE DEF Fits, Goal
  <2> QED BY <1>1, <1>3, <2>1, <2>2
<1>10. ASSUME NEW c \in Cmds, Bypass(c) PROVE Goal
  <2>0. PICK n : n = [id |-> c, at |-> now, src |-> "support", result |-> "dispatched", acked |-> FALSE]
    OBVIOUS
  <2>1. cmd'[c].pc = "bypass" /\ cmd'[c].at = now /\ cmd[c].pc = "none"
    BY <1>0, <1>10 DEF Bypass, NoCmd
  <2>2. stream' \cup audit' \subseteq stream \cup audit \cup {n}
    BY <1>10, <2>0 DEF Bypass
  <2>3. Recorded(n)'
    BY <2>0, <2>1 DEF Recorded
  <2>4. Stranger(n)
    BY <1>4, <2>0, <2>1
  <2> HIDE DEF Goal
  <2> QED BY <1>2, <2>2, <2>3, <2>4
<1>11. ASSUME NEW m \in stream, NEW acked \in BOOLEAN, HandleAudit(m, acked) PROVE Goal
  <2>0. PICK n : n = [id |-> m.id, at |-> m.at, src |-> cmd[m.id].src, result |-> m.result, acked |-> FALSE]
    OBVIOUS
  <2>1. Recorded(n) /\ n.id \in Cmds /\ Kin(n)
    BY <1>0, <2>0 DEF Recorded, Kin
  <2>2. Fits(n)
    BY <2>1, RecordedStays
  <2>3. stream' \cup audit' \subseteq stream \cup audit \cup {n}
    BY <1>11, <2>0 DEF HandleAudit, InsertAudit
  <2> HIDE DEF Fits, Goal
  <2> QED BY <1>1, <1>3, <2>2, <2>3
<1> HIDE DEF Goal
<1>12. Goal
  BY RecordsMove, <1>5, <1>6, <1>7, <1>8, <1>9, <1>10, <1>11
<1> QED BY <1>12 DEF Goal

LEMMA RecordStep ==
    ASSUME Shapes, CmdTimes, RecordInv, [Next]_vars
    PROVE  RecordInv'
<1>0. /\ cmd \in [Cmds -> CmdRec]
      /\ \A x \in stream \cup audit : x.id \in Cmds /\ Recorded(x)
      /\ \A x \in stream \cup audit, y \in stream \cup audit : x.id = y.id => x.at = y.at
      /\ \A r \in audit, q \in audit : r.id = q.id => r = q
      /\ \A r \in audit : r.src = cmd[r.id].src
      /\ \A r \in rec : /\ cmd[r.id].pc \notin {"none", "posted", "authorized"}
                        /\ r.at = cmd[r.id].at /\ NeedsGrant(cmd[r.id].src)
  BY DEF Shapes, Message, Row, RecordInv
<1>1. PICK n : \A x \in stream' \cup audit' : Recorded(x)' /\ (Kin(x) \/ (x = n /\ Stranger(x)))
  BY KinStep
<1>2. ASSUME NEW x \in stream' \cup audit', NEW y \in stream' \cup audit', x.id = y.id PROVE x.at = y.at
  BY <1>0, <1>1, <1>2 DEF Kin, Stranger
<1>3. ASSUME NEW r \in audit PROVE cmd'[r.id].src = cmd[r.id].src
  BY <1>0, RecordedStays
<1>4. /\ \A r \in audit', q \in audit' : r.id = q.id => r = q
      /\ \A r \in audit' : r.src = cmd'[r.id].src
  <2>1. CASE UNCHANGED audit
    BY <1>0, <1>3, <2>1
  <2>2. ASSUME NEW c \in Cmds, GetCmd(c)
        PROVE  /\ \A r \in audit', q \in audit' : r.id = q.id => r = q
               /\ \A r \in audit' : r.src = cmd'[r.id].src
    <3>1. \A r \in audit : Acked(r, c).id = r.id /\ Acked(r, c).src = r.src
      BY DEF Acked, Shapes, Row
    <3>2. audit' = {Acked(r, c) : r \in audit}
      BY <2>2 DEF GetCmd
    <3> QED BY <1>0, <1>3, <3>1, <3>2
  <2>3. ASSUME NEW x, audit' = audit \cup {x}, \A y \in audit : y.id # x.id, x.src = cmd'[x.id].src
        PROVE  /\ \A r \in audit', q \in audit' : r.id = q.id => r = q
               /\ \A r \in audit' : r.src = cmd'[r.id].src
    BY <1>0, <1>3, <2>3
  <2>4. ASSUME NEW c \in Cmds, Bypass(c)
        PROVE  \E x : audit' = audit \cup {x} /\ (\A y \in audit : y.id # x.id) /\ x.src = cmd'[x.id].src
    <3> DEFINE x == [id |-> c, at |-> now, src |-> "support", result |-> "dispatched", acked |-> FALSE]
    <3>1. cmd'[c].src = "support" /\ cmd[c].pc = "none" /\ audit' = audit \cup {x}
      BY <1>0, <2>4 DEF Bypass, NoCmd
    <3>2. x.id = c /\ x.src = "support"
      OBVIOUS
    <3> HIDE DEF x
    <3> QED BY <1>0, <3>1, <3>2 DEF Recorded
  <2>5. ASSUME NEW m \in stream, NEW acked \in BOOLEAN, HandleAudit(m, acked)
        PROVE  \/ UNCHANGED audit
               \/ \E x : audit' = audit \cup {x} /\ (\A y \in audit : y.id # x.id) /\ x.src = cmd'[x.id].src
    <3> DEFINE x == [id |-> m.id, at |-> m.at, src |-> cmd[m.id].src, result |-> m.result, acked |-> FALSE]
    <3>1. audit' = audit \/ (audit' = audit \cup {x} /\ ~ \E r \in audit : r.id = m.id /\ r.at = m.at)
      BY <2>5 DEF HandleAudit, InsertAudit
    <3>2. x.id = m.id /\ x.src = cmd[m.id].src /\ cmd' = cmd
      BY <2>5 DEF HandleAudit
    <3> HIDE DEF x
    <3> QED BY <1>0, <3>1, <3>2
  <2>6. \/ UNCHANGED audit
        \/ \E c \in Cmds : GetCmd(c) \/ Bypass(c)
        \/ \E m \in stream, acked \in BOOLEAN : HandleAudit(m, acked)
    BY RecordsMove DEF AuthorizeDenied, AuditOK, AuditErr, MQTTPublishErr
  <2> QED BY <2>1, <2>2, <2>3, <2>4, <2>5, <2>6
<1>5. ASSUME NEW r \in rec' PROVE /\ cmd'[r.id].pc \notin {"none", "posted", "authorized"}
                                  /\ r.at = cmd'[r.id].at /\ NeedsGrant(cmd'[r.id].src)
  <2>1. CASE r \in rec
    <3> DEFINE x == [id |-> r.id, at |-> r.at, result |-> "dispatched"]
    <3>1. Recorded(x) /\ x.id \in Cmds
      BY <1>0, <2>1 DEF Recorded, Shapes, Row
    <3>2. Recorded(x)' /\ cmd'[x.id].at = cmd[x.id].at /\ cmd'[x.id].src = cmd[x.id].src
      BY <3>1, RecordedStays
    <3> QED BY <1>0, <2>1, <3>2 DEF Recorded
  <2>2. CASE r \notin rec
    <3>1. RecReadCmds
      <4>1. rec' \subseteq rec \/ RecReadCmds
        <5>1. ASSUME NEW d \in Cmds, Handler(d) \/ Crash(d) \/ DeviceAcks(d) \/ CmdresExpires(d) \/ GetCmd(d) \/ Bypass(d)
              PROVE  UNCHANGED rec
          BY <5>1 DEF Handler, AuthorizeDenied, AuthorizeOK, AuditOK, AuditErr, MQTTPublish, MQTTPublishErr, InsertCmdTicket,
             Crash, DeviceAcks, CmdresExpires, GetCmd, Bypass
        <5> QED BY <5>1 DEF Next, vars, Tick, RequestGrant, TransitionGrant, PostCmd, SelfCheck, Fresh, HandleAudit, RecCompare
      <4> QED BY <1>5, <2>2, <4>1
    <3>2. r \in audit /\ NeedsGrant(r.src) /\ r.result # "denied" /\ cmd' = cmd
      BY <1>5, <3>1 DEF RecReadCmds
    <3> QED BY <1>0, <3>2 DEF Recorded
  <2> QED BY <2>1, <2>2
<1>6. \A x \in stream' \cup audit' : Recorded(x)'
  BY <1>1
<1> QED BY <1>2, <1>4, <1>5, <1>6 DEF RecordInv, Recorded

\* A record leaves the stream only for a row.
LEMMA LoggedStays ==
    ASSUME Shapes, [Next]_vars, NEW c \in Cmds, Logged(c)
    PROVE  Logged(c)'
<1> DEFINE Has(st, au) == \E x \in st \cup au : x.id = c
<1>1. Has(stream, audit)
  BY DEF Logged, Records, Rows
<1>2. Has(stream', audit') => Logged(c)'
  BY DEF Logged, Records, Rows
<1>3. CASE stream \subseteq stream' /\ audit \subseteq audit'
  BY <1>1, <1>2, <1>3
<1>4. ASSUME NEW d \in Cmds, GetCmd(d) PROVE Has(stream', audit')
  <2>1. \A r \in audit : Acked(r, d).id = r.id
    BY DEF Acked, Shapes, Row
  <2>2. stream' = stream /\ audit' = {Acked(r, d) : r \in audit}
    BY <1>4 DEF GetCmd
  <2> QED BY <1>1, <2>1, <2>2
<1>5. ASSUME NEW m \in stream, NEW acked \in BOOLEAN, HandleAudit(m, acked) PROVE Has(stream', audit')
  <2> DEFINE x == [id |-> m.id, at |-> m.at, src |-> cmd[m.id].src, result |-> m.result, acked |-> FALSE]
  <2>1. \/ audit' = audit /\ \E r \in audit : r.id = m.id /\ r.at = m.at
        \/ audit' = audit \cup {x}
    BY <1>5 DEF HandleAudit, InsertAudit
  <2>2. stream' = stream \/ stream' = stream \ {m}
    BY <1>5 DEF HandleAudit
  <2>3. x.id = m.id
    OBVIOUS
  <2> HIDE DEF x
  <2> QED BY <1>1, <2>1, <2>2, <2>3
<1>6. \/ stream \subseteq stream' /\ audit \subseteq audit'
      \/ \E d \in Cmds : GetCmd(d)
      \/ \E m \in stream, acked \in BOOLEAN : HandleAudit(m, acked)
  BY RecordsMove DEF AuthorizeDenied, AuditOK, AuditErr, MQTTPublishErr, Bypass
<1> HIDE DEF Has
<1> QED BY <1>2, <1>3, <1>4, <1>5, <1>6

LEMMA LoggedStep ==
    ASSUME Shapes, LoggedInv, [Next]_vars
    PROVE  LoggedInv'
<1>0. cmd \in [Cmds -> CmdRec]
  BY DEF Shapes
<1>1. ASSUME NEW c \in Cmds, cmd'[c].pc \in {"audited", "ok", "failed"} PROVE Logged(c)'
  <2>1. CASE Logged(c)
    BY <2>1, LoggedStays
  <2>2. CASE cmd[c].pc \in {"audited", "ok", "failed"}
    BY <2>1, <2>2 DEF LoggedInv
  <2>3. CASE cmd[c].pc = "authorized" /\ cmd'[c].pc = "audited"
    <3>1. AuditOK(c)
      <4> DEFINE Moves == \E d \in Cmds : AuthorizeDenied(d) \/ AuditOK(d) \/ AuditErr(d) \/ MQTTPublishErr(d) \/ GetCmd(d)
                                          \/ Bypass(d) \/ AuthorizeOK(d) \/ MQTTPublish(d) \/ Crash(d)
                                          \/ (\E src \in Sources, act \in Actions, self \in BOOLEAN : Fresh(d, src, act, self))
      <4>1. UNCHANGED cmd \/ Moves
        <5>1. CASE CmdSame \/ UNCHANGED vars
          BY <5>1 DEF CmdSame, vars, Tick, RequestGrant, TransitionGrant, InsertCmdTicket, DeviceAcks, CmdresExpires, GetCmd,
             HandleAudit, RecReadCmds, RecCompare
        <5>2. ASSUME NEW d \in Cmds, NEW src \in Sources,
                     (\E act \in Actions : PostCmd(d, src, act)) \/ (\E g \in Grants : SelfCheck(d, g, src)) PROVE Moves
          BY <5>2 DEF PostCmd, SelfCheck, Actions
        <5>3. ASSUME NEW d \in Cmds, AuthorizeDenied(d) \/ AuditOK(d) \/ AuditErr(d) \/ MQTTPublishErr(d)
                                     \/ Bypass(d) \/ AuthorizeOK(d) \/ MQTTPublish(d) \/ Crash(d) PROVE Moves
          BY <5>3
        <5> HIDE DEF Moves
        <5> QED BY <5>1, <5>2, <5>3 DEF Next, Handler, CmdSame
      <4>2. ASSUME NEW d \in Cmds, d # c, NEW v, cmd' = [cmd EXCEPT ![d] = v] PROVE FALSE
        BY <1>0, <2>3, <4>2
      <4>3. PICK d \in Cmds : AuthorizeDenied(d) \/ AuditOK(d) \/ AuditErr(d) \/ MQTTPublishErr(d) \/ GetCmd(d)
                              \/ Bypass(d) \/ AuthorizeOK(d) \/ MQTTPublish(d) \/ Crash(d)
                              \/ (\E src \in Sources, act \in Actions, self \in BOOLEAN : Fresh(d, src, act, self))
        BY <2>3, <4>1
      <4>4. d = c
        <5> SUFFICES ASSUME d # c PROVE FALSE
          OBVIOUS
        <5> QED BY <1>0, <2>3, <4>3 DEF AuthorizeDenied, AuditOK, AuditErr, MQTTPublishErr, GetCmd, Bypass, AuthorizeOK,
                   MQTTPublish, Crash, Fresh
      <4>5. ~ (AuthorizeDenied(c) \/ MQTTPublishErr(c) \/ GetCmd(c) \/ Bypass(c) \/ AuthorizeOK(c) \/ MQTTPublish(c))
        BY <2>3 DEF AuthorizeDenied, MQTTPublishErr, GetCmd, Bypass, AuthorizeOK, MQTTPublish
      <4>6. ~ \E src \in Sources, act \in Actions, self \in BOOLEAN : Fresh(c, src, act, self)
        BY <2>3 DEF Fresh
      <4>7. ~ (AuditErr(c) \/ Crash(c))
        BY <1>0, <2>3 DEF AuditErr, Crash, CmdRec
      <4> QED BY <4>3, <4>4, <4>5, <4>6, <4>7
    <3>2. \E x \in stream' : x.id = c
      <4>1. Record(c, "dispatched") \in stream'
        BY <3>1 DEF AuditOK
      <4>2. Record(c, "dispatched").id = c
        BY DEF Record
      <4> QED BY <4>1, <4>2
    <3> QED BY <3>2 DEF Logged, Records
  <2> DEFINE o == cmd[c]
             n == cmd'[c]
  <2>4. o.pc \in {"authorized", "audited", "ok", "failed"} /\ (o.pc = "authorized" => n.pc = "audited")
    <3>1. o \in CmdRec /\ CmdMove(o, n) /\ n.pc \in {"audited", "ok", "failed"}
      BY <1>0, <1>1, CmdMoves
    <3> HIDE DEF o, n
    <3> QED BY <3>1 DEF CmdMove, CmdRec
  <2> QED BY <2>2, <2>3, <2>4
<1>2. ASSUME NEW c \in Cmds, c \in down' PROVE cmd'[c].pc \in {"ok", "failed"}
  <2> DEFINE o == cmd[c]
             n == cmd'[c]
  <2>0. o \in CmdRec /\ CmdMove(o, n)
    BY <1>0, CmdMoves
  <2>1. CASE c \in down
    <3>1. o.pc \in {"ok", "failed"}
      BY <2>1 DEF LoggedInv
    <3> HIDE DEF o, n
    <3>2. n = o
      BY <2>0, <3>1 DEF CmdMove
    <3> QED BY <3>1, <3>2 DEF o, n
  <2>2. CASE c \notin down
    <3>1. MQTTPublish(c) \/ MQTTPublishErr(c)
      <4>1. UNCHANGED down \/ \E d \in Cmds : (MQTTPublish(d) \/ MQTTPublishErr(d)) /\ down' \subseteq down \cup {d}
        <5>1. ASSUME NEW d \in Cmds, Handler(d) \/ Crash(d) \/ DeviceAcks(d) \/ CmdresExpires(d) \/ GetCmd(d) \/ Bypass(d)
              PROVE  UNCHANGED down \/ ((MQTTPublish(d) \/ MQTTPublishErr(d)) /\ down' \subseteq down \cup {d})
          BY <5>1 DEF Handler, AuthorizeDenied, AuthorizeOK, AuditOK, AuditErr, MQTTPublish, MQTTPublishErr, InsertCmdTicket,
             Crash, DeviceAcks, CmdresExpires, GetCmd, Bypass
        <5> QED BY <5>1 DEF Next, vars, Tick, RequestGrant, TransitionGrant, PostCmd, SelfCheck, Fresh, HandleAudit,
                   RecReadCmds, RecCompare
      <4> QED BY <1>2, <2>2, <4>1
    <3> QED BY <1>0, <3>1 DEF MQTTPublish, MQTTPublishErr, CmdRec
  <2> QED BY <2>1, <2>2
<1> QED BY <1>1, <1>2 DEF LoggedInv

-----------------------------------------------------------------------------
(* Theorems.                                                               *)

LEMMA CommandInvariant == Spec => []CommandInv
<1>1. Init => CommandInv
  <2> SUFFICES ASSUME Init PROVE CommandInv
    OBVIOUS
  <2>1. Shapes
    BY CommandConstants DEF Init, Shapes, Times, GrantRec, CmdRec, NoCmd, Never, Sources, Actions
  <2>2. GrantTimes /\ CmdTimes
    BY CommandConstants DEF Init, GrantTimes, CmdTimes, NoCmd, Never
  <2>3. RecordInv /\ LoggedInv /\ CheckedInv /\ FlaggedInv
    BY DEF Init, RecordInv, LoggedInv, CheckedInv, FlaggedInv, AlarmsExplained, NoCmd, Never
  <2> QED BY <2>1, <2>2, <2>3 DEF CommandInv
<1>2. CommandInv /\ [Next]_vars => CommandInv'
  BY ShapesStep, GrantTimesStep, CmdTimesStep, RecordStep, LoggedStep, CheckedStep, FlaggedStep DEF CommandInv
<1> QED BY <1>1, <1>2, PTL DEF Spec

\* Every variable keeps its type; in particular cmd_audit has one row per
\* command (server.go's records share cmd_id and created_at, audit.go's INSERT
\* does nothing on a conflict).
THEOREM TypeCorrect == Spec => []TypeOK
<1>1. CommandInv => TypeOK
  <2> SUFFICES ASSUME CommandInv PROVE TypeOK
    OBVIOUS
  <2>0. Shapes /\ GrantTimes /\ CmdTimes /\ RecordInv /\ now \in Nat /\ GrantTTL \in Nat
    BY CommandConstants DEF CommandInv, Shapes, Times
  <2>1. grant \in [Grants -> [status : {"none", "requested", "granted", "denied", "revoked"},
                              granted : 0 .. now, expires : 0 .. now + GrantTTL, revoked : 0 .. now]]
    <3>1. ASSUME NEW g \in Grants
          PROVE  grant[g] \in [status : {"none", "requested", "granted", "denied", "revoked"},
                               granted : 0 .. now, expires : 0 .. now + GrantTTL, revoked : 0 .. now]
      BY <2>0 DEF Shapes, GrantRec, GrantTimes
    <3> QED BY <2>0, <3>1 DEF Shapes
  <2>2. cmd \in [Cmds -> [pc : {"none", "posted", "authorized", "audited", "ok", "failed", "refused", "lost", "bypass"},
                          src : Sources, act : Actions, self : BOOLEAN, chk : 0 .. now, at : 0 .. now]]
    <3>1. ASSUME NEW c \in Cmds
          PROVE  cmd[c] \in [pc : {"none", "posted", "authorized", "audited", "ok", "failed", "refused", "lost", "bypass"},
                             src : Sources, act : Actions, self : BOOLEAN, chk : 0 .. now, at : 0 .. now]
      <4>1. cmd[c] \in CmdRec /\ cmd[c].chk <= now /\ cmd[c].at <= now
        BY <2>0 DEF Shapes, CmdTimes
      <4> QED BY <2>0, <4>1 DEF CmdRec
    <3> QED BY <2>0, <3>1 DEF Shapes
  <2>3. ASSUME NEW c \in Cmds PROVE Cardinality(Rows(c)) <= 1
    <3>1. \A r \in Rows(c), q \in Rows(c) : r = q
      BY <2>0 DEF Rows, RecordInv
    <3>2. CASE Rows(c) = {}
      <4>1. Cardinality(Rows(c)) = 0
        BY <3>2, FS_EmptySet
      <4> QED BY <4>1
    <3>3. CASE \E r \in Rows(c) : Rows(c) = {r}
      <4>1. Cardinality(Rows(c)) = 1
        BY <3>3, FS_Singleton
      <4> QED BY <4>1
    <3> QED BY <3>1, <3>2, <3>3
  <2>4. \A g \in Grants : grant[g].status = "revoked" => grant[g].granted # Never
    BY <2>0 DEF GrantTimes
  <2> QED BY <2>0, <2>1, <2>2, <2>3, <2>4 DEF TypeOK, Shapes, Message, Row, Results
<1> QED BY <1>1, CommandInvariant, PTL

\* "Audit before command": whatever fails or crashes between postCmd's steps
\* and however often the consumer's messages come back, a command that reached
\* the device has a record in the stream or a row in cmd_audit.
THEOREM AuditPrecedes == Spec => []AuditBeforeCommand
<1>1. CommandInv => AuditBeforeCommand
  BY DEF CommandInv, Shapes, LoggedInv, Logged, AuditBeforeCommand
<1> QED BY <1>1, CommandInvariant, PTL

\* The reconciler raises no alarm without a cause: a command that went around
\* the grant check, or a grant that ended between the check and the record.
THEOREM NoFalseAlarm == Spec => []AlarmsExplained
<1>1. CommandInv => AlarmsExplained
  BY DEF CommandInv, FlaggedInv
<1> QED BY <1>1, CommandInvariant, PTL

-----------------------------------------------------------------------------
(* The desired document (Desired).                                         *)

PatchRec == [pc : {"idle", "del", "publish"}, doc : D!Docs]

DesiredShapes ==
    /\ row \in D!Docs /\ should \in D!Switch
    /\ patch \in [Patchers -> PatchRec]
    /\ round \in [pc : {"idle", "read", "merge"}, lock : D!Switch, clear : BOOLEAN]

Busy(p) == patch[p] # D!Idle

\* Unless PATCHes raced, one of them at most is under way, and the document it
\* will publish has the switches of the row; without any the device has them.
InStep ==
    ~raced => /\ \A p \in Patchers, q \in Patchers : Busy(p) /\ Busy(q) => p = q
              /\ \A p \in Patchers : Busy(p) => patch[p].doc.switch = row.switch
              /\ (\A p \in Patchers : ~Busy(p)) => device.switch = row.switch

DesiredInv == DesiredShapes /\ InStep

\* A merge that does not touch the switches.
LEMMA MergedIs ==
    ASSUME NEW doc \in D!Docs, NEW f \in [switch : D!Switch \cup {"keep"}, lock : D!Switch \cup {"keep"},
                                          exp : {"none", "live", "past", "keep"}]
    PROVE  /\ D!Merged(doc, f) \in D!Docs
           /\ f.switch = "keep" => D!Merged(doc, f).switch = doc.switch
           /\ f.switch # "keep" => D!Merged(doc, f).switch = f.switch
BY DEF D!Merged, D!Docs, D!Switch, D!Unset

\* Steps that touch neither switches nor requests.
LEMMA DesiredQuiet ==
    ASSUME DesiredInv, row' \in D!Docs, row'.switch = row.switch, should' \in D!Switch,
           round' \in [pc : {"idle", "read", "merge"}, lock : D!Switch, clear : BOOLEAN],
           UNCHANGED <<patch, device, raced>>
    PROVE  DesiredInv'
BY DEF DesiredInv, DesiredShapes, InStep, Busy

LEMMA PatchMergeStep ==
    ASSUME DesiredInv, NEW p \in Patchers, NEW v \in D!Switch, D!PatchMerge(p, v)
    PROVE  DesiredInv'
<1>1. /\ row \in D!Docs /\ patch \in [Patchers -> PatchRec]
      /\ row' = D!Merged(row, D!Fields(v, "keep", "keep"))
      /\ patch' = [patch EXCEPT ![p] = [pc |-> "del", doc |-> row']]
      /\ raced' = \E q \in Patchers \ {p} : patch[q] # D!Idle
      /\ UNCHANGED <<device, should, round>>
  BY DEF D!PatchMerge, DesiredInv, DesiredShapes
<1>2. D!Fields(v, "keep", "keep") \in [switch : D!Switch \cup {"keep"}, lock : D!Switch \cup {"keep"},
                                      exp : {"none", "live", "past", "keep"}]
  BY DEF D!Fields
<1>3. row' \in D!Docs
  BY <1>1, <1>2, MergedIs
<1>4. /\ patch' \in [Patchers -> PatchRec]
      /\ patch'[p] = [pc |-> "del", doc |-> row'] /\ \A q \in Patchers \ {p} : patch'[q] = patch[q]
  BY <1>1, <1>3 DEF PatchRec
<1>5. patch'[p] # D!Idle /\ patch'[p].doc.switch = row'.switch
  BY <1>4 DEF D!Idle
<1>6. ~raced' => \A q \in Patchers \ {p} : patch'[q] = D!Idle
  BY <1>1, <1>4
<1> QED
  BY <1>1, <1>3, <1>4, <1>5, <1>6 DEF DesiredInv, DesiredShapes, InStep, Busy, D!Idle

LEMMA PatchDelStep ==
    ASSUME DesiredInv, NEW p \in Patchers, D!PatchDel(p) PROVE DesiredInv'
<1>1. /\ patch \in [Patchers -> PatchRec] /\ patch[p].pc = "del"
      /\ patch' = [patch EXCEPT ![p].pc = "publish"] /\ UNCHANGED <<row, device, should, round, raced>>
  BY DEF D!PatchDel, DesiredInv, DesiredShapes
<1>2. /\ patch' \in [Patchers -> PatchRec]
      /\ patch'[p].doc = patch[p].doc /\ \A q \in Patchers \ {p} : patch'[q] = patch[q]
      /\ patch'[p].pc = "publish"
  BY <1>1 DEF PatchRec
<1>3. patch'[p] # D!Idle /\ patch[p] # D!Idle
  BY <1>1, <1>2 DEF D!Idle
<1> QED
  BY <1>1, <1>2, <1>3 DEF DesiredInv, DesiredShapes, InStep, Busy, D!Idle

LEMMA PatchPublishStep ==
    ASSUME DesiredInv, NEW p \in Patchers, D!PatchPublish(p) PROVE DesiredInv'
<1>1. /\ patch \in [Patchers -> PatchRec] /\ patch[p].pc = "publish"
      /\ device' = patch[p].doc /\ patch' = [patch EXCEPT ![p] = D!Idle]
      /\ UNCHANGED <<row, should, round, raced>>
  BY DEF D!PatchPublish, DesiredInv, DesiredShapes
<1>2. D!Idle \in PatchRec
  BY DEF D!Idle, D!Empty, PatchRec, D!Docs, D!Switch, D!Unset
<1>3. /\ patch' \in [Patchers -> PatchRec]
      /\ patch'[p] = D!Idle /\ \A q \in Patchers \ {p} : patch'[q] = patch[q]
  BY <1>1, <1>2
<1>4. patch[p] # D!Idle
  BY <1>1 DEF D!Idle
<1> QED
  BY <1>1, <1>3, <1>4 DEF DesiredInv, DesiredShapes, InStep, Busy, D!Idle

LEMMA PatchNotPublishedStep ==
    ASSUME DesiredInv, NEW p \in Patchers, D!PatchNotPublished(p) PROVE DesiredInv'
<1>1. /\ patch \in [Patchers -> PatchRec] /\ patch' = [patch EXCEPT ![p] = D!Idle] /\ raced' = TRUE
      /\ UNCHANGED <<row, should, round>>
  BY DEF D!PatchNotPublished, DesiredInv, DesiredShapes
<1>2. D!Idle \in PatchRec
  BY DEF D!Idle, D!Empty, PatchRec, D!Docs, D!Switch, D!Unset
<1> QED
  BY <1>1, <1>2 DEF DesiredInv, DesiredShapes, InStep

LEMMA FleetSvcStep ==
    ASSUME DesiredInv, D!Unlock \/ D!UnlockRunsOut \/ D!Timetable \/ D!Reconcile \/ D!ReconcileErr
    PROVE  DesiredInv'
<1> DEFINE FieldSet == [switch : D!Switch \cup {"keep"}, lock : D!Switch \cup {"keep"},
                        exp : {"none", "live", "past", "keep"}]
<1>1. /\ row \in D!Docs /\ should \in D!Switch
      /\ round \in [pc : {"idle", "read", "merge"}, lock : D!Switch, clear : BOOLEAN]
  BY DEF DesiredInv, DesiredShapes
<1>2. D!NoRec \in [pc : {"idle", "read", "merge"}, lock : D!Switch, clear : BOOLEAN]
  BY DEF D!NoRec, D!Switch
<1>3. CASE D!Unlock
  <2>1. D!Fields("keep", "off", "live") \in FieldSet /\ D!Fields("keep", "off", "live").switch = "keep"
    BY DEF D!Fields, D!Switch
  <2>2. row' = D!Merged(row, D!Fields("keep", "off", "live")) /\ UNCHANGED <<should, round, patch, device, raced>>
    BY <1>3 DEF D!Unlock
  <2>3. row' \in D!Docs /\ row'.switch = row.switch
    BY <1>1, <2>1, <2>2, MergedIs
  <2> QED BY <1>1, <2>2, <2>3, DesiredQuiet
<1>4. CASE D!UnlockRunsOut
  <2>1. row' = [row EXCEPT !.exp = IF @ = "live" THEN "past" ELSE @] /\ UNCHANGED <<should, round, patch, device, raced>>
    BY <1>4 DEF D!UnlockRunsOut
  <2>2. row' \in D!Docs /\ row'.switch = row.switch
    BY <1>1, <2>1 DEF D!Docs
  <2> QED BY <1>1, <2>1, <2>2, DesiredQuiet
<1>5. CASE D!Timetable
  <2>1. should' \in D!Switch /\ UNCHANGED <<row, round, patch, device, raced>>
    BY <1>5 DEF D!Timetable, D!Switch
  <2> QED BY <1>1, <2>1, DesiredQuiet
<1>6. CASE D!ReconcileStart \/ D!ReconcileRead \/ D!ReconcileErr
  <2>1. UNCHANGED <<row, should, patch, device, raced>>
    BY <1>6 DEF D!ReconcileStart, D!ReconcileRead, D!ReconcileErr
  <2>2. round' \in [pc : {"idle", "read", "merge"}, lock : D!Switch, clear : BOOLEAN]
    <3>1. CASE D!ReconcileStart
      BY <1>1, <3>1 DEF D!ReconcileStart, D!NoRec
    <3>2. CASE D!ReconcileRead
      <4>1. PICK c \in BOOLEAN : c = (row.exp = "past")
        OBVIOUS
      <4>2. round' = [pc |-> "merge", lock |-> round.lock, clear |-> c] \/ round' = D!NoRec
        BY <3>2, <4>1 DEF D!ReconcileRead
      <4> QED BY <1>1, <1>2, <4>2
    <3>3. CASE D!ReconcileErr
      BY <1>2, <3>3 DEF D!ReconcileErr
    <3> QED BY <1>6, <3>1, <3>2, <3>3
  <2>3. row' \in D!Docs /\ row'.switch = row.switch /\ should' \in D!Switch
    BY <1>1, <2>1
  <2> QED BY <2>1, <2>2, <2>3, DesiredQuiet
<1>7. CASE D!ReconcileMerge
  <2> DEFINE f == D!Fields("keep", round.lock, IF round.clear THEN "none" ELSE "keep")
  <2>1. f \in FieldSet /\ f.switch = "keep"
    BY <1>1 DEF D!Fields
  <2>2. row' = D!Merged(row, f) /\ round' = D!NoRec /\ UNCHANGED <<should, patch, device, raced>>
    BY <1>7 DEF D!ReconcileMerge
  <2>3. row' \in D!Docs /\ row'.switch = row.switch
    BY <1>1, <2>1, <2>2, MergedIs
  <2> QED BY <1>1, <1>2, <2>2, <2>3, DesiredQuiet
<1> QED
  BY <1>3, <1>4, <1>5, <1>6, <1>7 DEF D!Reconcile

LEMMA DesiredInvariant == D!Spec => []DesiredInv
<1>1. D!Init => DesiredInv
  BY DEF D!Init, D!Idle, D!NoRec, D!Empty, D!Docs, D!Switch, D!Unset, DesiredInv, DesiredShapes, PatchRec, InStep, Busy
<1>2. DesiredInv /\ [D!Next]_(D!vars) => DesiredInv'
  <2> SUFFICES ASSUME DesiredInv, [D!Next]_(D!vars) PROVE DesiredInv'
    OBVIOUS
  <2>1. ASSUME NEW p \in Patchers, NEW v \in D!Switch, D!PatchMerge(p, v) PROVE DesiredInv'
    BY <2>1, PatchMergeStep
  <2>2. ASSUME NEW p \in Patchers, D!Patching(p) \/ D!PatchNotPublished(p) PROVE DesiredInv'
    BY <2>2, PatchDelStep, PatchPublishStep, PatchNotPublishedStep DEF D!Patching
  <2>3. CASE D!Unlock \/ D!UnlockRunsOut \/ D!Timetable \/ D!Reconcile \/ D!ReconcileErr
    BY <2>3, FleetSvcStep
  <2>4. ASSUME NEW l \in Loaders, D!LoadMiss(l) \/ D!LoadSet(l) PROVE DesiredInv'
    BY <2>4, DesiredQuiet DEF D!LoadMiss, D!LoadSet, DesiredInv, DesiredShapes
  <2>5. CASE D!CacheExpires
    BY <2>5, DesiredQuiet DEF D!CacheExpires, DesiredInv, DesiredShapes
  <2>6. CASE UNCHANGED D!vars
    BY <2>6, DesiredQuiet DEF D!vars, DesiredInv, DesiredShapes
  <2> QED BY <2>1, <2>2, <2>3, <2>4, <2>5, <2>6 DEF D!Next
<1> QED
  BY <1>1, <1>2, PTL DEF D!Spec

\* The device shows the switches of the last PATCH, but while one is under way or
\* when it was not published or overlapped another one: no cache, timetable or
\* unlock can put it behind (server.go patchDesired, fleet service.go ReconcileOnce).
THEOREM DeviceFollows == D!Spec => []StaleDeviceRaced
<1>1. DesiredInv => StaleDeviceRaced
  BY DEF DesiredInv, InStep, Busy, StaleDeviceRaced, D!StaleDeviceRaced
<1> QED
  BY <1>1, DesiredInvariant, PTL
=============================================================================
