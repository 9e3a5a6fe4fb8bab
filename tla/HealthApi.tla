------------------------------ MODULE HealthApi ------------------------------
(***************************************************************************)
(* The requests of health-svc: verifying a material code, which is good    *)
(* for IOT_MATERIAL_MAX_SCANS scans, and attributing a click or an order   *)
(* to a reminder. ConsumeScan locks the row of the code, so a request is   *)
(* one step; what Verify reads after that transaction has no effect on the *)
(* tables, and neither has a code whose signature does not verify.         *)
(* Time is in whole units.                                                 *)
(***************************************************************************)
EXTENDS Naturals, FiniteSets

CONSTANTS
    Codes, Users,
    MaxScans, Threshold, Window,   \* IOT_MATERIAL_MAX_SCANS, 5 users, 30 days
    Reminders,     \* ids of health_reminder rows; sent at time 0, or suppressed
    Unsent,        \* those that were suppressed
    Orders,
    MaxTime,       \* bound: the clock
    MaxCalls       \* bound: verify requests

NoOne == "none"

\* The limit is on; MaxScans 0 turns it off (Replayed).
ApiConstants ==
    /\ {MaxScans, Threshold, Window} \subseteq Nat \ {0}
    /\ MaxTime \in Nat

VARIABLES
    time,
    status,   \* material_code.status, "absent" without a row
    scans,    \* material_code_scan: [id, code, user, ok, at]
    attr      \* reminder_attribution: the user and the order

vars == <<time, status, scans, attr>>
NoAttr == [user |-> NoOne, order |-> NoOne]

Init ==
    /\ time = 0
    /\ status = [c \in Codes |-> "absent"]
    /\ scans = {}
    /\ attr = [i \in Reminders |-> NoAttr]

Tick == time < MaxTime /\ time' = time + 1 /\ UNCHANGED <<status, scans, attr>>

-----------------------------------------------------------------------------
(* Material codes                                                          *)

\* InsertMaterialCode: ON CONFLICT DO NOTHING
Minted(c) == IF status[c] = "absent" THEN "active" ELSE status[c]
MintCode(c) ==
    /\ status' = [status EXCEPT ![c] = Minted(c)]
    /\ UNCHANGED <<time, scans, attr>>

\* Revocation is an UPDATE of the operators; no code here issues it.
Revoke(c) ==
    /\ status[c] = "active" /\ status' = [status EXCEPT ![c] = "revoked"]
    /\ UNCHANGED <<time, scans, attr>>

\* SuspiciousByScans
SuspiciousByScans(users) == users > Threshold
OkScans(c) == {s \in scans : s.code = c /\ s.ok}
Recent(c) == {s \in OkScans(c) : time < s.at + Window}
\* Mutant: one scan too many.
ReplayedAbove(c) == MaxScans > 0 /\ Cardinality(Recent(c)) > MaxScans
Replayed(c) == MaxScans > 0 /\ Cardinality(Recent(c)) >= MaxScans
DistinctUsers(c, u) ==
    Cardinality({s.user : s \in Recent(c)} \ {NoOne})
    + IF u # NoOne /\ ~\E s \in OkScans(c) : s.user = u THEN 1 ELSE 0

Record(c, u, ok) ==
    scans' = scans \cup {[id |-> Cardinality(scans), code |-> c, user |-> u, ok |-> ok, at |-> time]}

\* ConsumeScan: one transaction under FOR UPDATE
ConsumeScan(c, u) ==
    LET suspect == Replayed(c) \/ SuspiciousByScans(DistinctUsers(c, u))
        ok == status[c] = "active" /\ ~suspect
    IN /\ Record(c, u, ok)
       /\ status' = [status EXCEPT ![c] = IF @ = "active" /\ suspect THEN "suspicious" ELSE @]

Verify(c, u) ==
    /\ Cardinality(scans) < MaxCalls
    /\ ConsumeScan(c, u)
    /\ UNCHANGED <<time, attr>>

-----------------------------------------------------------------------------
(* Attribution                                                             *)

\* The first click stays.
Click(i, u) ==
    /\ attr' = [attr EXCEPT ![i].user = IF @ = NoOne THEN u ELSE @]
    /\ UNCHANGED <<time, status, scans>>

AttributionWindowOK == time <= Window
Assignable(i, o) == /\ attr[i].order \in {NoOne, o}
                    /\ \A j \in Reminders \ {i} : attr[j].order # o
Attribute(i, o) ==
    /\ i \notin Unsent /\ AttributionWindowOK /\ Assignable(i, o)
    /\ attr' = [attr EXCEPT ![i].order = o]
    /\ UNCHANGED <<time, status, scans>>

CodeStep == \/ \E c \in Codes : MintCode(c) \/ Revoke(c)
            \/ \E c \in Codes, u \in Users \cup {NoOne} : Verify(c, u)
OrderStep == \E i \in Reminders : \/ \E u \in Users : Click(i, u)
                                  \/ \E o \in Orders : Attribute(i, o)
Next == Tick \/ CodeStep \/ OrderStep

Spec == Init /\ [][Next]_vars

-----------------------------------------------------------------------------
(* Properties                                                              *)

TypeOK ==
    /\ time \in 0 .. MaxTime
    /\ status \in [Codes -> {"absent", "active", "suspicious", "revoked"}]
    /\ attr \in [Reminders -> [user : Users \cup {NoOne}, order : Orders \cup {NoOne}]]

(* However often a code is scanned and whenever it is revoked, a window    *)
(* holds at most MaxScans verified scans of it, and a code is suspicious   *)
(* only after a refused scan that followed a verified one (ConsumeScan).   *)
(* An order is attributed to one reminder, and only to one that was sent,  *)
(* whichever of clicks, orders and their retries comes first (Attribute).  *)
CodesAndOrdersSound ==
    /\ \A c \in Codes :
         /\ \A s \in OkScans(c) :
              Cardinality({t \in OkScans(c) : s.at <= t.at /\ t.at < s.at + Window}) <= MaxScans
         /\ status[c] = "suspicious" =>
              \E s, t \in scans : {s.code, t.code} = {c} /\ s.ok /\ ~t.ok /\ s.id < t.id
    /\ \A i, j \in Reminders : attr[i].order # NoOne =>
         /\ i \notin Unsent
         /\ attr[i].order = attr[j].order => i = j
=============================================================================
