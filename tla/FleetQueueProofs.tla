-------------------------- MODULE FleetQueueProofs ---------------------------
(***************************************************************************)
(* What the claim token guarantees for any number of items, devices and    *)
(* scheduler replicas: of an item's job starts at most one was confirmed   *)
(* to its scheduler, and an item with such a start stays claimed.          *)
(***************************************************************************)
EXTENDS FleetQueue, TLAPS

-----------------------------------------------------------------------------
(* The inductive invariant.                                                *)

ItemRec == [status : {"none", "submitted", "approved", "dispatched", "needs_teacher"} \cup Final,
            sn : SNs \cup {NoSN}, cmd : Nat, retry : Nat]
SchRec == [pc : {"idle", "head", "scan", "claim", "call", "started", "failed"},
           item : Items \cup {"none"}, todo : SUBSET SNs, sn : SNs \cup {NoSN}, tok : Nat]
Request == [item : Items, sn : SNs, tok : Nat, by : Schedulers]

Shapes ==
    /\ item \in [Items -> ItemRec]
    /\ sch \in [Schedulers -> SchRec]
    /\ flight \subseteq Request
    /\ ntok \in 0 .. MaxClaims
    /\ started \in [Items -> [heard : Nat, unheard : Nat]]
    /\ \A p \in Schedulers : /\ sch[p].pc # "idle" => sch[p].item \in Items
                             /\ sch[p].pc = "claim" => sch[p].sn \in SNs

Called(p) == sch[p].pc \in {"call", "started", "failed"}

\* A token is issued once: it names one request and one scheduler's call.
TokensUnique ==
    /\ \A r \in flight : r.tok \in 1 .. ntok
    /\ \A r \in flight, q \in flight : r.tok = q.tok => r = q
    /\ \A p \in Schedulers : Called(p) => sch[p].tok \in 1 .. ntok
    /\ \A p \in Schedulers, q \in Schedulers : Called(p) /\ Called(q) /\ sch[p].tok = sch[q].tok => p = q
    /\ \A p \in Schedulers, r \in flight :
         Called(p) /\ r.tok = sch[p].tok => r.by = p /\ r.item = sch[p].item

\* While a scheduler waits, its request is under way, and the item it claimed is
\* its own: dispatched under its token, not yet expiring, never started.
WaitingHolds ==
    /\ \A r \in flight : r.item \notin late
    /\ \A p \in Schedulers : sch[p].pc = "call" =>
         /\ \E r \in flight : r.tok = sch[p].tok
         /\ item[sch[p].item].status = "dispatched" /\ item[sch[p].item].cmd = sch[p].tok
         /\ started[sch[p].item].heard = 0

\* An item with a confirmed start is out of reach of a revert.
HeardStays ==
    \A i \in Items :
        /\ started[i].heard \in {0, 1}
        /\ started[i].heard # 0 =>
             /\ item[i].status \in {"dispatched", "skipped"}
             /\ \A p \in Schedulers : sch[p].pc = "failed" /\ sch[p].item = i => item[i].cmd # sch[p].tok

QueueInv == Shapes /\ TokensUnique /\ WaitingHolds /\ HeardStays

LEMMA Facts ==
    ASSUME QueueInv
    PROVE  /\ item \in [Items -> ItemRec] /\ sch \in [Schedulers -> SchRec] /\ flight \subseteq Request
           /\ ntok \in Nat /\ MaxClaims \in Nat /\ ntok <= MaxClaims
           /\ started \in [Items -> [heard : Nat, unheard : Nat]]
           /\ \A r \in flight : r.item \in Items /\ r.by \in Schedulers /\ r.tok \in Nat
           /\ \A p \in Schedulers : sch[p].tok \in Nat
  BY FleetConstants DEF QueueInv, Shapes, Request, SchRec

-----------------------------------------------------------------------------
(* One lemma for each kind of step.                                        *)

\* Members act on items that are not dispatched, or make a row at all.
LEMMA MemberStep ==
    ASSUME QueueInv, NEW i \in Items, NEW to \in {"submitted", "approved", "rejected", "canceled"},
           item[i].status \notin {"dispatched", "skipped"}, item' = [item EXCEPT ![i].status = to],
           late' \subseteq late, UNCHANGED <<sch, flight, ntok, started>>
    PROVE  QueueInv'
<1>0. item \in [Items -> ItemRec]
  BY Facts
<1>1. /\ item' \in [Items -> ItemRec]
      /\ \A j \in Items : j # i => item'[j] = item[j]
      /\ item'[i].status = to /\ item'[i].cmd = item[i].cmd
  BY <1>0 DEF ItemRec, Final
<1>2. Shapes' /\ TokensUnique'
  BY <1>1 DEF QueueInv, Shapes, TokensUnique, Called
<1>3. WaitingHolds'
  <2>1. \A p \in Schedulers : sch[p].pc = "call" => sch[p].item # i /\ sch[p].item \in Items
    BY DEF QueueInv, WaitingHolds, Shapes
  <2> QED BY <1>1, <2>1 DEF QueueInv, WaitingHolds
<1>4. HeardStays'
  BY <1>1 DEF QueueInv, HeardStays
<1> QED BY <1>2, <1>3, <1>4 DEF QueueInv

\* A scheduler that waits for nobody's answer moves on, reads, or dies.
LEMMA QuietStep ==
    ASSUME QueueInv, NEW p \in Schedulers, NEW v \in SchRec, sch' = [sch EXCEPT ![p] = v],
           v.pc \in {"idle", "head", "scan", "claim"}, v.pc # "idle" => v.item \in Items, v.pc = "claim" => v.sn \in SNs,
           UNCHANGED <<item, late, flight, ntok, started>>
    PROVE  QueueInv'
<1>1. sch' \in [Schedulers -> SchRec] /\ sch'[p] = v /\ \A q \in Schedulers : q # p => sch'[q] = sch[q]
  BY Facts
<1>2. Shapes'
  BY <1>1 DEF QueueInv, Shapes
<1>3. TokensUnique'
  BY <1>1 DEF QueueInv, TokensUnique, Called
<1>4. WaitingHolds'
  BY <1>1 DEF QueueInv, WaitingHolds
<1>5. HeardStays'
  BY <1>1 DEF QueueInv, HeardStays
<1> QED BY <1>2, <1>3, <1>4, <1>5 DEF QueueInv

LEMMA ClaimStep ==
    ASSUME QueueInv, NEW p \in Schedulers, ClaimDispatch(p)
    PROVE  QueueInv'
<1> DEFINE i == sch[p].item
           s == sch[p].sn
<1>0. i \in Items /\ s \in SNs /\ sch[p].pc = "claim"
  BY DEF QueueInv, Shapes, ClaimDispatch
<1>1. CASE ~ Claimable(i, s)
  <2>1. NoSch \in SchRec /\ NoSch.pc = "idle"
    BY DEF NoSch, SchRec
  <2>2. sch' = [sch EXCEPT ![p] = NoSch] /\ UNCHANGED <<item, late, flight, ntok, started>>
    BY <1>1 DEF ClaimDispatch
  <2> QED BY <2>1, <2>2, QuietStep
<1>2. CASE Claimable(i, s)
  <2>0. PICK t : t = ntok + 1
    OBVIOUS
  <2>1. PICK r : r = [item |-> i, sn |-> s, tok |-> t, by |-> p]
    OBVIOUS
  <2>2. /\ ntok < MaxClaims /\ ntok' = t
        /\ item' = [item EXCEPT ![i].status = "dispatched", ![i].sn = s, ![i].cmd = t]
        /\ late' = late \ {i} /\ flight' = flight \cup {r}
        /\ sch' = [sch EXCEPT ![p].pc = "call", ![p].tok = t]
        /\ started' = started /\ item[i].status = "approved"
    BY <1>2, <2>0, <2>1 DEF ClaimDispatch, Claimable
  <2>3. t \in 1 .. MaxClaims /\ t \in Nat /\ t > ntok /\ ntok \in Nat
    BY <2>0, <2>2, Facts
  <2>4. /\ item' \in [Items -> ItemRec]
        /\ \A j \in Items : j # i => item'[j] = item[j]
        /\ item'[i].status = "dispatched" /\ item'[i].cmd = t
    BY <1>0, <2>2, <2>3, Facts DEF ItemRec
  <2>5. /\ sch' \in [Schedulers -> SchRec]
        /\ \A q \in Schedulers : q # p => sch'[q] = sch[q]
        /\ sch'[p].pc = "call" /\ sch'[p].tok = t /\ sch'[p].item = i
    BY <1>0, <2>2, <2>3, Facts DEF SchRec
  <2>6. r \in Request /\ r.tok = t /\ r.by = p /\ r.item = i
    BY <1>0, <2>1, <2>3 DEF Request
  <2>7. started[i].heard = 0
    BY <1>0, <2>2 DEF QueueInv, HeardStays
  <2>8. \A q \in flight : q.tok # t
    BY <2>3 DEF QueueInv, TokensUnique
  <2>9. \A q \in Schedulers : Called(q) => sch[q].tok # t
    BY <2>3 DEF QueueInv, TokensUnique
  <2>10. Shapes'
    BY <1>0, <2>2, <2>3, <2>4, <2>5, <2>6, Facts DEF QueueInv, Shapes
  <2>11. TokensUnique'
    <3>1. \A q \in flight' : q.tok \in 1 .. ntok'
      BY <2>2, <2>3, <2>6, Facts DEF QueueInv, TokensUnique
    <3>2. \A q1 \in flight', q2 \in flight' : q1.tok = q2.tok => q1 = q2
      BY <2>2, <2>6, <2>8 DEF QueueInv, TokensUnique
    <3>3. \A q \in Schedulers : Called(q)' => sch'[q].tok \in 1 .. ntok'
      BY <2>2, <2>3, <2>5, Facts DEF QueueInv, TokensUnique, Called
    <3>4. \A q1 \in Schedulers, q2 \in Schedulers : Called(q1)' /\ Called(q2)' /\ sch'[q1].tok = sch'[q2].tok => q1 = q2
      BY <2>5, <2>9 DEF QueueInv, TokensUnique, Called
    <3>5. \A q \in Schedulers, x \in flight' : Called(q)' /\ x.tok = sch'[q].tok => x.by = q /\ x.item = sch'[q].item
      BY <2>2, <2>5, <2>6, <2>8, <2>9 DEF QueueInv, TokensUnique, Called
    <3> QED BY <3>1, <3>2, <3>3, <3>4, <3>5 DEF TokensUnique, Called
  <2>12. WaitingHolds'
    <3>1. \A q \in Schedulers : sch[q].pc = "call" => sch[q].item # i /\ sch[q].item \in Items
      BY <2>2 DEF QueueInv, WaitingHolds, Shapes
    <3>2. \A x \in flight' : x.item \notin late'
      BY <2>2, <2>6 DEF QueueInv, WaitingHolds
    <3>3. ASSUME NEW q \in Schedulers, sch'[q].pc = "call"
          PROVE  /\ \E x \in flight' : x.tok = sch'[q].tok
                 /\ item'[sch'[q].item].status = "dispatched" /\ item'[sch'[q].item].cmd = sch'[q].tok
                 /\ started'[sch'[q].item].heard = 0
      <4>1. CASE q = p
        BY <2>2, <2>4, <2>5, <2>6, <2>7, <4>1
      <4>2. CASE q # p
        BY <2>2, <2>4, <2>5, <3>1, <3>3, <4>2 DEF QueueInv, WaitingHolds
      <4> QED BY <4>1, <4>2
    <3> QED BY <3>2, <3>3 DEF WaitingHolds
  <2>13. HeardStays'
    BY <2>2, <2>4, <2>5, <2>7 DEF QueueInv, HeardStays
  <2> QED BY <2>10, <2>11, <2>12, <2>13 DEF QueueInv
<1> QED BY <1>1, <1>2

LEMMA TimeoutStep ==
    ASSUME QueueInv, NEW p \in Schedulers, CallTimeout(p)
    PROVE  QueueInv'
<1>1. /\ sch' \in [Schedulers -> SchRec]
      /\ \A q \in Schedulers : q # p => sch'[q] = sch[q]
      /\ sch[p].pc = "call" /\ sch'[p].pc = "failed" /\ sch'[p].tok = sch[p].tok /\ sch'[p].item = sch[p].item
      /\ UNCHANGED <<item, late, flight, ntok, started>>
  BY Facts DEF CallTimeout, SchRec
<1>2. sch[p].item \in Items /\ started[sch[p].item].heard = 0
  BY <1>1 DEF QueueInv, Shapes, WaitingHolds
<1>3. Shapes'
  BY <1>1, <1>2 DEF QueueInv, Shapes
<1>4. TokensUnique'
  BY <1>1 DEF QueueInv, TokensUnique, Called
<1>5. WaitingHolds'
  BY <1>1 DEF QueueInv, WaitingHolds
<1>6. HeardStays'
  BY <1>1, <1>2 DEF QueueInv, HeardStays
<1> QED BY <1>3, <1>4, <1>5, <1>6 DEF QueueInv

\* The request is served. Only its own scheduler can be told, and while that
\* one waits the item has no confirmed start yet.
LEMMA ServeStep ==
    ASSUME QueueInv, NEW r \in flight, ServeJobStart(r)
    PROVE  QueueInv'
<1> DEFINE p == r.by
           i == r.item
           waits == sch[p].pc = "call" /\ sch[p].tok = r.tok
<1>0. p \in Schedulers /\ i \in Items /\ r \in flight
  BY Facts
<1>1. flight' = flight \ {r} /\ UNCHANGED <<item, late, ntok>>
  BY DEF ServeJobStart
<1>2. waits => /\ sch[p].item = i /\ item[i].status = "dispatched" /\ item[i].cmd = r.tok
               /\ started[i].heard = 0
  BY <1>0 DEF QueueInv, TokensUnique, WaitingHolds, Called
<1>3. /\ sch' \in [Schedulers -> SchRec]
      /\ \A q \in Schedulers : q # p \/ ~ waits => sch'[q] = sch[q]
      /\ waits => sch'[p].pc \in {"started", "failed"} /\ sch'[p].tok = r.tok /\ sch'[p].item = i
  <2>0. sch \in [Schedulers -> SchRec]
    BY Facts
  <2>1. CASE ~ waits
    <3>1. sch' = sch
      BY <2>1 DEF ServeJobStart
    <3> QED BY <2>0, <2>1, <3>1
  <2>2. CASE waits
    <3>1. PICK pc \in {"started", "failed"} : sch' = [sch EXCEPT ![p].pc = pc]
      BY <2>2 DEF ServeJobStart
    <3> HIDE DEF p
    <3>2. /\ sch' \in [Schedulers -> SchRec]
          /\ \A q \in Schedulers : q # p => sch'[q] = sch[q]
          /\ sch'[p].pc = pc /\ sch'[p].tok = sch[p].tok /\ sch'[p].item = sch[p].item
      BY <1>0, <2>0, <3>1 DEF SchRec
    <3> QED BY <1>2, <2>2, <3>2
  <2> QED BY <2>1, <2>2
<1>4. /\ started' \in [Items -> [heard : Nat, unheard : Nat]]
      /\ \A j \in Items : started'[j].heard = started[j].heard \/ (waits /\ j = i /\ started'[j].heard = 1 /\ sch'[p].pc = "started")
  <2>1. CASE started' = started
    BY <2>1, Facts
  <2>2. CASE started' = [started EXCEPT ![i].unheard = @ + 1]
    BY <1>0, <2>2, Facts
  <2>3. CASE waits /\ started' = [started EXCEPT ![i].heard = @ + 1] /\ sch' = [sch EXCEPT ![p].pc = "started"]
    <3>1. sch'[p].pc = "started"
      BY <1>0, <2>3, Facts DEF SchRec
    <3> QED BY <1>0, <1>2, <2>3, <3>1, Facts
  <2> QED BY <2>1, <2>2, <2>3 DEF ServeJobStart
<1> HIDE DEF waits
<1>5. Shapes'
  BY <1>0, <1>1, <1>2, <1>3, <1>4 DEF QueueInv, Shapes, waits
<1>6. TokensUnique'
  BY <1>0, <1>1, <1>2, <1>3 DEF QueueInv, TokensUnique, Called, waits
<1>7. WaitingHolds'
  <2>1. ASSUME NEW q \in Schedulers, sch'[q].pc = "call"
        PROVE  /\ \E x \in flight' : x.tok = sch'[q].tok
               /\ item'[sch'[q].item].status = "dispatched" /\ item'[sch'[q].item].cmd = sch'[q].tok
               /\ started'[sch'[q].item].heard = 0
    <3>1. sch'[q] = sch[q] /\ sch[q].pc = "call" /\ sch[q].item \in Items
      BY <1>3, <2>1 DEF QueueInv, Shapes
    <3>2. PICK x \in flight : x.tok = sch[q].tok
      BY <3>1 DEF QueueInv, WaitingHolds
    <3>3. x # r
      <4>1. CASE x = r
        <5>1. q = p
          BY <1>0, <3>1, <3>2, <4>1 DEF QueueInv, TokensUnique, Called
        <5>2. waits
          BY <3>1, <3>2, <4>1, <5>1 DEF waits
        <5> QED BY <1>3, <2>1, <5>1, <5>2
      <4> QED BY <4>1
    <3>4. item[sch[q].item].status = "dispatched" /\ item[sch[q].item].cmd = sch[q].tok /\ started[sch[q].item].heard = 0
      BY <3>1 DEF QueueInv, WaitingHolds
    <3>5. waits => sch[q].item # i
      <4>1. waits /\ sch[q].item = i => sch[q].tok = r.tok
        BY <1>2, <3>4
      <4>2. sch[q].tok # r.tok
        BY <3>2, <3>3 DEF QueueInv, TokensUnique
      <4> QED BY <4>1, <4>2
    <3> QED BY <1>1, <1>4, <3>1, <3>2, <3>3, <3>4, <3>5
  <2> QED BY <1>1, <2>1 DEF QueueInv, WaitingHolds
<1>8. HeardStays'
  <2>1. ASSUME NEW j \in Items, started'[j].heard # 0
        PROVE  /\ item[j].status \in {"dispatched", "skipped"}
               /\ \A q \in Schedulers : sch'[q].pc = "failed" /\ sch'[q].item = j => item[j].cmd # sch'[q].tok
    <3>1. CASE started'[j].heard = started[j].heard
      <4>1. waits => i # j
        BY <1>2, <2>1, <3>1
      <4> QED BY <1>3, <2>1, <3>1, <4>1 DEF QueueInv, HeardStays
    <3>2. CASE waits /\ j = i /\ sch'[p].pc = "started"
      <4>1. ASSUME NEW q \in Schedulers, sch'[q].pc = "failed", sch'[q].tok = r.tok PROVE FALSE
        <5>1. q # p /\ sch'[q] = sch[q]
          BY <1>3, <3>2, <4>1
        <5>2. Called(q) /\ Called(p) /\ sch[q].tok = sch[p].tok
          BY <3>2, <4>1, <5>1 DEF Called, waits
        <5> QED BY <1>0, <5>1, <5>2 DEF QueueInv, TokensUnique
      <4> QED BY <1>2, <3>2, <4>1
    <3> QED BY <1>4, <2>1, <3>1, <3>2
  <2>2. \A j \in Items : started'[j].heard \in {0, 1}
    BY <1>4 DEF QueueInv, HeardStays
  <2> QED BY <1>1, <2>1, <2>2 DEF HeardStays
<1> QED BY <1>5, <1>6, <1>7, <1>8 DEF QueueInv

\* ConfirmDispatch replaces the token, so that no call holds the item any more.
LEMMA ConfirmStep ==
    ASSUME QueueInv, NEW p \in Schedulers, ConfirmDispatch(p)
    PROVE  QueueInv'
<1>0. PICK i : i = sch[p].item
  OBVIOUS
<1>1. PICK c : c = MaxClaims + sch[p].tok
  OBVIOUS
<1>2. /\ i \in Items /\ Called(p) /\ c \in Nat /\ sch[p].pc = "started"
      /\ \A q \in Schedulers : Called(q) => sch[q].tok # c
  <2>1. sch[p].pc = "started" /\ Called(p)
    BY DEF ConfirmDispatch, Called
  <2>2. \A q \in Schedulers : Called(q) => sch[q].tok \in 1 .. ntok
    BY DEF QueueInv, TokensUnique
  <2> QED BY <1>0, <1>1, <2>1, <2>2, Facts DEF QueueInv, Shapes
<1>3. /\ sch' \in [Schedulers -> SchRec]
      /\ \A q \in Schedulers : q # p => sch'[q] = sch[q]
      /\ sch'[p].pc = "idle"
      /\ UNCHANGED <<late, flight, ntok, started>>
  BY Facts DEF ConfirmDispatch, NoSch, SchRec
<1>4. item' = item \/ (Holds(p) /\ item' = [item EXCEPT ![i].cmd = c])
  BY <1>0, <1>1 DEF ConfirmDispatch
<1>5. /\ item' \in [Items -> ItemRec]
      /\ \A j \in Items : item'[j].status = item[j].status /\ (item'[j].cmd = item[j].cmd \/ item'[j].cmd = c)
      /\ \A j \in Items : j # i \/ ~ Holds(p) => item'[j] = item[j]
  <2>1. item \in [Items -> ItemRec] /\ \A j \in Items : item[j] \in ItemRec
    BY Facts
  <2>2. CASE item' = item
    BY <2>1, <2>2
  <2>3. CASE Holds(p) /\ item' = [item EXCEPT ![i].cmd = c]
    <3>1. \A j \in Items : j # i => item'[j] = item[j]
      BY <1>2, <2>1, <2>3
    <3>2. item'[i] = [item[i] EXCEPT !.cmd = c]
      BY <1>2, <2>1, <2>3
    <3>3. item'[i] \in ItemRec /\ item'[i].status = item[i].status /\ item'[i].cmd = c
      BY <1>2, <2>1, <3>2 DEF ItemRec
    <3>4. item' \in [Items -> ItemRec]
      BY <1>2, <2>1, <2>3, <3>1, <3>3
    <3> QED BY <2>3, <3>1, <3>3, <3>4
  <2> QED BY <1>4, <2>2, <2>3
<1>6. Shapes'
  BY <1>3, <1>5 DEF QueueInv, Shapes
<1>7. TokensUnique'
  BY <1>3 DEF QueueInv, TokensUnique, Called
<1>8. WaitingHolds'
  <2>1. \A q \in Schedulers : sch[q].pc = "call" /\ sch[q].item = i => ~ Holds(p)
    BY <1>0, <1>2 DEF QueueInv, TokensUnique, WaitingHolds, Called, Holds
  <2>2. \A q \in Schedulers : sch[q].pc = "call" => sch[q].item \in Items
    BY DEF QueueInv, Shapes
  <2> QED BY <1>3, <1>5, <2>1, <2>2 DEF QueueInv, WaitingHolds
<1>9. HeardStays'
  BY <1>2, <1>3, <1>5 DEF QueueInv, HeardStays, Called
<1> QED BY <1>6, <1>7, <1>8, <1>9 DEF QueueInv

\* RevertDispatch puts back what its failed call still holds: by HeardStays an
\* item that nobody heard started.
LEMMA RevertStep ==
    ASSUME QueueInv, NEW p \in Schedulers, RevertDispatch(p)
    PROVE  QueueInv'
<1>0. PICK i : i = sch[p].item
  OBVIOUS
<1>1. PICK row : row = Reverted(p)
  OBVIOUS
<1>2. i \in Items /\ Called(p) /\ sch[p].pc = "failed"
  BY <1>0 DEF RevertDispatch, Called, QueueInv, Shapes
<1>3. /\ sch' \in [Schedulers -> SchRec]
      /\ \A q \in Schedulers : q # p => sch'[q] = sch[q]
      /\ sch'[p].pc = "idle"
      /\ UNCHANGED <<late, flight, ntok, started>>
  BY Facts DEF RevertDispatch, NoSch, SchRec
<1>4. item' = item \/ (Holds(p) /\ item' = [item EXCEPT ![i] = row])
  BY <1>0, <1>1 DEF RevertDispatch
<1>5. row \in ItemRec
  <2>1. item[i] \in ItemRec
    BY <1>2, Facts
  <2>2. PICK st : st = IF item[i].retry + 1 >= MaxRetry THEN "needs_teacher" ELSE "approved"
    OBVIOUS
  <2>3. row = [item[i] EXCEPT !.status = st, !.sn = NoSN, !.cmd = 0, !.retry = @ + 1]
    BY <1>0, <1>1, <2>2 DEF Reverted
  <2>4. st \in {"needs_teacher", "approved"}
    BY <2>2
  <2>5. row = [status |-> st, sn |-> NoSN, cmd |-> 0, retry |-> item[i].retry + 1] /\ item[i].retry \in Nat
    BY <2>1, <2>3 DEF ItemRec
  <2> QED BY <2>4, <2>5 DEF ItemRec
<1>6. /\ item' \in [Items -> ItemRec]
      /\ \A j \in Items : j # i \/ ~ Holds(p) => item'[j] = item[j]
  BY <1>2, <1>4, <1>5, Facts
<1>7. Holds(p) => started[i].heard = 0
  BY <1>0, <1>2 DEF QueueInv, HeardStays, Holds
<1>8. Shapes'
  BY <1>3, <1>6 DEF QueueInv, Shapes
<1>9. TokensUnique'
  BY <1>3 DEF QueueInv, TokensUnique, Called
<1>10. WaitingHolds'
  <2>1. \A q \in Schedulers : sch[q].pc = "call" /\ sch[q].item = i => ~ Holds(p)
    BY <1>0, <1>2 DEF QueueInv, TokensUnique, WaitingHolds, Called, Holds
  <2>2. \A q \in Schedulers : sch[q].pc = "call" => sch[q].item \in Items
    BY DEF QueueInv, Shapes
  <2> QED BY <1>3, <1>6, <2>1, <2>2 DEF QueueInv, WaitingHolds
<1>11. HeardStays'
  BY <1>3, <1>6, <1>7 DEF QueueInv, HeardStays
<1> QED BY <1>8, <1>9, <1>10, <1>11 DEF QueueInv

\* No request outlives a TTL.
LEMMA AgeStep ==
    ASSUME QueueInv, NEW i \in Items, Age(i)
    PROVE  QueueInv'
<1>1. UNCHANGED <<item, sch, flight, ntok, started>> /\ late' = late \cup {i} /\ \A r \in flight : r.item # i
  BY DEF Age
<1> QED BY <1>1 DEF QueueInv, Shapes, TokensUnique, WaitingHolds, HeardStays, Called

\* What expires has no request under way: nobody waits for it.
LEMMA ExpireStep ==
    ASSUME QueueInv, ExpireItems
    PROVE  QueueInv'
<1>1. UNCHANGED <<sch, flight, ntok, started>> /\ late' \subseteq late
  BY DEF ExpireItems
<1>2. /\ item' \in [Items -> ItemRec]
      /\ \A j \in Items : \/ item'[j] = item[j]
                          \/ /\ j \in late
                             /\ item'[j].status = "skipped" /\ item'[j].cmd = item[j].cmd
  <2>1. \A j \in Items : item[j] \in ItemRec
    BY Facts
  <2>2. \A j \in Items : [item[j] EXCEPT !.status = "skipped"] \in ItemRec
    BY <2>1 DEF ItemRec, Final
  <2>3. \A j \in Items : /\ [item[j] EXCEPT !.status = "skipped"].status = "skipped"
                         /\ [item[j] EXCEPT !.status = "skipped"].cmd = item[j].cmd
    BY <2>1 DEF ItemRec
  <2>4. item' = [j \in Items |-> IF j \in Expirable THEN [item[j] EXCEPT !.status = "skipped"] ELSE item[j]]
    BY DEF ExpireItems
  <2>5. \A j \in Items : item'[j] = IF j \in Expirable THEN [item[j] EXCEPT !.status = "skipped"] ELSE item[j]
    BY <2>4
  <2>6. item' \in [Items -> ItemRec]
    BY <2>1, <2>2, <2>4
  <2>7. Expirable \subseteq late
    BY DEF Expirable
  <2> QED BY <2>3, <2>5, <2>6, <2>7
<1>3. Shapes' /\ TokensUnique'
  BY <1>1, <1>2 DEF QueueInv, Shapes, TokensUnique, Called
<1>4. WaitingHolds'
  <2>1. \A p \in Schedulers : sch[p].pc = "call" => sch[p].item \in Items /\ sch[p].item \notin late
    <3>1. ASSUME NEW p \in Schedulers, sch[p].pc = "call" PROVE sch[p].item \in Items /\ sch[p].item \notin late
      <4>1. PICK r \in flight : r.tok = sch[p].tok
        BY <3>1 DEF QueueInv, WaitingHolds
      <4>2. r.item = sch[p].item /\ r.item \notin late
        BY <3>1, <4>1 DEF QueueInv, TokensUnique, WaitingHolds, Called
      <4> QED BY <4>2, Facts
    <3> QED BY <3>1
  <2> QED BY <1>1, <1>2, <2>1 DEF QueueInv, WaitingHolds
<1>5. HeardStays'
  BY <1>1, <1>2 DEF QueueInv, HeardStays
<1> QED BY <1>3, <1>4, <1>5 DEF QueueInv

-----------------------------------------------------------------------------
(* The theorem.                                                            *)

LEMMA InitHolds == Init => QueueInv
<1> SUFFICES ASSUME Init PROVE QueueInv
  OBVIOUS
<1>1. Shapes
  BY FleetConstants DEF Init, Shapes, ItemRec, SchRec, NoSch
<1> QED BY <1>1 DEF Init, QueueInv, TokensUnique, WaitingHolds, HeardStays, Called, NoSch

LEMMA RoundStep ==
    ASSUME QueueInv, NEW p \in Schedulers, Round(p)
    PROVE  QueueInv'
<1>0. sch \in [Schedulers -> SchRec] /\ sch[p] \in SchRec
  BY Facts
<1>1. ASSUME HeadApproved(p) PROVE QueueInv'
  <2>1. PICK i \in Approved : sch' = [sch EXCEPT ![p] = [NoSch EXCEPT !.pc = "head", !.item = i]]
    BY <1>1 DEF HeadApproved
  <2>2. PICK v : v = [NoSch EXCEPT !.pc = "head", !.item = i]
    OBVIOUS
  <2>3. v \in SchRec /\ v.pc = "head" /\ v.item \in Items
    BY <2>2 DEF NoSch, SchRec, Approved
  <2>4. sch' = [sch EXCEPT ![p] = v] /\ UNCHANGED <<item, late, flight, ntok, started>>
    BY <1>1, <2>1, <2>2 DEF HeadApproved
  <2> QED BY <2>3, <2>4, QuietStep
<1>2. ASSUME NEW todo \in SUBSET SNs, sch' = [sch EXCEPT ![p] = ScanOf(p, todo)], sch[p].pc # "idle",
             UNCHANGED <<item, late, flight, ntok, started>>
      PROVE  QueueInv'
  <2>1. PICK v : v = ScanOf(p, todo)
    OBVIOUS
  <2>2. sch[p].item \in Items
    BY <1>2 DEF QueueInv, Shapes
  <2>3. v \in SchRec /\ v.pc \in {"idle", "scan"} /\ (v.pc = "scan" => v.item \in Items)
    BY <1>0, <2>1, <2>2 DEF ScanOf, NoSch, SchRec
  <2> QED BY <1>2, <2>1, <2>3, QuietStep
<1>3. ASSUME ReadActive(p) PROVE QueueInv'
  BY <1>2, <1>3 DEF ReadActive
<1>4. ASSUME NEW s \in SNs, Scan(p, s) PROVE QueueInv'
  <2>1. CASE sch' = [sch EXCEPT ![p] = ScanOf(p, sch[p].todo \ {s})]
    <3>1. sch[p].todo \ {s} \in SUBSET SNs
      BY <1>0 DEF SchRec
    <3> QED BY <1>2, <1>4, <2>1, <3>1 DEF Scan
  <2>2. CASE sch' = [sch EXCEPT ![p].pc = "claim", ![p].sn = s, ![p].todo = {}]
    <3>1. PICK v : v = [sch[p] EXCEPT !.pc = "claim", !.sn = s, !.todo = {}]
      OBVIOUS
    <3>2. v \in SchRec /\ v.pc = "claim" /\ v.item = sch[p].item /\ v.sn \in SNs
      BY <1>0, <3>1 DEF SchRec
    <3>3. sch' = [sch EXCEPT ![p] = v]
      BY <1>0, <2>2, <3>1 DEF SchRec
    <3>4. sch[p].item \in Items /\ UNCHANGED <<item, late, flight, ntok, started>>
      BY <1>4 DEF Scan, QueueInv, Shapes
    <3> QED BY <3>2, <3>3, <3>4, QuietStep
  <2> QED BY <1>4, <2>1, <2>2 DEF Scan
<1> QED BY <1>1, <1>3, <1>4, ClaimStep, ConfirmStep, RevertStep DEF Round

LEMMA Inductive == QueueInv /\ [Next]_vars => QueueInv'
<1> SUFFICES ASSUME QueueInv, [Next]_vars PROVE QueueInv'
  OBVIOUS
<1>1. ASSUME NEW i \in Items, Submit(i) PROVE QueueInv'
  BY <1>1, MemberStep DEF Submit
<1>2. ASSUME NEW i \in Items, NEW to \in {"approved", "rejected", "canceled"}, NEW r \in Roles,
             SetItemStatus(i, to, r)
      PROVE  QueueInv'
  <2>1. item[i].status \notin {"dispatched", "skipped"}
    BY <1>2 DEF SetItemStatus, Transition
  <2>2. /\ item' = [item EXCEPT ![i].status = to] /\ late' \subseteq late
        /\ UNCHANGED <<sch, flight, ntok, started>>
    BY <1>2 DEF SetItemStatus
  <2> QED BY <2>1, <2>2, MemberStep
<1>3. ASSUME NEW p \in Schedulers, Crash(p) PROVE QueueInv'
  <2>1. NoSch \in SchRec /\ NoSch.pc = "idle"
    BY DEF NoSch, SchRec
  <2> QED BY <1>3, <2>1, QuietStep DEF Crash
<1>4. CASE UNCHANGED vars
  BY <1>4 DEF vars, QueueInv, Shapes, TokensUnique, WaitingHolds, HeardStays, Called
<1> QED BY <1>1, <1>2, <1>3, <1>4, RoundStep, TimeoutStep, ServeStep, AgeStep, ExpireStep DEF Next

THEOREM InvariantHolds == Spec => []QueueInv
  BY InitHolds, Inductive, PTL DEF Spec

\* However many replicas run, crash, time out and read late, of an item's
\* job_start commands (ClaimDispatch, ConfirmDispatch, RevertDispatch) at most
\* one was confirmed, and the item of a confirmed one never goes back.
THEOREM ConfirmedStartStands == Spec => []HeardStartStands
<1>1. ASSUME QueueInv PROVE HeardStartStands
  <2>1. ASSUME NEW i \in Items
        PROVE  /\ started[i].heard \in {0, 1}
               /\ started[i].heard # 0 => item[i].status \in {"dispatched", "skipped"}
    BY <1>1 DEF QueueInv, HeardStays
  <2>2. \A i \in Items : started[i].heard <= 1
    <3>1. \A n \in {0, 1} : n <= 1
      OBVIOUS
    <3> QED BY <2>1, <3>1
  <2>3. \A i \in Items : item[i].status \in {"submitted", "approved", "needs_teacher", "rejected", "canceled"} =>
          started[i].heard = 0
    <3>1. ASSUME NEW i \in Items, started[i].heard # 0
          PROVE  item[i].status \notin {"submitted", "approved", "needs_teacher", "rejected", "canceled"}
      <4>1. item[i].status = "dispatched" \/ item[i].status = "skipped"
        BY <2>1, <3>1
      <4> QED BY <4>1
    <3> QED BY <3>1
  <2> QED BY <2>2, <2>3 DEF HeardStartStands
<1> QED BY <1>1, InvariantHolds, PTL
=============================================================================
