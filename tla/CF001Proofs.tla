---------------------------- MODULE CF001Proofs ----------------------------
(***************************************************************************)
(* Proofs about CF001, for any number of requests, orders, devices and     *)
(* failures. That an order is never oversold needs three facts about the   *)
(* transactions that are open: the row lock leaves at most one per order,  *)
(* that one still has its unit (OpenTxHasQuota), and the rows they have    *)
(* inserted collide neither with committed rows nor with each other.       *)
(***************************************************************************)
EXTENDS CF001, FiniteSetTheorems, TLAPS

\* The row lock on oem_quotas: one open transaction per order.
OneTxPerOrder ==
    \A q, r \in Requests :
        InTx(q) /\ InTx(r) /\ req[q].order = req[r].order => q = r

\* The unique indexes of digest_maps: an uncommitted row has a digest and an SN
\* that no committed row and no other uncommitted row has.
PendingRowsNew ==
    \A r \in Requests : HasMapRow(r) =>
        /\ \A m \in maps : m.digest # req[r].digest /\ m.sn # req[r].sn
        /\ \A q \in Requests \ {r} :
             HasMapRow(q) => req[q].digest # req[r].digest /\ req[q].sn # req[r].sn

\* An order that was never created has no quota and has registered nothing.
NoRowNoDevices ==
    \A o \in Orders : quotas[o].status = 0 => quotas[o].quota = 0 /\ quotas[o].registered = 0

\* What the requests in flight rely on, and what the committed rows satisfy.
ReqInv == TypeOK /\ OpenTxHasQuota /\ OneTxPerOrder /\ PendingRowsNew
RowInv == QuotaExact /\ SNUnique /\ AnswersStable /\ NoRowNoDevices /\ IsFiniteSet(maps)

IInv == ReqInv /\ RowInv

LiveReq == [pc : PCs, order : Orders, digest : Digests, sn : SNs]

\* The digest_maps row of an open transaction.
RowOf(r) == [digest |-> req[r].digest, sn |-> req[r].sn, order |-> req[r].order]

-----------------------------------------------------------------------------
\* A request that is not idle is a well-typed payload.
LEMMA LiveReqType ==
    ASSUME TypeOK, NEW r \in Requests, req[r].pc # "idle"
    PROVE  req[r] \in LiveReq
BY DEF TypeOK, NoReq, LiveReq

\* The committed rows are untouched by a step that leaves the tables alone.
LEMMA RowInvStable ==
    ASSUME RowInv, UNCHANGED <<quotas, maps, devices, answers>>
    PROVE  RowInv'
BY DEF RowInv, QuotaExact, SNUnique, AnswersStable, NoRowNoDevices

\* Empty tables and idle requests satisfy the strengthened invariant.
LEMMA InitIInv == Init => IInv
<1> SUFFICES ASSUME Init PROVE IInv
  OBVIOUS
<1>1. \A r \in Requests : ~ InTx(r) /\ ~ HasMapRow(r)
  BY DEF Init, InTx, HasMapRow, NoReq
<1>2. TypeOK
  BY <1>1, CF001Constants DEF Init, TypeOK, SNs
<1>3. OpenTxHasQuota /\ OneTxPerOrder /\ PendingRowsNew
  BY <1>1 DEF OpenTxHasQuota, OneTxPerOrder, PendingRowsNew
<1>4. \A o \in Orders : {m \in maps : m.order = o} = {}
  BY DEF Init
<1>5. Cardinality({}) = 0 /\ IsFiniteSet({})
  BY FS_EmptySet
<1>6. QuotaExact
  BY <1>4, <1>5 DEF Init, QuotaExact
<1>7. SNUnique /\ AnswersStable /\ NoRowNoDevices /\ IsFiniteSet(maps)
  BY <1>5 DEF Init, SNUnique, AnswersStable, NoRowNoDevices
<1> QED BY <1>2, <1>3, <1>6, <1>7 DEF IInv, ReqInv, RowInv

-----------------------------------------------------------------------------
(* Steps that change only a request.                                       *)

\* The request returns; the others keep what they have.
LEMMA ReturnReqInv ==
    ASSUME ReqInv, NEW r \in Requests, Return(r),
           UNCHANGED <<quotas, maps, devices>>,
           nonces' \subseteq Nonces, seq' \in SNs,
           answers' \subseteq Digests \X SNs, faults' \in 0 .. MaxFaults
    PROVE  ReqInv'
<1>1. \A q \in Requests : req'[q] = IF q = r THEN NoReq ELSE req[q]
  BY DEF Return, ReqInv, TypeOK
<1>2. ~ InTx(r)' /\ ~ HasMapRow(r)'
  BY <1>1 DEF InTx, HasMapRow, NoReq
<1>3. \A q \in Requests : /\ InTx(q)' => q # r /\ InTx(q)
                          /\ HasMapRow(q)' => q # r /\ HasMapRow(q)
  BY <1>1, <1>2 DEF InTx, HasMapRow
<1>4. TypeOK'
  <2>1. req' \in [Requests -> LiveReq \cup {NoReq}]
    BY DEF Return, ReqInv, TypeOK, LiveReq
  <2> QED BY <1>1, <1>3, <2>1 DEF ReqInv, TypeOK, LiveReq
<1>5. OpenTxHasQuota'
  BY <1>1, <1>3 DEF ReqInv, OpenTxHasQuota, Available
<1>6. OneTxPerOrder'
  BY <1>1, <1>3 DEF ReqInv, OneTxPerOrder
<1>7. PendingRowsNew'
  BY <1>1, <1>3 DEF ReqInv, PendingRowsNew
<1> QED BY <1>4, <1>5, <1>6, <1>7 DEF ReqInv

\* The request moves on inside its transaction, or outside of any. Only the
\* steps that open one or insert a row have something to show.
LEMMA GotoReqInv ==
    ASSUME ReqInv, NEW r \in Requests, NEW p \in PCs, Goto(r, p), req[r].pc # "idle",
           UNCHANGED <<quotas, maps, devices, nonces, seq, answers, faults>>,
           p \in {"seq", "map", "device", "commit"} =>
               InTx(r) \/ (~ Locked(req[r].order) /\ Available(req[r].order)),
           p \in {"device", "commit"} =>
               HasMapRow(r) \/ (~ MapKeyPending(r) /\ ~ MapKeyTaken(r))
    PROVE  ReqInv'
<1>0. req[r] \in LiveReq
  BY LiveReqType DEF ReqInv
<1>1. \A q \in Requests : q # r => req'[q] = req[q]
  BY DEF Goto, ReqInv, TypeOK
<1>2. /\ req'[r] \in LiveReq /\ req'[r].pc = p
      /\ req'[r].order = req[r].order
      /\ req'[r].digest = req[r].digest
      /\ req'[r].sn = req[r].sn
  BY <1>0 DEF Goto, ReqInv, TypeOK, LiveReq
<1>3. \A q \in Requests : /\ req'[q].order = req[q].order
                          /\ req'[q].digest = req[q].digest
                          /\ req'[q].sn = req[q].sn
  BY <1>1, <1>2
<1>4. \A q \in Requests : q # r => (InTx(q)' <=> InTx(q)) /\ (HasMapRow(q)' <=> HasMapRow(q))
  BY <1>1 DEF InTx, HasMapRow
<1>5. InTx(r)' => InTx(r) \/ (~ Locked(req[r].order) /\ Available(req[r].order))
  BY <1>2 DEF InTx
<1>6. HasMapRow(r)' => HasMapRow(r) \/ (~ MapKeyPending(r) /\ ~ MapKeyTaken(r))
  BY <1>2 DEF HasMapRow
<1>7. InTx(r)' => Available(req[r].order)
  BY <1>5 DEF ReqInv, OpenTxHasQuota
<1>8. TypeOK'
  <2>1. req' \in [Requests -> LiveReq \cup {NoReq}]
    BY <1>0 DEF Goto, ReqInv, TypeOK, LiveReq
  <2>2. \A q \in Requests : InTx(q)' => quotas[req[q].order].status # 0
    BY <1>4, <1>7 DEF ReqInv, TypeOK, Available
  <2> QED BY <2>1, <2>2, <1>3 DEF ReqInv, TypeOK, LiveReq
<1>9. OpenTxHasQuota'
  BY <1>3, <1>4, <1>7 DEF ReqInv, OpenTxHasQuota, Available
<1>10. OneTxPerOrder'
  BY <1>3, <1>4, <1>5 DEF ReqInv, OneTxPerOrder, Locked
<1>11. PendingRowsNew'
  BY <1>3, <1>4, <1>6 DEF ReqInv, PendingRowsNew, MapKeyPending, MapKeyTaken
<1> QED BY <1>8, <1>9, <1>10, <1>11 DEF ReqInv

\* INCR gives the request its number; it has no row yet.
LEMMA NextSeqReqInv ==
    ASSUME ReqInv, NEW r \in Requests, NextSeq(r)
    PROVE  ReqInv'
<1>0. req[r] \in LiveReq
  BY LiveReqType DEF ReqInv, NextSeq
<1>1. seq' \in SNs
  BY CF001Constants DEF ReqInv, TypeOK, NextSeq, SNs
<1>2. \A q \in Requests : q # r => req'[q] = req[q]
  BY DEF NextSeq, ReqInv, TypeOK
<1>3. req'[r] \in LiveReq /\ req'[r].pc = "map" /\ req'[r].order = req[r].order
  BY <1>0, <1>1 DEF NextSeq, ReqInv, TypeOK, LiveReq, PCs
<1>4. \A q \in Requests : /\ req'[q].order = req[q].order
                          /\ InTx(q)' => InTx(q)
                          /\ HasMapRow(q)' => q # r /\ HasMapRow(q)
  <2>1. InTx(r) /\ ~ HasMapRow(r)'
    BY <1>3 DEF InTx, HasMapRow, NextSeq
  <2> QED BY <1>2, <1>3, <2>1 DEF InTx, HasMapRow
<1>5. TypeOK'
  <2>1. req' \in [Requests -> LiveReq \cup {NoReq}]
    BY <1>2, <1>3 DEF NextSeq, ReqInv, TypeOK, LiveReq
  <2> QED BY <1>1, <1>4, <2>1 DEF NextSeq, ReqInv, TypeOK, LiveReq
<1>6. OpenTxHasQuota' /\ OneTxPerOrder'
  BY <1>4 DEF NextSeq, ReqInv, OpenTxHasQuota, OneTxPerOrder, Available
<1>7. PendingRowsNew'
  <2>1. maps' = maps
    BY DEF NextSeq
  <2> QED BY <1>2, <1>4, <2>1 DEF ReqInv, PendingRowsNew
<1> QED BY <1>5, <1>6, <1>7 DEF ReqInv

\* A new request is not in a transaction.
LEMMA AcceptReqInv ==
    ASSUME ReqInv, NEW r \in Requests, NEW o \in Orders, NEW d \in Digests,
           NEW n \in Nonces, Accept(r, o, d, n)
    PROVE  ReqInv'
<1>1. \A q \in Requests : q # r => req'[q] = req[q]
  BY DEF Accept, ReqInv, TypeOK
<1>2. req'[r] = [pc |-> "lookup", order |-> o, digest |-> d, sn |-> 0]
  BY DEF Accept, ReqInv, TypeOK
<1>3. \A q \in Requests : /\ InTx(q)' => q # r /\ InTx(q)
                          /\ HasMapRow(q)' => q # r /\ HasMapRow(q)
  BY <1>1, <1>2 DEF InTx, HasMapRow
<1>4. TypeOK'
  <2>1. req'[r] \in LiveReq
    BY <1>2, CF001Constants DEF LiveReq, PCs, SNs
  <2>2. req' \in [Requests -> LiveReq \cup {NoReq}]
    BY <2>1, <1>1 DEF Accept, ReqInv, TypeOK, LiveReq
  <2> QED BY <1>1, <1>3, <2>2 DEF Accept, ReqInv, TypeOK, LiveReq
<1>5. OpenTxHasQuota' /\ OneTxPerOrder'
  BY <1>1, <1>3 DEF Accept, ReqInv, OpenTxHasQuota, OneTxPerOrder, Available
<1>6. PendingRowsNew'
  BY <1>1, <1>3 DEF Accept, ReqInv, PendingRowsNew
<1> QED BY <1>4, <1>5, <1>6 DEF ReqInv

-----------------------------------------------------------------------------
(* Steps that change the tables.                                           *)

\* CreateQuota inserts a row that had none; AppendQuota waits for the row lock
\* and only adds room.
LEMMA QuotaIInv ==
    ASSUME IInv, NEW o \in Orders, NEW n \in Deltas,
           CreateQuota(o, n) \/ AppendQuota(o, n)
    PROVE  IInv'
<1> USE DEF IInv, ReqInv, RowInv
<1>0. n \in Nat /\ quotas[o] \in [quota : 0 .. MaxQuota, registered : Nat, status : 0 .. 2]
  BY CF001Constants DEF TypeOK
<1>1. /\ req' = req /\ maps' = maps /\ devices' = devices /\ nonces' = nonces
      /\ seq' = seq /\ answers' = answers /\ faults' = faults
  BY DEF CreateQuota, AppendQuota
<1>2. \A p \in Orders : p # o => quotas'[p] = quotas[p]
  BY DEF CreateQuota, AppendQuota, TypeOK
<1>3. \A r \in Requests : InTx(r) => req[r].order # o
  BY DEF CreateQuota, AppendQuota, Locked, TypeOK
<1>4. /\ quotas'[o].registered = quotas[o].registered
      /\ quotas'[o].quota \in 0 .. MaxQuota
      /\ quotas'[o].registered <= quotas'[o].quota
      /\ quotas'[o].status = 1
      /\ quotas' \in [Orders -> [quota : 0 .. MaxQuota, registered : Nat, status : 0 .. 2]]
  <2>1. CASE CreateQuota(o, n)
    <3>1. quotas'[o] = [quota |-> n, registered |-> 0, status |-> 1] /\ n \in 0 .. MaxQuota
      BY <2>1, <1>0, CF001Constants DEF CreateQuota, TypeOK
    <3>2. quotas[o].registered = 0
      BY <2>1 DEF CreateQuota, NoRowNoDevices
    <3>3. quotas' \in [Orders -> [quota : 0 .. MaxQuota, registered : Nat, status : 0 .. 2]]
      BY <2>1, <3>1 DEF CreateQuota, TypeOK
    <3> QED BY <3>1, <3>2, <3>3
  <2>2. CASE AppendQuota(o, n)
    <3> DEFINE q == [quota |-> quotas[o].quota + n, registered |-> quotas[o].registered,
                     status |-> 1]
    <3>1. quotas' = [quotas EXCEPT ![o] = q]
      BY <2>2 DEF AppendQuota
    <3>2. /\ quotas'[o].quota = quotas[o].quota + n
          /\ quotas'[o].registered = quotas[o].registered
          /\ quotas'[o].status = 1
      BY <3>1 DEF TypeOK
    <3>3. quotas[o].quota + n \in 0 .. MaxQuota
      BY <2>2, <1>0, CF001Constants DEF AppendQuota
    <3>4. quotas'[o].registered <= quotas'[o].quota
      <4>1. quotas[o].registered <= quotas[o].quota
        BY DEF QuotaExact
      <4> QED BY <3>2, <4>1, <1>0
    <3>5. q \in [quota : 0 .. MaxQuota, registered : Nat, status : 0 .. 2]
      BY <3>3, <1>0
    <3>6. quotas' \in [Orders -> [quota : 0 .. MaxQuota, registered : Nat, status : 0 .. 2]]
      BY <3>1, <3>5 DEF TypeOK
    <3> QED BY <3>2, <3>3, <3>4, <3>6
  <2> QED BY <2>1, <2>2
<1>5. \A r \in Requests : InTx(r)' => InTx(r) /\ req[r].order \in Orders \ {o}
  BY <1>1, <1>3, LiveReqType DEF InTx, LiveReq
<1>6. TypeOK'
  BY <1>1, <1>2, <1>4, <1>5 DEF TypeOK
<1>7. OpenTxHasQuota'
  BY <1>1, <1>2, <1>5 DEF OpenTxHasQuota, Available
<1>8. OneTxPerOrder' /\ PendingRowsNew'
  BY <1>1 DEF OneTxPerOrder, PendingRowsNew, InTx, HasMapRow
<1>9. QuotaExact'
  BY <1>1, <1>2, <1>4 DEF QuotaExact
<1>10. NoRowNoDevices'
  BY <1>2, <1>4 DEF NoRowNoDevices
<1>11. SNUnique' /\ AnswersStable' /\ IsFiniteSet(maps)'
  BY <1>1 DEF SNUnique, AnswersStable
<1> QED BY <1>6, <1>7, <1>8, <1>9, <1>10, <1>11

\* A repeated request answers with the committed row of its digest.
LEMMA LookupHitIInv ==
    ASSUME IInv, NEW r \in Requests, LookupHit(r)
    PROVE  IInv'
<1>1. PICK m \in maps : answers' = answers \cup {<<m.digest, m.sn>>}
  BY DEF LookupHit, Existing
<1>2. m.digest \in Digests /\ m.sn \in SNs
  BY DEF IInv, ReqInv, TypeOK
<1>3. answers' \subseteq Digests \X SNs
  BY <1>1, <1>2 DEF IInv, ReqInv, TypeOK
<1>4. ReqInv'
  BY <1>3, ReturnReqInv DEF LookupHit, IInv, ReqInv, TypeOK
<1>5. AnswersStable'
  BY <1>1 DEF LookupHit, IInv, RowInv, AnswersStable
<1>6. QuotaExact' /\ SNUnique' /\ NoRowNoDevices' /\ IsFiniteSet(maps)'
  BY DEF LookupHit, IInv, RowInv, QuotaExact, SNUnique, NoRowNoDevices
<1> QED BY <1>4, <1>5, <1>6 DEF IInv, RowInv

-----------------------------------------------------------------------------
(* Commit.                                                                 *)

\* The row a commit adds is new, so an order's rows grow by one exactly when it
\* is the order of the row.
LEMMA CommitRows ==
    ASSUME IInv, NEW r \in Requests, req[r].pc = "commit", NEW o \in Orders
    PROVE  /\ RowOf(r) \notin maps
           /\ Cardinality({m \in maps \cup {RowOf(r)} : m.order = o}) =
                Cardinality({m \in maps : m.order = o})
                  + IF o = req[r].order THEN 1 ELSE 0
           /\ Cardinality({m \in maps : m.order = o}) \in Nat
<1> DEFINE rows == {m \in maps : m.order = o}
<1>1. RowOf(r) \notin maps
  BY DEF IInv, ReqInv, PendingRowsNew, HasMapRow, RowOf
<1>2. IsFiniteSet(rows) /\ Cardinality(rows) \in Nat
  BY FS_Subset, FS_CardinalityType DEF IInv, RowInv
<1>3. RowOf(r).order = req[r].order
  BY DEF RowOf
<1>4. CASE o = req[r].order
  <2>1. {m \in maps \cup {RowOf(r)} : m.order = o} = rows \cup {RowOf(r)}
    BY <1>3, <1>4
  <2>2. Cardinality(rows \cup {RowOf(r)}) = Cardinality(rows) + 1
    BY <1>1, <1>2, FS_AddElement
  <2> QED BY <1>1, <1>2, <1>4, <2>1, <2>2
<1>5. CASE o # req[r].order
  <2>1. {m \in maps \cup {RowOf(r)} : m.order = o} = rows
    BY <1>3, <1>5
  <2>2. Cardinality(rows) = Cardinality(rows) + 0
    <3> HIDE DEF rows
    <3> QED BY <1>2
  <2> QED BY <1>1, <1>2, <1>5, <2>1, <2>2
<1> QED BY <1>4, <1>5

\* What a commit does to the order's row: it had room (OpenTxHasQuota).
LEMMA CommitQuota ==
    ASSUME IInv, NEW r \in Requests, req[r].pc = "commit", CommitEffect(r)
    PROVE  /\ req[r] \in LiveReq
           /\ \A o \in Orders : o # req[r].order => quotas'[o] = quotas[o]
           /\ quotas'[req[r].order] = Registered(quotas[req[r].order])
           /\ Registered(quotas[req[r].order]).registered
                = quotas[req[r].order].registered + 1
           /\ Registered(quotas[req[r].order]).registered
                <= Registered(quotas[req[r].order]).quota
           /\ Registered(quotas[req[r].order]).status \in {1, 2}
           /\ Registered(quotas[req[r].order]).status = 2 =>
                Registered(quotas[req[r].order]).registered
                  = Registered(quotas[req[r].order]).quota
           /\ quotas' \in [Orders -> [quota : 0 .. MaxQuota, registered : Nat, status : 0 .. 2]]
<1> DEFINE o == req[r].order
           q == quotas[o]
<1>1. req[r] \in LiveReq /\ o \in Orders
  BY LiveReqType DEF IInv, ReqInv, LiveReq
<1>2. q \in [quota : 0 .. MaxQuota, registered : Nat, status : 0 .. 2]
  BY <1>1 DEF IInv, ReqInv, TypeOK
<1>3. q.status = 1 /\ q.registered < q.quota
  BY DEF IInv, ReqInv, OpenTxHasQuota, InTx, Available
<1>4. /\ Registered(q).registered = q.registered + 1
      /\ Registered(q).registered <= Registered(q).quota
      /\ Registered(q).status \in {1, 2}
      /\ Registered(q).status = 2 => Registered(q).registered = Registered(q).quota
      /\ Registered(q) \in [quota : 0 .. MaxQuota, registered : Nat, status : 0 .. 2]
  BY <1>2, <1>3, CF001Constants DEF Registered
<1>5. quotas' = [quotas EXCEPT ![o] = Registered(q)]
  BY DEF CommitEffect
<1>6. quotas \in [Orders -> [quota : 0 .. MaxQuota, registered : Nat, status : 0 .. 2]]
  BY DEF IInv, ReqInv, TypeOK
<1>7. /\ quotas'[o] = Registered(q)
      /\ \A p \in Orders : p # o => quotas'[p] = quotas[p]
      /\ quotas' \in [Orders -> [quota : 0 .. MaxQuota, registered : Nat, status : 0 .. 2]]
  <2> HIDE DEF q
  <2> QED BY <1>1, <1>4, <1>5, <1>6
<1> QED BY <1>1, <1>4, <1>7

\* Both outcomes of COMMIT: the answer reaches the device or is lost.
LEMMA CommitIInv ==
    ASSUME IInv, NEW r \in Requests, req[r].pc = "commit", CommitEffect(r), Return(r),
           answers' \in {answers, answers \cup {<<req[r].digest, req[r].sn>>}},
           UNCHANGED <<nonces, seq>>, faults' \in 0 .. MaxFaults
    PROVE  IInv'
<1> DEFINE o == req[r].order
<1>1. /\ maps' = maps \cup {RowOf(r)}
      /\ devices' = devices \cup {[sn |-> req[r].sn, digest |-> req[r].digest]}
  BY DEF CommitEffect, RowOf
<1>2. /\ req[r] \in LiveReq /\ o \in Orders
      /\ req[r].digest \in Digests /\ req[r].sn \in SNs
      /\ RowOf(r) \in [digest : Digests, sn : SNs, order : Orders]
      /\ RowOf(r).digest = req[r].digest /\ RowOf(r).sn = req[r].sn /\ RowOf(r).order = o
  BY LiveReqType DEF IInv, ReqInv, LiveReq, RowOf
<1>3. \A q \in Requests : req'[q] = IF q = r THEN NoReq ELSE req[q]
  BY DEF Return, IInv, ReqInv, TypeOK
<1>4. \A q \in Requests : /\ InTx(q)' => q # r /\ InTx(q) /\ req'[q] = req[q]
                          /\ HasMapRow(q)' => q # r /\ HasMapRow(q) /\ req'[q] = req[q]
  <2>1. ~ InTx(r)' /\ ~ HasMapRow(r)'
    BY <1>3 DEF InTx, HasMapRow, NoReq
  <2> QED BY <1>3, <2>1 DEF InTx, HasMapRow
<1>5. \A q \in Requests : InTx(q)' => /\ req[q].order \in Orders \ {o}
                                      /\ quotas'[req[q].order] = quotas[req[q].order]
  <2> SUFFICES ASSUME NEW q \in Requests, InTx(q)'
               PROVE  /\ req[q].order \in Orders \ {o}
                      /\ quotas'[req[q].order] = quotas[req[q].order]
    OBVIOUS
  <2>1. q # r /\ InTx(q) /\ InTx(r)
    BY <1>4 DEF InTx
  <2>2. req[q].order # o
    BY <2>1 DEF IInv, ReqInv, OneTxPerOrder
  <2>3. req[q].order \in Orders
    BY <2>1, LiveReqType DEF IInv, ReqInv, LiveReq, InTx
  <2> QED BY <2>2, <2>3, CommitQuota
<1>6. TypeOK'
  <2>1. req' \in [Requests -> LiveReq \cup {NoReq}]
    BY <1>3 DEF Return, IInv, ReqInv, TypeOK, LiveReq
  <2>2. quotas' \in [Orders -> [quota : 0 .. MaxQuota, registered : Nat, status : 0 .. 2]]
    BY CommitQuota
  <2>3. \A q \in Requests : InTx(q)' => quotas'[req'[q].order].status # 0
    BY <1>4, <1>5 DEF IInv, ReqInv, TypeOK
  <2>4. maps' \subseteq [digest : Digests, sn : SNs, order : Orders]
    BY <1>1, <1>2 DEF IInv, ReqInv, TypeOK
  <2>5. devices' \subseteq [sn : SNs, digest : Digests]
    BY <1>1, <1>2 DEF IInv, ReqInv, TypeOK
  <2>6. answers' \subseteq Digests \X SNs
    BY <1>2 DEF IInv, ReqInv, TypeOK
  <2> QED BY <2>1, <2>2, <2>3, <2>4, <2>5, <2>6 DEF IInv, ReqInv, TypeOK, LiveReq
<1>7. OpenTxHasQuota'
  BY <1>4, <1>5 DEF IInv, ReqInv, OpenTxHasQuota, Available
<1>8. OneTxPerOrder'
  BY <1>4 DEF IInv, ReqInv, OneTxPerOrder
<1>9. PendingRowsNew'
  <2> SUFFICES ASSUME NEW q \in Requests, HasMapRow(q)'
               PROVE  /\ \A m \in maps' : m.digest # req[q].digest /\ m.sn # req[q].sn
                      /\ \A p \in Requests \ {q} : HasMapRow(p)' =>
                           req[p].digest # req[q].digest /\ req[p].sn # req[q].sn
    BY <1>4 DEF PendingRowsNew
  <2>1. q # r /\ HasMapRow(q) /\ HasMapRow(r)
    BY <1>4 DEF HasMapRow
  <2>2. req[r].digest # req[q].digest /\ req[r].sn # req[q].sn
    BY <2>1 DEF IInv, ReqInv, PendingRowsNew
  <2>3. \A m \in maps : m.digest # req[q].digest /\ m.sn # req[q].sn
    BY <2>1 DEF IInv, ReqInv, PendingRowsNew
  <2>4. \A p \in Requests \ {q} : HasMapRow(p)' =>
           req[p].digest # req[q].digest /\ req[p].sn # req[q].sn
    BY <2>1, <1>4 DEF IInv, ReqInv, PendingRowsNew
  <2> QED BY <1>1, <1>2, <2>2, <2>3, <2>4
<1>10. QuotaExact'
  <2> SUFFICES ASSUME NEW p \in Orders
               PROVE  /\ quotas'[p].registered <= quotas'[p].quota
                      /\ quotas'[p].registered = Cardinality({m \in maps' : m.order = p})
                      /\ quotas'[p].status = 2 => quotas'[p].registered = quotas'[p].quota
    BY DEF QuotaExact
  <2>1. Cardinality({m \in maps' : m.order = p}) =
           Cardinality({m \in maps : m.order = p}) + IF p = o THEN 1 ELSE 0
    BY <1>1, CommitRows
  <2>2. Cardinality({m \in maps : m.order = p}) \in Nat
    BY CommitRows
  <2>3. quotas[p].registered = Cardinality({m \in maps : m.order = p})
    BY DEF IInv, RowInv, QuotaExact
  <2>4. CASE p = o
    BY <2>1, <2>2, <2>3, <2>4, CommitQuota
  <2>5. CASE p # o
    <3>1. quotas'[p] = quotas[p]
      BY <2>5, CommitQuota
    <3> QED BY <2>1, <2>2, <2>3, <2>5, <3>1 DEF IInv, RowInv, QuotaExact
  <2> QED BY <2>4, <2>5
<1>11. SNUnique'
  <2>1. \A m \in maps : m.digest # RowOf(r).digest /\ m.sn # RowOf(r).sn
    BY <1>2 DEF IInv, ReqInv, PendingRowsNew, HasMapRow
  <2>2. \A m1, m2 \in maps' : m1.digest = m2.digest \/ m1.sn = m2.sn => m1 = m2
    BY <1>1, <2>1 DEF IInv, RowInv, SNUnique
  <2>3. devices' = {[sn |-> m.sn, digest |-> m.digest] : m \in maps'}
    BY <1>1, <1>2 DEF IInv, RowInv, SNUnique
  <2> QED BY <2>2, <2>3 DEF SNUnique
<1>12. AnswersStable'
  BY <1>1, <1>2 DEF IInv, RowInv, AnswersStable
<1>13. NoRowNoDevices'
  BY CommitQuota DEF IInv, RowInv, NoRowNoDevices
<1>14. IsFiniteSet(maps')
  BY <1>1, FS_AddElement DEF IInv, RowInv
<1> QED BY <1>6, <1>7, <1>8, <1>9, <1>10, <1>11, <1>12, <1>13, <1>14 DEF IInv, ReqInv, RowInv

-----------------------------------------------------------------------------
(* All steps.                                                              *)

\* Every step of Sign, Quota and the failures preserves the strengthened
\* invariant: one case per action.
LEMMA NextIInv == IInv /\ [Next]_vars => IInv'
<1> SUFFICES ASSUME IInv, [Next]_vars PROVE IInv'
  OBVIOUS
<1>1. CASE UNCHANGED vars
  BY <1>1 DEF vars, IInv, ReqInv, RowInv, TypeOK, OpenTxHasQuota, OneTxPerOrder, PendingRowsNew,
              QuotaExact, SNUnique, AnswersStable, NoRowNoDevices, InTx, HasMapRow, Available
<1>2. ASSUME NEW r \in Requests, LookupMiss(r)
      PROVE  IInv'
  <2>1. ReqInv'
    BY <1>2, GotoReqInv DEF LookupMiss, IInv, PCs
  <2> QED BY <1>2, <2>1, RowInvStable DEF LookupMiss, IInv
<1>3. ASSUME NEW r \in Requests, TakeQuota(r)
      PROVE  IInv'
  <2>1. ReqInv'
    BY <1>3, GotoReqInv DEF TakeQuota, IInv, PCs
  <2> QED BY <1>3, <2>1, RowInvStable DEF TakeQuota, IInv
<1>4. ASSUME NEW r \in Requests, NextSeq(r)
      PROVE  IInv'
  BY <1>4, NextSeqReqInv, RowInvStable DEF NextSeq, IInv
<1>5. ASSUME NEW r \in Requests, InsertMap(r) \/ InsertMapDuplicate(r)
      PROVE  IInv'
  <2>1. ReqInv'
    BY <1>5, GotoReqInv DEF InsertMap, InsertMapDuplicate, IInv, PCs, InTx
  <2> QED BY <1>5, <2>1, RowInvStable DEF InsertMap, InsertMapDuplicate, IInv
<1>6. ASSUME NEW r \in Requests, NoQuota(r) \/ RelookupMiss(r)
      PROVE  IInv'
  <2>1. ReqInv'
    BY <1>6, ReturnReqInv DEF NoQuota, RelookupMiss, IInv, ReqInv, TypeOK
  <2> QED BY <1>6, <2>1, RowInvStable DEF NoQuota, RelookupMiss, IInv
<1>7. ASSUME NEW r \in Requests, InsertDevice(r)
      PROVE  IInv'
  <2>1. CASE Return(r)
    BY <1>7, <2>1, ReturnReqInv, RowInvStable DEF InsertDevice, IInv, ReqInv, TypeOK
  <2>2. CASE Goto(r, "commit")
    BY <1>7, <2>2, GotoReqInv, RowInvStable DEF InsertDevice, IInv, PCs, InTx, HasMapRow
  <2> QED BY <1>7, <2>1, <2>2 DEF InsertDevice
<1>8. ASSUME NEW r \in Requests, Commit(r)
      PROVE  IInv'
  BY <1>8, CommitIInv DEF Commit, IInv, ReqInv, TypeOK
<1>9. ASSUME NEW r \in Requests, CommitAnswerLost(r)
      PROVE  IInv'
  <2>1. faults' \in 0 .. MaxFaults
    BY <1>9, CF001Constants DEF CommitAnswerLost, Fault, IInv, ReqInv, TypeOK
  <2> QED BY <1>9, <2>1, CommitIInv DEF CommitAnswerLost
<1>10. ASSUME NEW r \in Requests, Fail(r)
       PROVE  IInv'
  <2>1. faults' \in 0 .. MaxFaults
    BY <1>10, CF001Constants DEF Fail, Fault, IInv, ReqInv, TypeOK
  <2>2. ReqInv'
    BY <1>10, <2>1, ReturnReqInv DEF Fail, IInv, ReqInv, TypeOK
  <2> QED BY <1>10, <2>2, RowInvStable DEF Fail, IInv
<1>11. CASE RedisReset
  <2>1. faults' \in 0 .. MaxFaults /\ seq' \in SNs /\ nonces' \subseteq Nonces
    BY <1>11, CF001Constants DEF RedisReset, Fault, IInv, ReqInv, TypeOK, SNs
  <2>2. ReqInv'
    BY <1>11, <2>1 DEF RedisReset, IInv, ReqInv, TypeOK, OpenTxHasQuota, OneTxPerOrder,
                       PendingRowsNew, InTx, HasMapRow, Available
  <2> QED BY <1>11, <2>2, RowInvStable DEF RedisReset, IInv
<1>12. ASSUME NEW r \in Requests, NEW o \in Orders, NEW d \in Digests, NEW n \in Nonces,
              Accept(r, o, d, n)
       PROVE  IInv'
  BY <1>12, AcceptReqInv, RowInvStable DEF Accept, IInv
<1>13. CASE Next
  BY <1>13, <1>2, <1>3, <1>4, <1>5, <1>6, <1>7, <1>8, <1>9, <1>10, <1>11, <1>12,
     QuotaIInv, LookupHitIInv DEF Next
<1> QED BY <1>1, <1>13

-----------------------------------------------------------------------------
\* The strengthened invariant holds whatever the requests, AppendQuota and the
\* failures interleave to.
THEOREM Inductive == Spec => []IInv
BY InitIInv, NextIInv, PTL DEF Spec

\* cf001-svc keeps the types of its tables, of the Redis counter and of every
\* request.
THEOREM TypeCorrect == Spec => []TypeOK
<1>1. IInv => TypeOK
  BY DEF IInv, ReqInv
<1> QED BY <1>1, Inductive, PTL

\* The conditional UPDATE of Sign never oversells an order, and its counter is
\* the number of devices registered under it.
THEOREM NeverOversold == Spec => []QuotaExact
<1>1. IInv => QuotaExact
  BY DEF IInv, RowInv
<1> QED BY <1>1, Inductive, PTL

\* The row lock keeps the unit an open transaction took available to it.
THEOREM OpenTxKeepsUnit == Spec => []OpenTxHasQuota
<1>1. IInv => OpenTxHasQuota
  BY DEF IInv, ReqInv
<1> QED BY <1>1, Inductive, PTL

\* A device has one SN and an SN one device, even after Redis lost the day's
\* counter.
THEOREM OneSNPerDevice == Spec => []SNUnique
<1>1. IInv => SNUnique
  BY DEF IInv, RowInv
<1> QED BY <1>1, Inductive, PTL

\* Every answer Sign ever gave is the committed one.
THEOREM AnswersNeverChange == Spec => []AnswersStable
<1>1. IInv => AnswersStable
  BY DEF IInv, RowInv
<1> QED BY <1>1, Inductive, PTL

\* A step of the service uses as many units of an order as it registers devices
\* under it: repeated requests are free.
THEOREM RepeatIsFree == Spec => OneUnitPerDevice
<1> DEFINE Exact == \A o \in Orders :
                      quotas'[o].registered - quotas[o].registered =
                        Cardinality({m \in maps' \ maps : m.order = o})
<1>1. ASSUME IInv, UNCHANGED maps,
             \A o \in Orders : quotas'[o].registered = quotas[o].registered
      PROVE  Exact
  <2> SUFFICES ASSUME NEW o \in Orders
               PROVE  quotas'[o].registered - quotas[o].registered =
                        Cardinality({m \in maps' \ maps : m.order = o})
    OBVIOUS
  <2>1. {m \in maps' \ maps : m.order = o} = {}
    BY <1>1
  <2>2. quotas[o].registered \in Nat
    BY <1>1 DEF IInv, ReqInv, TypeOK
  <2> QED BY <1>1, <2>1, <2>2, FS_EmptySet
<1>2. ASSUME IInv, NEW r \in Requests, req[r].pc = "commit", CommitEffect(r)
      PROVE  Exact
  <2> SUFFICES ASSUME NEW o \in Orders
               PROVE  quotas'[o].registered - quotas[o].registered =
                        Cardinality({m \in maps' \ maps : m.order = o})
    OBVIOUS
  <2>1. maps' \ maps = {RowOf(r)} /\ RowOf(r).order = req[r].order
    BY <1>2, CommitRows DEF CommitEffect, RowOf
  <2>2. quotas[o].registered \in Nat
    BY <1>2 DEF IInv, ReqInv, TypeOK
  <2>3. CASE o = req[r].order
    <3>1. {m \in maps' \ maps : m.order = o} = {RowOf(r)}
      BY <2>1, <2>3
    <3>2. quotas'[o].registered = quotas[o].registered + 1
      BY <1>2, <2>3, CommitQuota
    <3>3. Cardinality({m \in maps' \ maps : m.order = o}) = 1
      BY <3>1, FS_Singleton
    <3> QED BY <2>2, <3>2, <3>3
  <2>4. CASE o # req[r].order
    <3>1. {m \in maps' \ maps : m.order = o} = {}
      BY <2>1, <2>4
    <3>2. quotas'[o].registered = quotas[o].registered
      BY <1>2, <2>4, CommitQuota
    <3>3. Cardinality({m \in maps' \ maps : m.order = o}) = 0
      BY <3>1, FS_EmptySet
    <3> QED BY <2>2, <3>2, <3>3
  <2> QED BY <2>3, <2>4
<1>3. ASSUME IInv, NEW o \in Orders, NEW n \in Deltas, CreateQuota(o, n) \/ AppendQuota(o, n)
      PROVE  Exact
  <2>1. \A p \in Orders : quotas'[p].registered = quotas[p].registered
    BY <1>3 DEF CreateQuota, AppendQuota, IInv, ReqInv, RowInv, TypeOK, NoRowNoDevices
  <2> QED BY <1>1, <1>3, <2>1 DEF CreateQuota, AppendQuota
<1>4. ASSUME IInv, [Next]_vars PROVE [Exact]_vars
  <2>1. CASE UNCHANGED vars
    BY <2>1
  <2>2. CASE Next
    <3>1. CASE \E r \in Requests : Commit(r) \/ CommitAnswerLost(r)
      BY <1>2, <1>4, <3>1 DEF Commit, CommitAnswerLost
    <3>2. CASE \E o \in Orders, n \in Deltas : CreateQuota(o, n) \/ AppendQuota(o, n)
      BY <1>3, <1>4, <3>2
    <3>3. CASE UNCHANGED <<quotas, maps>>
      BY <1>1, <1>4, <3>3
    <3> QED
      BY <2>2, <3>1, <3>2, <3>3
         DEF Next, Accept, LookupHit, LookupMiss, TakeQuota, NoQuota, NextSeq, InsertMap,
             InsertMapDuplicate, RelookupMiss, InsertDevice, Fail, RedisReset
  <2> QED BY <1>4, <2>1, <2>2
<1> QED BY <1>4, Inductive, PTL DEF Spec, OneUnitPerDevice

-----------------------------------------------------------------------------
(* The refinement. A commit is an activation, CreateQuota and AppendQuota  *)
(* are grants, a lookup that hits is a repeated answer; all other steps,   *)
(* rollbacks among them, do not show.                                      *)

\* An open transaction commits a device that is new, with an SN that is new,
\* under an order that still has a unit.
LEMMA CommitActivates ==
    ASSUME IInv, NEW r \in Requests, req[r].pc = "commit", CommitEffect(r),
           answers' \in {answers, answers \cup {<<req[r].digest, req[r].sn>>}}
    PROVE  Act!Next
<1> DEFINE o == req[r].order
           d == req[r].digest
           s == req[r].sn
           left == [p \in Orders |-> quotas[p].quota - quotas[p].registered]
<1>1. o \in Orders /\ d \in Digests /\ s \in SNs
  BY LiveReqType DEF IInv, ReqInv, LiveReq
<1>2. \A m \in maps : m.digest # d /\ m.sn # s
  BY DEF IInv, ReqInv, PendingRowsNew, HasMapRow
<1>3. left[o] \in Int /\ left[o] > 0
  BY <1>1 DEF IInv, ReqInv, TypeOK, OpenTxHasQuota, InTx, Available
<1>4. left' = [left EXCEPT ![o] = @ - 1]
  BY <1>1 DEF CommitEffect, Registered, IInv, ReqInv, TypeOK
<1>5. Act!Activate(o, d, s)
  BY <1>1, <1>2, <1>3, <1>4 DEF Act!Activate, CommitEffect
<1> HIDE DEF o, d, s, left
<1>6. \E p \in Orders, e \in Digests, t \in SNs : Act!Activate(p, e, t)
  BY <1>1, <1>5 DEF Act!Activate
<1> QED BY <1>6 DEF Act!Next

\* CreateQuota and AppendQuota only top an order up.
LEMMA QuotaGrants ==
    ASSUME IInv, NEW o \in Orders, NEW n \in Deltas, CreateQuota(o, n) \/ AppendQuota(o, n)
    PROVE  [Act!Next]_(Act!vars)
<1> DEFINE left == [p \in Orders |-> quotas[p].quota - quotas[p].registered]
<1>1. n \in Nat /\ \A p \in Orders : left[p] \in Nat
  <2>1. n \in Nat /\ MaxQuota \in Nat
    BY CF001Constants
  <2>2. \A p \in Orders : quotas[p].quota \in 0 .. MaxQuota /\ quotas[p].registered \in Nat
    BY DEF IInv, ReqInv, TypeOK
  <2>3. \A p \in Orders : quotas[p].registered <= quotas[p].quota
    BY DEF IInv, RowInv, QuotaExact
  <2> QED BY <2>1, <2>2, <2>3
<1>2. left'[o] = left[o] + n /\ \A p \in Orders \ {o} : quotas'[p] = quotas[p]
  BY <1>1 DEF CreateQuota, AppendQuota, IInv, ReqInv, RowInv, TypeOK, NoRowNoDevices
<1>3. UNCHANGED <<maps, answers>>
  BY DEF CreateQuota, AppendQuota
<1>4. CASE n = 0
  <2>1. left' = left
    BY <1>1, <1>2, <1>4
  <2> QED BY <2>1, <1>3 DEF Act!vars
<1>5. CASE n # 0
  <2>1. left' \in [Orders -> Nat]
    BY <1>1, <1>2 DEF IInv, ReqInv, TypeOK
  <2>2. left'[o] > left[o] /\ \A p \in Orders \ {o} : left'[p] = left[p]
    BY <1>1, <1>2, <1>5
  <2>3. Act!Grant(o)
    BY <2>1, <2>2, <1>3 DEF Act!Grant
  <2> QED BY <2>3 DEF Act!Next
<1> QED BY <1>4, <1>5

\* Sign implements Activation: with any number of requests, orders and failures
\* the outside sees grants, single activations and repeated answers only.
THEOREM SignImplementsActivation == Spec => ImplementsActivation
<1>1. Init => Act!Init
  BY DEF Init, Act!Init
<1>2. ASSUME IInv, [Next]_vars PROVE [Act!Next]_(Act!vars)
  <2>1. CASE UNCHANGED <<quotas, maps, answers>>
    BY <2>1 DEF Act!vars
  <2>2. CASE \E r \in Requests : Commit(r) \/ CommitAnswerLost(r)
    BY <1>2, <2>2, CommitActivates DEF Commit, CommitAnswerLost
  <2>3. CASE \E o \in Orders, n \in Deltas : CreateQuota(o, n) \/ AppendQuota(o, n)
    BY <1>2, <2>3, QuotaGrants
  <2>4. CASE \E r \in Requests : LookupHit(r)
    <3>1. PICK r \in Requests : LookupHit(r)
      BY <2>4
    <3>2. PICK m \in maps : answers' = answers \cup {<<m.digest, m.sn>>}
      BY <3>1 DEF LookupHit, Existing
    <3>3. Act!Repeat(m)
      BY <3>1, <3>2 DEF LookupHit, Act!Repeat
    <3> QED BY <3>3 DEF Act!Next
  <2> QED
    BY <1>2, <2>1, <2>2, <2>3, <2>4
       DEF Next, vars, Accept, LookupMiss, TakeQuota, NoQuota, NextSeq, InsertMap,
           InsertMapDuplicate, RelookupMiss, InsertDevice, Fail, RedisReset
<1> QED BY <1>1, <1>2, Inductive, PTL DEF Spec, ImplementsActivation, Act!Spec
=============================================================================
