------------------------------ MODULE Pairing ------------------------------
(***************************************************************************)
(* accessory-svc's pairings (internal/accessory): the requests that pair,  *)
(* unpair and switch the linkage of an accessory, the cache of a host's    *)
(* pairings that the linkage engine reads (Linkage.tla), and the           *)
(* OwnerReconciler, which switches off the linkage of pairings whose two   *)
(* devices no longer have an owner in common.                              *)
(*                                                                         *)
(* A request checks the owners in two statements before its transaction,   *)
(* and drops the cache of its own host after it. The devices exist and a   *)
(* request pairs with linkage on, which is the default. paired_sn in the   *)
(* desired document, off delays, pair keys and the timers Unpair cancels   *)
(* are left out.                                                           *)
(***************************************************************************)
EXTENDS Naturals, FiniteSets, SequencesExt

CONSTANTS
    Hosts, Accs, Users,
    Requests,      \* POST, DELETE and PATCH /api/v1/pairings
    Moving,        \* devices whose owners change
    MaxMoves,      \* bound: changes of device_binding
    MaxFaults      \* bound: failed statements, crashes of a handler or a round

VARIABLES
    owners,   \* device_binding: owners[d], the users device d is bound to
    pairs,    \* accessory_pairing, by id: [host, acc, on, active]
    cache,    \* pairing:host:{sn} in Redis
    fill,     \* fill[h]: what CachedPairings has read of host h and will SET
    req,      \* req[q]: locals of a request; cur the row FOR UPDATE found
    recon,    \* locals of OwnerReconciler.RunOnce
    moves, faults

vars == <<owners, pairs, cache, fill, req, recon, moves, faults>>

NoRow == 0
NoOne == "none"
NoCache == {[id |-> NoRow, acc |-> NoOne, on |-> FALSE]}   \* no key in Redis
Devices == Hosts \cup Accs
NewReq == [pc |-> "new", host |-> NoOne, acc |-> NoOne, seen |-> {}, cur |-> NoRow]
IdleRecon == [pc |-> "idle", list |-> {}, on |-> {}, known |-> {}, owners |-> [d \in Devices |-> {}]]

\* One user has all the devices, and has paired an accessory already.
Init ==
    /\ owners = [d \in Devices |-> {CHOOSE u \in Users : TRUE}]
    /\ pairs = <<[host |-> CHOOSE h \in Hosts : TRUE, acc |-> CHOOSE a \in Accs : TRUE,
                  on |-> TRUE, active |-> TRUE]>>
    /\ cache = [h \in Hosts |-> NoCache]
    /\ fill = [h \in Hosts |-> NoCache]
    /\ req = [q \in Requests |-> NewReq]
    /\ recon = IdleRecon
    /\ moves = 0 /\ faults = 0

Fault == faults < MaxFaults /\ faults' = faults + 1

\* A device is bound, unbound or transferred; members of a family share one.
Rebind(d) ==
    /\ moves < MaxMoves /\ moves' = moves + 1
    /\ \E users \in (SUBSET Users) \ {owners[d]} : owners' = [owners EXCEPT ![d] = users]
    /\ UNCHANGED <<pairs, cache, fill, req, recon, faults>>

-----------------------------------------------------------------------------
(* Pair                                                                    *)

At(q, pc) == req[q].pc = pc
Goto(q, pc) == req' = [req EXCEPT ![q].pc = pc]
Ends(q) == req' = [req EXCEPT ![q] = [NewReq EXCEPT !.pc = "done"]]

Active(a) == {i \in DOMAIN pairs : pairs[i].active /\ pairs[i].acc = a}
Locked(i) == \E q \in Requests : At(q, "write") /\ req[q].cur = i

\* A device without a binding passes: the BFF is to check.
OwnersConsistent(ho, ao) == ho = {} \/ ao = {} \/ ho \cap ao # {}

HostOwners(q, h, a) ==
    /\ At(q, "new")
    /\ req' = [req EXCEPT ![q] = [NewReq EXCEPT !.pc = "owners", !.host = h, !.acc = a, !.seen = owners[h]]]
    /\ UNCHANGED <<owners, pairs, cache, fill, recon, moves, faults>>

CheckOwners(q) ==
    /\ At(q, "owners")
    /\ IF OwnersConsistent(req[q].seen, owners[req[q].acc])
       THEN req' = [req EXCEPT ![q].pc = "lookup", ![q].seen = {}] ELSE Ends(q)
    /\ UNCHANGED <<owners, pairs, cache, fill, recon, moves, faults>>

\* SELECT ... FOR UPDATE. It waits for the lock of another request, and after
\* that looks only at the row it waited for: paired anew meanwhile, it is gone.
Lookup(q) ==
    /\ At(q, "lookup")
    /\ LET cur == Max(Active(req[q].acc) \cup {NoRow})
       IN req' = [req EXCEPT ![q].pc = IF cur # NoRow /\ Locked(cur) THEN "wait" ELSE "write", ![q].cur = cur]
    /\ UNCHANGED <<owners, pairs, cache, fill, recon, moves, faults>>

LockGranted(q) ==
    /\ At(q, "wait") /\ ~Locked(req[q].cur)
    /\ req' = [req EXCEPT ![q].pc = "write", ![q].cur = IF pairs[@].active THEN @ ELSE NoRow]
    /\ UNCHANGED <<owners, pairs, cache, fill, recon, moves, faults>>

\* The rest of the transaction: the same host is answered as it is, another one
\* is replaced, and the partial unique index refuses a second active row.
Paired(q) ==
    LET new == [host |-> req[q].host, acc |-> req[q].acc, on |-> TRUE, active |-> TRUE]
        cur == req[q].cur
    IN CASE cur = NoRow -> Append(pairs, new)
         [] cur # NoRow /\ pairs[cur].host = req[q].host -> pairs
         [] OTHER -> Append([pairs EXCEPT ![cur].active = FALSE], new)

WritePair(q) ==
    /\ At(q, "write")
    /\ IF req[q].cur = NoRow /\ Active(req[q].acc) # {}
       THEN Ends(q) /\ UNCHANGED pairs
       ELSE pairs' = Paired(q) /\ Goto(q, "del")
    /\ UNCHANGED <<owners, cache, fill, recon, moves, faults>>

-----------------------------------------------------------------------------
(* Unpair and Update: one statement each, then the cache                   *)

Change(q, i, p) ==
    /\ At(q, "new") /\ pairs[i].active /\ ~Locked(i)
    /\ pairs' = [pairs EXCEPT ![i] = p]
    /\ req' = [req EXCEPT ![q] = [NewReq EXCEPT !.pc = "del", !.host = pairs[i].host]]
    /\ UNCHANGED <<owners, cache, fill, recon, moves, faults>>
Unpair(q, i) == Change(q, i, [pairs[i] EXCEPT !.active = FALSE])
UpdatePairing(q, i) == \E on \in BOOLEAN : Change(q, i, [pairs[i] EXCEPT !.on = on])

\* InvalidatePairings, of the host in the request
Invalidate(q) ==
    /\ At(q, "del") /\ Ends(q)
    /\ cache' = [cache EXCEPT ![req[q].host] = NoCache]
    /\ UNCHANGED <<owners, pairs, fill, recon, moves, faults>>

\* A failed statement, a failed DEL, a crash
RequestFails(q) ==
    /\ req[q].pc \notin {"new", "done"} /\ Fault /\ Ends(q)
    /\ UNCHANGED <<owners, pairs, cache, fill, recon, moves>>

-----------------------------------------------------------------------------
(* CachedPairings                                                          *)

\* PairingsByHost
OfHost(h) == {[id |-> i, acc |-> pairs[i].acc, on |-> pairs[i].on] :
                i \in {j \in DOMAIN pairs : pairs[j].active /\ pairs[j].host = h}}

ReadPairings(h) ==
    /\ cache[h] = NoCache /\ fill[h] = NoCache
    /\ fill' = [fill EXCEPT ![h] = OfHost(h)]
    /\ UNCHANGED <<owners, pairs, cache, req, recon, moves, faults>>

SetCache(h) ==
    /\ fill[h] # NoCache /\ fill' = [fill EXCEPT ![h] = NoCache]
    /\ cache' = [cache EXCEPT ![h] = fill[h]]
    /\ UNCHANGED <<owners, pairs, req, recon, moves, faults>>

Expires(h) ==
    /\ cache[h] # NoCache /\ cache' = [cache EXCEPT ![h] = NoCache]
    /\ UNCHANGED <<owners, pairs, fill, req, recon, moves, faults>>

-----------------------------------------------------------------------------
(* OwnerReconciler.RunOnce                                                 *)

Recon(f) == recon' = f /\ UNCHANGED <<owners, fill, req, moves>>
AtRecon(pc) == recon.pc = pc
Row == Min(recon.list)
Past(f) == IF f.list = {Row} THEN IdleRecon ELSE [f EXCEPT !.pc = "host", !.list = @ \ {Row}]

\* AllActivePairings
ReconList ==
    /\ AtRecon("idle")
    /\ LET list == {i \in DOMAIN pairs : pairs[i].active}
       IN /\ list # {}
          /\ Recon([IdleRecon EXCEPT !.pc = "host", !.list = list, !.on = {i \in list : pairs[i].on}])
    /\ UNCHANGED <<pairs, cache, faults>>

\* lookup: a device is looked up once in a round
Known(d) == IF d \in recon.known THEN recon.owners[d] ELSE owners[d]
Learn(d) == [recon EXCEPT !.known = @ \cup {d}, !.owners[d] = Known(d)]

ReconHost ==
    /\ AtRecon("host") /\ Recon([Learn(pairs[Row].host) EXCEPT !.pc = "acc"])
    /\ UNCHANGED <<pairs, cache, faults>>

\* Mutant: a device without a binding is left to the BFF, as Pair does.
OwnerDriftBothBound(ho, ao) == ~OwnersConsistent(ho, ao)

\* OwnerDrift, with OwnersConsistent for families: here no binding is a drift
OwnerDrift(ho, ao) == ho = {} \/ ao = {} \/ ~OwnersConsistent(ho, ao)

ReconAcc ==
    /\ AtRecon("acc")
    /\ LET seen == Learn(pairs[Row].acc)
           drift == OwnerDrift(seen.owners[pairs[Row].host], seen.owners[pairs[Row].acc])
       IN Recon(IF ~drift \/ Row \notin recon.on THEN Past(seen)
                ELSE IF recon.list = {Row} THEN [IdleRecon EXCEPT !.pc = "disable", !.list = {Row}]
                ELSE [seen EXCEPT !.pc = "disable"])
    /\ UNCHANGED <<pairs, cache, faults>>

\* Linkage is stopped, the pairing stays; a row that is gone is an error.
ReconDisable ==
    /\ AtRecon("disable") /\ ~Locked(Row)
    /\ IF pairs[Row].active
       THEN pairs' = [pairs EXCEPT ![Row].on = FALSE] /\ Recon([recon EXCEPT !.pc = "del"])
       ELSE Recon(Past(recon)) /\ UNCHANGED pairs
    /\ UNCHANGED <<cache, faults>>

ReconInvalidate ==
    /\ AtRecon("del") /\ Recon(Past(recon))
    /\ cache' = [cache EXCEPT ![pairs[Row].host] = NoCache]
    /\ UNCHANGED <<pairs, faults>>

\* A failed statement is counted and the round goes on; a crash ends it.
ReconFails ==
    /\ ~AtRecon("idle") /\ Fault
    /\ \E f \in {Past(recon), IdleRecon} : Recon(f)
    /\ UNCHANGED <<pairs, cache>>

-----------------------------------------------------------------------------
RequestStep(q) == CheckOwners(q) \/ Lookup(q) \/ LockGranted(q) \/ WritePair(q) \/ Invalidate(q)
Ask(q) == \/ \E h \in Hosts, a \in Accs : HostOwners(q, h, a)
          \/ \E i \in DOMAIN pairs : Unpair(q, i) \/ UpdatePairing(q, i)
Reconciler == ReconList \/ ReconHost \/ ReconAcc \/ ReconDisable \/ ReconInvalidate

Next ==
    \/ \E d \in Moving : Rebind(d)
    \/ \E q \in Requests : Ask(q) \/ RequestStep(q) \/ RequestFails(q)
    \/ \E h \in Hosts : ReadPairings(h) \/ SetCache(h) \/ Expires(h)
    \/ Reconciler \/ ReconFails

Spec == Init /\ [][Next]_vars

(* A handler runs to its end, a reader of the cache writes what it has     *)
(* read, a key expires (PairingCacheTTL), and the reconciler's ticker goes *)
(* on (OwnerReconciler.Run).                                               *)
Fairness ==
    /\ \A q \in Requests : WF_vars(RequestStep(q))
    /\ \A h \in Hosts : WF_vars(SetCache(h)) /\ WF_vars(Expires(h))
    /\ WF_vars(Reconciler)
FairSpec == Spec /\ Fairness

-----------------------------------------------------------------------------
(* Properties                                                              *)

TypeOK ==
    /\ owners \in [Devices -> SUBSET Users]
    /\ \A i \in DOMAIN pairs : pairs[i] \in [host : Hosts, acc : Accs, on : BOOLEAN, active : BOOLEAN]
    /\ \A a \in Accs : Cardinality(Active(a)) <= 1
    /\ \A q \in Requests : req[q].pc \in {"new", "owners", "lookup", "wait", "write", "del", "done"}
    /\ recon.list \subseteq DOMAIN pairs /\ moves \in 0 .. MaxMoves /\ faults \in 0 .. MaxFaults

\* What the engine is told of host h
Told(h) == IF cache[h] = NoCache THEN OfHost(h) ELSE cache[h]

(* INC-2-06: when a host and an accessory end up without a common owner,   *)
(* the engine ends up not linking them, whoever paired, switched or        *)
(* transferred them in between, and although re-pairing leaves the cache   *)
(* of the old host alone and a slow reader may SET what a request has just *)
(* dropped (OwnerReconciler, PairingCacheTTL).                             *)
CrossOwnerStops ==
    \A h \in Hosts, a \in Accs :
        <>[](owners[h] \cap owners[a] = {}) => <>[](\A p \in Told(h) : p.acc = a => ~p.on)
=============================================================================
