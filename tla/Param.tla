------------------------------- MODULE Param -------------------------------
(***************************************************************************)
(* param-svc (internal/param): releases of the parameter library of one    *)
(* product. An operator's Publish or Rollback reads the library, makes a   *)
(* plan, and carries it out in a transaction that takes the advisory lock  *)
(* of the product, writes the snapshot file before it commits and may lose *)
(* its session at any moment. A client follows with deltas or snapshots.   *)
(*                                                                         *)
(* One module model and one material; params are a power and the way it is *)
(* written in JSON; speeds, notes and the names of approvers are left out. *)
(* reco-job and the operators move param_recommendation (Reco.tla).        *)
(***************************************************************************)
EXTENDS Naturals, FiniteSets, SequencesExt

CONSTANTS
    Publishers,    \* concurrent Publish or Rollback requests
    Asks,          \* what operators ask for: [power, drop, pct]: an official profile
                   \* (0: none), instead of the newest profile if drop, at a rollout
    Recos,         \* recommendations: [power, lit], lit "int" for 80, "dec" for 80.0
    DiffMaxCount,  \* violations a release may have without force
    ForceFullBehind,
    MaxVersion,    \* bound: releases
    MaxLost        \* bound: lost sessions, crashes and failed statements

ParamConstants ==
    /\ Asks \subseteq [power : Nat, drop : BOOLEAN, pct : Nat]
    /\ Recos \subseteq [power : Nat, lit : {"int", "dec"}] /\ IsFiniteSet(Recos)
    /\ {DiffMaxCount, ForceFullBehind, MaxVersion} \subseteq Nat

VARIABLES
    profiles,  \* param_profile: [id, src, params, added, removed], removed 0 for NULL
    nextId,    \* its identity sequence
    releases,  \* param_release by version, with history: base, forced
    files,     \* files[v]: the profiles in v{v}.json, NoFile without one
    reco,      \* param_recommendation.status, "absent" without a row
    pub,       \* pub[w]: locals of Publish and Rollback
    client,    \* version, etag, profiles held; its request; whether it has a bucket
    torn,      \* history: snapshots written by a session that was already lost
    lost

library == <<profiles, nextId, releases>>
vars == <<library, files, reco, pub, client, torn, lost>>

Versions == 1 .. MaxVersion
NoFile == {[id |-> 0, src |-> "", params |-> [power |-> 0, lit |-> ""]]}
IdlePub == [pc |-> "idle", base |-> 0, remove |-> {}, add |-> {}, known |-> {}, pct |-> 100,
            forced |-> FALSE, to |-> 0, ver |-> 0, rows |-> {}, snap |-> {}, live |-> TRUE]

Init ==
    /\ profiles = {} /\ nextId = 1 /\ releases = <<>>
    /\ files = [v \in Versions |-> NoFile]
    /\ reco = [r \in Recos |-> "absent"]
    /\ pub = [w \in Publishers |-> IdlePub]
    /\ client = [ver |-> 0, etag |-> 0, have |-> {}, full |-> 0, member |-> TRUE,
                 pc |-> "idle", tag |-> 0, to |-> 0]
    /\ torn = {} /\ lost = 0

Latest == Len(releases)
Fault == lost < MaxLost /\ lost' = lost + 1

-----------------------------------------------------------------------------
(* model.go                                                                *)

IsEffective(p, v) == p.added <= v /\ (p.removed = 0 \/ p.removed > v)
EffectiveAt(ps, v) == {p \in ps : IsEffective(p, v)}

\* What a client or a snapshot holds of a profile
Shown(ps) == {[id |-> p.id, src |-> p.src, params |-> p.params] : p \in ps}
Content(ps) == {<<p.src, p.params>> : p \in ps}

\* Mutant: removed profiles are not listed.
DeltaAddsOnly(ps, since, to) ==
    [removed |-> {}, added |-> {p \in ps : ~IsEffective(p, since) /\ IsEffective(p, to)}]

\* Delta, applied by the client: removed first, then added
Delta(ps, since, to) ==
    [removed |-> {p \in ps : IsEffective(p, since) /\ ~IsEffective(p, to)},
     added   |-> {p \in ps : ~IsEffective(p, since) /\ IsEffective(p, to)}]

\* DiffValidate: against the profile of the same source with the highest id
Far(o, n) == (IF n > o THEN n - o ELSE o - n) * 100 > o * 30
OldByKey(old, src) == {p \in old : p.src = src /\ \A q \in old : q.src = src => q.id <= p.id}
DiffValidate(old, next) ==
    {n \in next : \E o \in OldByKey(old, n.src) : Far(o.params.power, n.params.power)}

\* Mutant: what came after the target stays.
RollbackPlanReaddsOnly(current, target) ==
    [remove |-> {}, readd |-> target \ current]

\* RollbackPlan
RollbackPlan(current, target) ==
    [remove |-> current \ target, readd |-> target \ current]

\* param.CanonicalHash reads numbers as float64, reco.CanonicalHash keeps
\* them as they are written, and params_hash is the latter's.
CanonicalHash(p) == <<p.power, "int">>
ParamsHash(r) == <<r.power, r.lit>>

\* VisibleVersion: releases below 100 % are seen only by clients with a
\* bucket; this client's bucket is low enough for all of them.
Visible(member) == Max({v \in 1 .. Latest : member \/ releases[v].pct >= 100} \cup {0})

-----------------------------------------------------------------------------
(* Publish and Rollback up to their plan                                   *)

At(w, pc) == pub[w].pc = pc
Room == Latest + Cardinality({w \in Publishers : ~At(w, "idle")}) < MaxVersion
Pub(w, f) == pub' = [pub EXCEPT ![w] = f]

\* A row to be added; tag tells copies of equal profiles apart.
NewRow(src, params, tag) == [src |-> src, params |-> params, tag |-> tag]
OfficialRow(power) == NewRow("official", [power |-> power, lit |-> "int"], 0)

\* The profiles are read and the request is checked against them; with more
\* violations than allowed it goes on only when it is forced.
Publish(w) ==
    /\ At(w, "idle") /\ Room
    /\ \E ask \in Asks :
         LET old == EffectiveAt(profiles, Latest)
             remove == {p \in old : ask.drop /\ \A q \in old : q.id <= p.id}
             add == {OfficialRow(x) : x \in {ask.power} \ {0}}
             forced == Cardinality(DiffValidate(old, (old \ remove) \cup add)) > DiffMaxCount
         IN Pub(w, [IdlePub EXCEPT !.pc = "recos", !.base = Latest, !.remove = {p.id : p \in remove},
                      !.add = add, !.pct = ask.pct, !.forced = forced,
                      !.known = {CanonicalHash(p.params) : p \in {q \in old \ remove : q.src = "recommended"}}])
    /\ UNCHANGED <<library, files, reco, client, torn, lost>>

\* PublishedRecommendations, merged unless a recommended profile that stays
\* has the same hash
MergeRecos(w) ==
    /\ At(w, "recos")
    /\ LET new == {r \in Recos : reco[r] = "published" /\ ParamsHash(r) \notin pub[w].known}
       IN Pub(w, [pub[w] EXCEPT !.pc = "lock", !.known = {},
                    !.add = @ \cup {NewRow("recommended", r, 0) : r \in new}])
    /\ UNCHANGED <<library, files, reco, client, torn, lost>>

\* Rollback reads the releases, then the profiles
Rollback(w) ==
    /\ At(w, "idle") /\ Room
    /\ \E to \in 1 .. Latest : Pub(w, [IdlePub EXCEPT !.pc = "plan", !.base = Latest, !.to = to])
    /\ UNCHANGED <<library, files, reco, client, torn, lost>>

PlanRollback(w) ==
    /\ At(w, "plan")
    /\ LET plan == RollbackPlan(EffectiveAt(profiles, pub[w].base), EffectiveAt(profiles, pub[w].to))
       IN Pub(w, [pub[w] EXCEPT !.pc = "lock", !.remove = {p.id : p \in plan.remove},
                    !.add = {NewRow(p.src, p.params, p.id) : p \in plan.readd}])
    /\ UNCHANGED <<library, files, reco, client, torn, lost>>

-----------------------------------------------------------------------------
(* Store.Publish                                                           *)

Holds(w) == pub[w].pc \in {"snap", "commit"} /\ pub[w].live

\* The rows of a plan, with the ids the sequence gives them
Rows(add, ver) ==
    LET s == SetToSeq(add)
    IN {[id |-> nextId + i - 1, src |-> s[i].src, params |-> s[i].params, added |-> ver, removed |-> 0] :
          i \in DOMAIN s}
Applied(ps, remove, ver, rows) ==
    {[p EXCEPT !.removed = IF p.id \in remove THEN ver ELSE @] : p \in ps} \cup rows

\* Everything up to the reloaded set; a profile that was removed since the
\* plan was made ends the transaction (the UPDATE finds no row).
BeginTx(w) ==
    LET ver == Latest + 1
        rows == Rows(pub[w].add, ver)
    IN /\ At(w, "lock") /\ ver \in Versions /\ \A v \in Publishers : ~Holds(v)
       /\ IF \E p \in profiles : p.id \in pub[w].remove /\ p.removed # 0
          THEN Pub(w, IdlePub) /\ UNCHANGED nextId
          ELSE /\ nextId' = nextId + Cardinality(rows)
               /\ Pub(w, [pub[w] EXCEPT !.pc = "snap", !.ver = ver, !.add = {}, !.rows = rows,
                            !.snap = Shown(EffectiveAt(Applied(profiles, pub[w].remove, ver, rows), ver))])
       /\ UNCHANGED <<profiles, releases, files, reco, client, torn, lost>>

\* snapshotFor: the file is renamed into place before the COMMIT
WriteSnapshot(w) ==
    /\ At(w, "snap") /\ Pub(w, [pub[w] EXCEPT !.pc = "commit"])
    /\ files' = [files EXCEPT ![pub[w].ver] = pub[w].snap]
    /\ torn' = IF pub[w].live THEN torn ELSE torn \cup {pub[w].ver}
    /\ UNCHANGED <<library, reco, client, lost>>

Release(w) == [pct |-> IF pub[w].to = 0 THEN pub[w].pct ELSE 100, to |-> pub[w].to,
               base |-> pub[w].base, forced |-> pub[w].forced]

Commit(w) ==
    /\ At(w, "commit") /\ Pub(w, IdlePub)
    /\ IF pub[w].live
       THEN /\ profiles' = Applied(profiles, pub[w].remove, pub[w].ver, pub[w].rows)
            /\ releases' = Append(releases, Release(w))
       ELSE UNCHANGED <<profiles, releases>>
    /\ UNCHANGED <<nextId, files, reco, client, torn, lost>>

\* The connection breaks: the lock is free before the process finds out.
LoseSession(w) ==
    /\ Holds(w) /\ Fault /\ Pub(w, [pub[w] EXCEPT !.live = FALSE])
    /\ UNCHANGED <<library, files, reco, client, torn>>

\* A crash, a failed statement, a refused constraint
Fails(w) ==
    /\ ~At(w, "idle") /\ Fault /\ Pub(w, IdlePub)
    /\ UNCHANGED <<library, files, reco, client, torn>>

-----------------------------------------------------------------------------
(* param_recommendation, as param-svc sees it                              *)

RecoMoves(r) ==
    /\ \/ reco[r] = "absent" /\ reco' = [reco EXCEPT ![r] = "published"]
       \/ reco[r] = "published" /\ reco' = [reco EXCEPT ![r] = "removed"]
    /\ UNCHANGED <<library, files, pub, client, torn, lost>>

-----------------------------------------------------------------------------
(* GET /api/v1/params: one request in three reads                          *)

Client(c) == client' = c /\ UNCHANGED <<library, files, reco, pub, torn, lost>>
AtClient(pc) == client.pc = pc

\* The etag is of this first look; an etag that still holds is answered 304.
SyncLatest ==
    /\ AtClient("idle") /\ Visible(client.member) \notin {0, client.etag}
    /\ Client([client EXCEPT !.pc = "delta", !.tag = Visible(client.member)])

\* Service.Delta looks again; a client ahead of what it may see gets an error.
SyncDelta ==
    /\ AtClient("delta")
    /\ LET to == Visible(client.member)
       IN Client(IF client.ver > to THEN [client EXCEPT !.pc = "idle", !.tag = 0]
                 ELSE [client EXCEPT !.to = to,
                         !.pc = IF to - client.ver > ForceFullBehind THEN "fetch" ELSE "apply"])

\* Mutant: the etag is of the moment the answer is sent.
SyncedNewEtag(have, full) == [client EXCEPT !.pc = "idle", !.ver = client.to, !.etag = Visible(client.member),
                                !.have = have, !.full = full, !.tag = 0, !.to = 0]

Synced(have, full) == [client EXCEPT !.pc = "idle", !.ver = client.to, !.etag = client.tag,
                         !.have = have, !.full = full, !.tag = 0, !.to = 0]

SyncApply ==
    /\ AtClient("apply")
    /\ LET d == Delta(profiles, client.ver, client.to)
       IN Client(Synced({h \in client.have : \A p \in d.removed : p.id # h.id} \cup Shown(d.added), client.full))

SyncFetch ==
    /\ AtClient("fetch") /\ Client(Synced(files[client.to], client.to))

\* The user logs in or out
SwitchBucket == AtClient("idle") /\ Client([client EXCEPT !.member = ~@])

Sync == SyncLatest \/ SyncDelta \/ SyncApply \/ SyncFetch
Publisher(w) == MergeRecos(w) \/ PlanRollback(w) \/ BeginTx(w) \/ WriteSnapshot(w) \/ Commit(w)

Next ==
    \/ \E w \in Publishers : Publish(w) \/ Rollback(w) \/ Publisher(w) \/ LoseSession(w) \/ Fails(w)
    \/ \E r \in Recos : RecoMoves(r)
    \/ Sync \/ SwitchBucket

Spec == Init /\ [][Next]_vars

-----------------------------------------------------------------------------
(* Properties                                                              *)

TypeOK ==
    /\ \A p \in profiles : p.id < nextId /\ p.added \in 1 .. Latest /\ p.removed \in 0 .. Latest
    /\ \A p, q \in profiles : p.id = q.id => p = q
    /\ Latest \in 0 .. MaxVersion /\ torn \subseteq Versions
    /\ reco \in [Recos -> {"absent", "published", "removed"}]
    /\ \A w \in Publishers : pub[w].pc \in {"idle", "recos", "plan", "lock", "snap", "commit"}
    /\ client.ver \in 0 .. Latest /\ client.etag \in 0 .. Latest

Eff(v) == EffectiveAt(profiles, v)
Fresh(v) == releases[v].base = v - 1
\* Official profiles that are far from the old one, and a recommendation that
\* is there twice with one hash
Jumps(old, next) == {n \in next : n.src = "official" /\ \E o \in OldByKey(old, "official") :
                                                           Far(o.params.power, n.params.power)}
Twice(ps) == \E p, q \in ps : p # q /\ p.src = "recommended" /\ q.src = "recommended"
                              /\ p.params = q.params /\ p.params.lit = "int"

(* Unless another release slipped in between an operator's reads and its   *)
(* transaction, a release is what was asked for: a rollback has exactly    *)
(* the profiles of its target, and no more than DiffMaxCount official      *)
(* powers jump by more than 30 % without force. A recommendation whose     *)
(* hash the two services agree on is in the library twice only after such  *)
(* a release (Publish, Rollback, pg_advisory_xact_lock).                   *)
ReleaseSound ==
    \A v \in 1 .. Latest :
        /\ Fresh(v) /\ releases[v].to # 0 =>
             /\ Content(Eff(v)) = Content(Eff(releases[v].to))
             /\ Cardinality(Eff(v)) = Cardinality(Eff(releases[v].to))
        /\ Fresh(v) /\ releases[v].to = 0 /\ ~releases[v].forced =>
             Cardinality(Jumps(Eff(v - 1), Eff(v))) <= DiffMaxCount
        /\ Twice(Eff(v)) => \E u \in 1 .. v : ~Fresh(u)

(* A client holds exactly the profiles of the version it names, whichever  *)
(* mix of deltas, snapshots, rollouts and changes of its bucket it has     *)
(* gone through and whatever was released meanwhile; only a snapshot       *)
(* written by a session already lost can differ from its release (Delta,   *)
(* snapshotFor, SnapshotFn before COMMIT).                                 *)
ClientInSync ==
    /\ client.full \notin torn => client.have = Shown(Eff(client.ver))
    /\ \A v \in 1 .. Latest : v \notin torn => files[v] = Shown(Eff(v))

(* A client that stays logged in, or out, ends up at the version it may    *)
(* see, or is past it: an etag older than the body it came with never      *)
(* leaves it behind (ETag and If-None-Match of GET /api/v1/params).        *)
ClientCatchesUp ==
    (<>[]client.member \/ <>[]~client.member) => <>[](client.ver >= Visible(client.member))
=============================================================================
