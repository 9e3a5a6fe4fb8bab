----------------------------- MODULE MCServices -----------------------------
(* Instances of Services. A behaviour is one of one part, chosen from Parts*)
(* in its first state; the other parts stay as they begin. "sync" is       *)
(* param-svc with two operators and a client (sessions may be lost),       *)
(* "library" the same without clients and failures, with one more release  *)
(* and a recommendation; "codes" and "orders" are requests of health-svc;  *)
(* "aggregate" is reco-job's marks and days alone, every order of the rows.*)
EXTENDS Services, TLC

CONSTANTS
    r1, r2, s1, s2, s3, s4, j1, m1,
    Parts,         \* the parts a run is about
    SyncVersions,  \* bound: releases of "sync"
    RecoMarks      \* bound: marks of "reco"; one move is left for a user parameter

VARIABLE part

MCPoolOf == [s \in Sessions |-> IF s \in {s1, s2} THEN r1 ELSE r2]

MCOwner == [j \in Jobs |-> CHOOSE s \in SNs : TRUE]
MCEvents == [job : Jobs, code : {"start", "done"}]
MCMarks == [job : Jobs, sn : SNs]

(* A first profile, one that replaces it by another power for half of the  *)
(* users, and a release that only takes recommendations up.                *)
MCAsks == {[power |-> 10, drop |-> FALSE, pct |-> 100], [power |-> 20, drop |-> TRUE, pct |-> 50],
           [power |-> 0, drop |-> FALSE, pct |-> 100]}
MCRecommendations == {[power |-> 11, lit |-> "int"]}

\* A power that one official profile allows and another does not
MCPower == [r \in Recos |-> 11]

\* For MCBatches: two replicas, and two devices of reco-job, behave alike there.
\* What tells them apart, MCPoolOf and MCOwner, belongs to parts that stay still.
MCSymmetry == Permutations(Replicas) \cup Permutations(SNs)

jobVars == <<desired, reported, record, finished, feedback, pending, todo, work, mark, purge, recon,
             raced, flips, jobFaults>>
recoVars == <<marks, day, uparam, official, jobs, status, recoRnd, condemned, moves, recoFaults>>
paramVars == <<profiles, nextId, releases, files, reco, pub, client, torn, lost>>
apiVars == <<time, codeStatus, scans, attr>>
healthVars == <<now, hours, module, tele, over, shadow, row, explain, reminders, rnd, rewound, worked,
                upsets, overlaps, roundFaults>>
filterVars == <<hour, ran, purifier, life, round, late, filterUpsets>>

MCInit ==
    /\ Init /\ J!Init /\ R!Init /\ P!Init /\ A!Init /\ H!Init /\ F!Init
    /\ part \in Parts
    /\ part # "job" => \A s \in SNs : reported[s] = "true"
    /\ part # "reco" => official = 10

Releasing(w) == P!Publish(w) \/ P!Rollback(w)
SyncNext ==
    \/ \E w \in Publishers :
         \/ /\ Len(releases) + Cardinality({v \in Publishers : pub[v].pc # "idle"}) < SyncVersions
            /\ Releasing(w)
         \/ P!Publisher(w) \/ P!LoseSession(w) \/ P!Fails(w)
    \/ P!Sync \/ P!SwitchBucket
LibraryNext ==
    \/ \E w \in Publishers : Releasing(w) \/ P!Publisher(w)
    \/ \E r \in Recommendations : P!RecoMoves(r)
MarksNext ==
    /\ R!Move /\ UNCHANGED <<recoRnd, condemned, recoFaults>>
    /\ R!NextDay \/ \E s \in SNs : R!Mark(s, m1)

Unchanged(others) == UNCHANGED <<others, part>>

MCNext ==
    \/ /\ part = "lock" /\ Next
       /\ Unchanged(<<jobVars, recoVars, paramVars, apiVars, healthVars, filterVars>>)
    \/ /\ part = "job" /\ J!Next
       /\ Unchanged(<<vars, recoVars, paramVars, apiVars, healthVars, filterVars>>)
    \/ /\ \/ part = "reco" /\ R!Next /\ Len(marks') <= RecoMarks
          \/ part = "aggregate" /\ MarksNext
       /\ Unchanged(<<vars, jobVars, paramVars, apiVars, healthVars, filterVars>>)
    \/ /\ \/ part = "sync" /\ SyncNext
          \/ part = "library" /\ LibraryNext
       /\ Unchanged(<<vars, jobVars, recoVars, apiVars, healthVars, filterVars>>)
    \/ /\ \/ part = "codes" /\ (A!Tick \/ A!CodeStep)
          \/ part = "orders" /\ (A!Tick \/ A!OrderStep)
       /\ Unchanged(<<vars, jobVars, recoVars, paramVars, healthVars, filterVars>>)
    \/ /\ part = "health" /\ H!Next
       /\ Unchanged(<<vars, jobVars, recoVars, paramVars, apiVars, filterVars>>)
    \/ /\ part = "filter" /\ F!Next
       /\ Unchanged(<<vars, jobVars, recoVars, paramVars, apiVars, healthVars>>)

MCSpec ==
    MCInit /\ [][MCNext]_<<vars, jobVars, recoVars, paramVars, apiVars, healthVars, filterVars, part>>

(* PgLock!FairSpec; the consumers, the requests and the purger of job-svc  *)
(* keep running, and so do a client and a handler of param-svc.            *)
MCFairSpec ==
    /\ MCSpec
    /\ \A r \in Replicas : WF_vars(part = "lock" /\ Loop(r)) /\ WF_vars(part = "lock" /\ Restart(r))
    /\ \A s \in Sessions : WF_vars(part = "lock" /\ BackendExit(s))
    /\ \A w \in Workers : WF_jobVars(part = "job" /\ J!Consumer(w))
    /\ \A m \in Marks : WF_jobVars(part = "job" /\ J!Request(m))
    /\ WF_jobVars(part = "job" /\ J!Purger)
    /\ WF_paramVars(part = "sync" /\ P!Sync)
    /\ \A w \in Publishers : WF_paramVars(part = "sync" /\ P!Publisher(w))

(* PgLock!TaskKeepsRunning: some replica runs the task again and again     *)
(* (pglock.go Every).                                                      *)
TaskRunsAgain == []<>(part # "lock" \/ \E r \in Replicas : pc[r] = "run")

(* Job!WithdrawnIsForgotten: a user who withdraws and stays away is        *)
(* forgotten (PurgeOnce, PurgeSN).                                         *)
WithdrawnIsForgotten ==
    \A s \in SNs : <>[](part = "job" => desired[s] = "false") => <>[](part = "job" => J!Forgotten(s))

(* Param!ClientCatchesUp: a client ends up at the version it may see       *)
(* (ETag and If-None-Match of GET /api/v1/params).                         *)
ClientCatchesUp ==
    (<>[]client.member \/ <>[]~client.member) =>
        <>[](part = "sync" => client.ver >= P!Visible(client.member))
=============================================================================
