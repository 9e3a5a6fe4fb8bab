------------------------------ MODULE Services ------------------------------
(***************************************************************************)
(* The services that keep and use the users' marks, and the lock their     *)
(* batches run behind, side by side: pglock (PgLock), job-svc (Job),       *)
(* reco-job (Reco), param-svc (Param), the requests and the batch of       *)
(* health-svc (HealthApi, Health) and the filter round of accessory-svc    *)
(* (Filter). They share no variable.                                       *)
(***************************************************************************)
EXTENDS PgLock, FiniteSets, Sequences

CONSTANTS
    SNs, Jobs, Owner, Events, Workers, Marks, MaxFlips, MaxJobFaults,
    Rounds, Recos, Power, Official, MinSamples, MinDistinctSN, MaxPerDeviceDay, GoodPct, TopN, TopPct,
    SafetyMinAbs, MaxMoves, MaxRecoFaults,
    Publishers, Asks, Recommendations, DiffMaxCount, ForceFullBehind, MaxVersion, MaxLost,
    Codes, Users, MaxScans, Threshold, Window, Reminders, Unsent, Orders, MaxTime, MaxCalls,
    NumDevices, Busy, Models, Rated, OverPenalty, Cooldown, FuseNum, FuseDen, MaxNow, MaxUpsets,
    MaxOverlaps, MaxRoundFaults,
    Backfill, RatedVolume, MaxHour

VARIABLES
    desired, reported, record, finished, feedback, pending, todo, work, mark, purge, recon, raced,
    flips, jobFaults,
    marks, day, uparam, official, jobs, status, recoRnd, condemned, moves, recoFaults,
    profiles, nextId, releases, files, reco, pub, client, torn, lost,
    time, codeStatus, scans, attr,
    now, hours, module, tele, over, shadow, row, explain, reminders, rnd, rewound, worked, upsets,
    overlaps, roundFaults,
    hour, ran, purifier, life, round, late, filterUpsets

J == INSTANCE Job WITH MaxFaults <- MaxJobFaults, faults <- jobFaults
R == INSTANCE Reco WITH MaxFaults <- MaxRecoFaults, faults <- recoFaults, rnd <- recoRnd
P == INSTANCE Param WITH Recos <- Recommendations
A == INSTANCE HealthApi WITH status <- codeStatus
H == INSTANCE Health WITH MaxFaults <- MaxRoundFaults, faults <- roundFaults
F == INSTANCE Filter WITH shadow <- purifier, upsets <- filterUpsets

ASSUME ServiceConstants ==
    /\ J!JobConstants /\ R!RecoConstants /\ P!ParamConstants /\ A!ApiConstants
    /\ H!HealthConstants /\ F!FilterConstants

-----------------------------------------------------------------------------
(* Properties of the parts                                                 *)

(* A round deletes only records of devices that lacked consent during it   *)
(* (NeedPurge, ViolatingSNs).                                              *)
PurgeNeedsWithdrawal == J!PurgeNeedsWithdrawal

(* A mark stays pending beside its record only after a race (HandleEvent,  *)
(* Feedback).                                                              *)
StrandedMarkRaced == J!StrandedMarkRaced

(* What a round has taken back never comes back (upsertRecommendation,     *)
(* safetyPass).                                                            *)
CondemnedStaysRemoved == R!CondemnedStaysRemoved

(* The marks are counted right in whatever order they are read             *)
(* (Aggregate).                                                            *)
AggregateSound == R!AggregateSound

(* A release is what was asked for unless another one slipped in between   *)
(* (Publish, Rollback).                                                    *)
ReleaseSound == P!ReleaseSound

(* A client holds the profiles of the version it names (Delta,             *)
(* snapshotFor).                                                           *)
ClientInSync == P!ClientInSync

(* A code is verified at most MaxScans times in a window and an order is   *)
(* attributed to one sent reminder (ConsumeScan, Attribute).               *)
CodesAndOrdersSound == A!CodesAndOrdersSound

(* No hour of work is charged twice (RunOnce, Score).                      *)
NeverOvercharged == H!NeverOvercharged

(* A reminder is repeated only by rounds that overlap (DecideReminder).    *)
DuplicateNeedsOverlap == H!DuplicateNeedsOverlap

(* Each hour the filter ran is charged once (runDevice, last_hour).        *)
FilterExact == F!FilterExact
=============================================================================
