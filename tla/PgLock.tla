------------------------------- MODULE PgLock -------------------------------
(***************************************************************************)
(* internal/pkg/pglock: single-instance election of a periodic task with a *)
(* session-level PostgreSQL advisory lock. Every replica runs Every: check *)
(* or take the lock (Ensure), run one round of the task if it is held,     *)
(* sleep for an interval; on shutdown Release.                             *)
(*                                                                         *)
(* A session is a connection of a replica's pool. The client's and the     *)
(* server's ends of it fail separately: "half" is a session the client can *)
(* no longer use but whose backend still lives (and still holds its        *)
(* locks), "dead" one whose backend is gone while the client has not       *)
(* noticed.                                                                *)
(***************************************************************************)
EXTENDS Naturals

CONSTANTS
    Replicas,     \* processes running the same periodic task
    Sessions,     \* connections of all the pools
    PoolOf,       \* PoolOf[s]: the replica whose pool s belongs to
    None,         \* nil
    MaxFaults     \* bound: connection failures, failed statements and crashes

ASSUME PgLockConstants ==
    /\ PoolOf \in [Sessions -> Replicas]
    /\ None \notin Sessions
    /\ MaxFaults \in Nat

VARIABLES
    lock,     \* server: the session that owns the advisory lock
    sess,     \* sess[s]: "none", "up", "half" or "dead"
    conn,     \* conn[r]: Guard.conn of replica r
    pc,       \* pc[r]: where Every is
    faults

vars == <<lock, sess, conn, pc, faults>>

Init ==
    /\ lock = None
    /\ sess = [s \in Sessions |-> "none"]
    /\ conn = [r \in Replicas |-> None]
    /\ pc = [r \in Replicas |-> "ensure"]
    /\ faults = 0

Fault == faults < MaxFaults /\ faults' = faults + 1

AfterCloseKept(s) == IF sess[s] = "dead" THEN "none" ELSE "up"

\* What is left of session s once the client has closed or lost it: a backend
\* that is still there ends later, on its own.
AfterClose(s) == IF sess[s] = "dead" THEN "none" ELSE "half"

\* A session pool.Acquire may hand to replica r: an idle one or a new one.
Acquirable(r, s) == PoolOf[s] = r /\ conn[r] # s /\ sess[s] \in {"none", "up"}

-----------------------------------------------------------------------------
(* Ensure.                                                                 *)

\* Already held and the Ping answers.
EnsurePing(r) ==
    /\ pc[r] = "ensure" /\ conn[r] # None
    /\ sess[conn[r]] = "up"
    /\ pc' = [pc EXCEPT ![r] = "run"]
    /\ UNCHANGED <<lock, sess, conn, faults>>

\* The Ping fails: the connection is closed, never put back into the pool, and
\* Ensure goes on to take the lock again on another one.
EnsurePingFails(r) ==
    /\ pc[r] = "ensure" /\ conn[r] # None
    /\ sess[conn[r]] \in {"half", "dead"}
    /\ sess' = [sess EXCEPT ![conn[r]] = AfterClose(conn[r])]
    /\ conn' = [conn EXCEPT ![r] = None]
    /\ UNCHANGED <<lock, pc, faults>>

TryLockIgnoresResult(r, s) ==
    /\ pc[r] = "ensure" /\ conn[r] = None /\ Acquirable(r, s)
    /\ sess' = [sess EXCEPT ![s] = "up"]
    /\ lock' = IF lock = None THEN s ELSE lock
    /\ conn' = [conn EXCEPT ![r] = s]
    /\ pc' = [pc EXCEPT ![r] = "run"]
    /\ UNCHANGED faults

\* pg_try_advisory_lock: true if the lock is free (or already this session's).
TryLock(r, s) ==
    /\ pc[r] = "ensure" /\ conn[r] = None /\ Acquirable(r, s)
    /\ sess' = [sess EXCEPT ![s] = "up"]
    /\ IF lock \in {None, s}
         THEN /\ lock' = s
              /\ conn' = [conn EXCEPT ![r] = s]
              /\ pc' = [pc EXCEPT ![r] = "run"]
         ELSE /\ pc' = [pc EXCEPT ![r] = "sleep"]
              /\ UNCHANGED <<lock, conn>>
    /\ UNCHANGED faults

\* Acquire fails, or the query does: this round is skipped. A query fails when
\* its connection breaks, and the server may have granted the lock by then.
TryLockErr(r) ==
    /\ pc[r] = "ensure" /\ conn[r] = None
    /\ Fault
    /\ pc' = [pc EXCEPT ![r] = "sleep"]
    /\ \/ UNCHANGED <<lock, sess>>
       \/ \E s \in Sessions :
            /\ Acquirable(r, s)
            /\ sess' = [sess EXCEPT ![s] = "half"]
            /\ lock' \in {lock, IF lock = None THEN s ELSE lock}
    /\ UNCHANGED conn

-----------------------------------------------------------------------------
(* The loop of Every around Ensure.                                        *)

\* fn returns. It works on other connections of the pool, so it does not
\* notice what happens to the one that holds the lock.
RunDone(r) ==
    /\ pc[r] = "run"
    /\ pc' = [pc EXCEPT ![r] = "sleep"]
    /\ UNCHANGED <<lock, sess, conn, faults>>

Wake(r) ==
    /\ pc[r] = "sleep"
    /\ pc' = [pc EXCEPT ![r] = "ensure"]
    /\ UNCHANGED <<lock, sess, conn, faults>>

ReleaseWithoutUnlock(r) ==
    /\ pc[r] = "sleep"
    /\ pc' = [pc EXCEPT ![r] = "stopped"]
    /\ conn' = [conn EXCEPT ![r] = None]
    /\ UNCHANGED <<lock, sess, faults>>

\* Shutdown: pg_advisory_unlock, then the connection goes back to the pool; if
\* the statement fails the connection is closed instead.
Release(r) ==
    /\ pc[r] = "sleep"
    /\ pc' = [pc EXCEPT ![r] = "stopped"]
    /\ conn' = [conn EXCEPT ![r] = None]
    /\ IF conn[r] # None /\ sess[conn[r]] = "up"
         THEN /\ lock' = None
              /\ UNCHANGED sess
         ELSE /\ sess' = IF conn[r] = None THEN sess
                         ELSE [sess EXCEPT ![conn[r]] = AfterClose(conn[r])]
              /\ UNCHANGED lock
    /\ UNCHANGED faults

\* The process is started again.
Restart(r) ==
    /\ pc[r] = "stopped"
    /\ pc' = [pc EXCEPT ![r] = "ensure"]
    /\ UNCHANGED <<lock, sess, conn, faults>>

-----------------------------------------------------------------------------
(* Failures.                                                               *)

\* The replica dies; its backends notice later.
Crash(r) ==
    /\ pc[r] # "stopped"
    /\ Fault
    /\ pc' = [pc EXCEPT ![r] = "stopped"]
    /\ conn' = [conn EXCEPT ![r] = None]
    /\ sess' = [s \in Sessions |->
                  IF PoolOf[s] = r /\ sess[s] \in {"up", "dead"} THEN AfterClose(s) ELSE sess[s]]
    /\ UNCHANGED lock

\* The network path of a session breaks; the backend lives on for a while.
Break(s) ==
    /\ sess[s] = "up"
    /\ Fault
    /\ sess' = [sess EXCEPT ![s] = "half"]
    /\ UNCHANGED <<lock, conn, pc>>

\* The backend of a session ends by itself (terminated, timed out) or because
\* its client is gone: its locks are released.
UsedByGuard(s) == \E r \in Replicas : conn[r] = s

BackendExit(s) ==
    /\ sess[s] = "half"
    /\ sess' = [sess EXCEPT ![s] = IF UsedByGuard(s) THEN "dead" ELSE "none"]
    /\ lock' = IF lock = s THEN None ELSE lock
    /\ UNCHANGED <<conn, pc, faults>>

Terminate(s) ==
    /\ sess[s] = "up"
    /\ Fault
    /\ sess' = [sess EXCEPT ![s] = IF UsedByGuard(s) THEN "dead" ELSE "none"]
    /\ lock' = IF lock = s THEN None ELSE lock
    /\ UNCHANGED <<conn, pc>>

-----------------------------------------------------------------------------
Loop(r) ==
    \/ EnsurePing(r) \/ EnsurePingFails(r)
    \/ \E s \in Sessions : TryLock(r, s)
    \/ RunDone(r) \/ Wake(r)

Next ==
    \/ \E r \in Replicas : Loop(r) \/ Release(r) \/ Restart(r) \/ TryLockErr(r) \/ Crash(r)
    \/ \E s \in Sessions : Break(s) \/ BackendExit(s) \/ Terminate(s)

Spec == Init /\ [][Next]_vars

\* Replicas that are up keep looping, are restarted by their supervisor, and
\* PostgreSQL ends orphaned backends; nobody has to shut down or fail.
FairSpec ==
    /\ Spec
    /\ \A r \in Replicas : WF_vars(Loop(r)) /\ WF_vars(Restart(r))
    /\ \A s \in Sessions : WF_vars(BackendExit(s))

-----------------------------------------------------------------------------
(* Properties.                                                             *)

\* Types: a guard's connection is one of its own pool and is never a session
\* that does not exist; a running replica has a connection.
TypeOK ==
    /\ lock \in Sessions \cup {None}
    /\ sess \in [Sessions -> {"none", "up", "half", "dead"}]
    /\ conn \in [Replicas -> Sessions \cup {None}]
    /\ pc \in [Replicas -> {"ensure", "run", "sleep", "stopped"}]
    /\ faults \in 0 .. MaxFaults
    /\ \A r \in Replicas :
         /\ conn[r] # None => PoolOf[conn[r]] = r /\ sess[conn[r]] # "none"
         /\ pc[r] = "run" => conn[r] # None
         /\ pc[r] = "stopped" => conn[r] = None

\* pglock.go, package comment: the lock never ends up on a connection that went
\* back to the pool. Whoever owns it is a guard's connection, or one the client
\* has given up and whose backend will end.
LockNotLeaked ==
    lock # None => UsedByGuard(lock) \/ sess[lock] = "half"

\* A guard that holds a usable connection does own the lock, so Held and the
\* Ping of Ensure mean what they say.
HeldMeansLocked ==
    \A r \in Replicas : conn[r] # None /\ sess[conn[r]] \in {"up", "half"} => lock = conn[r]

\* Two replicas run the task at once only if the server ended the lock session
\* of one of them during its round (Ensure checks only between rounds).
OverlapNeedsLostSession ==
    \A q, r \in Replicas :
        q # r /\ pc[q] = "run" /\ pc[r] = "run" =>
            sess[conn[q]] = "dead" \/ sess[conn[r]] = "dead"

\* The lock cannot get stuck: some replica runs the task again and again,
\* whatever connections broke and whoever crashed (finitely often).
TaskKeepsRunning == []<>(\E r \in Replicas : pc[r] = "run")
=============================================================================
