--------------------------- MODULE ServiceProofs ---------------------------
(***************************************************************************)
(* What holds of Services for any number of replicas, devices, jobs, marks,*)
(* releases, rounds and failures: pglock (PgLock), job-svc (Job), reco-job *)
(* (Reco), the requests and the batch of health-svc (HealthApi, Health),   *)
(* param-svc (Param) and the filter round of accessory-svc (Filter). They  *)
(* share no variable, so each has an inductive invariant of its own.       *)
(***************************************************************************)
EXTENDS Services, FiniteSetTheorems, SequenceTheorems, TLAPS

-----------------------------------------------------------------------------
(* PgLock. Its invariants are not inductive by themselves: a crash or a    *)
(* failed Ping may forget a connection whose backend is gone, and only     *)
(* LockAlive says that the lock is not on such a connection.               *)

\* The server releases a lock together with its session: the owner of the lock
\* always has a live backend.
LockAlive == lock # None => sess[lock] \in {"up", "half"}

IInv == TypeOK /\ LockNotLeaked /\ HeldMeansLocked /\ LockAlive

USE DEF UsedByGuard

-----------------------------------------------------------------------------
\* Pools are disjoint: no two replicas hold one session.
LEMMA ConnInjective ==
    ASSUME TypeOK, NEW q \in Replicas, NEW r \in Replicas,
           conn[q] # None, conn[q] = conn[r]
    PROVE  q = r
BY DEF TypeOK

\* A fresh fleet holds no lock and no guard.
LEMMA InitIInv == Init => IInv
BY PgLockConstants DEF Init, IInv, TypeOK, LockNotLeaked, HeldMeansLocked, LockAlive

\* Ensure on a connection that is already held.
LEMMA EnsureIInv ==
    ASSUME IInv, NEW r \in Replicas, EnsurePing(r) \/ EnsurePingFails(r)
    PROVE  IInv'
<1>1. CASE EnsurePing(r)
  BY <1>1, PgLockConstants
     DEF EnsurePing, IInv, TypeOK, LockNotLeaked, HeldMeansLocked, LockAlive
<1>2. CASE EnsurePingFails(r)
  <2>1. \A q \in Replicas \ {r} : conn[q] # conn[r]
    BY <1>2, ConnInjective DEF IInv, EnsurePingFails
  <2>2. TypeOK'
    BY <1>2, <2>1, PgLockConstants DEF EnsurePingFails, AfterClose, IInv, TypeOK
  <2>3. LockNotLeaked'
    BY <1>2, PgLockConstants
       DEF EnsurePingFails, AfterClose, IInv, TypeOK, LockNotLeaked, LockAlive
  <2>4. HeldMeansLocked'
    BY <1>2, <2>1, PgLockConstants
       DEF EnsurePingFails, AfterClose, IInv, TypeOK, HeldMeansLocked
  <2>5. LockAlive'
    BY <1>2, PgLockConstants DEF EnsurePingFails, AfterClose, IInv, TypeOK, LockAlive
  <2> QED BY <2>2, <2>3, <2>4, <2>5 DEF IInv
<1> QED BY <1>1, <1>2

\* Ensure on a connection taken from the pool: no guard uses it, and the lock
\* is not on it while it is up (LockNotLeaked), so it is owned by r alone.
LEMMA TryLockIInv ==
    ASSUME IInv, NEW r \in Replicas, NEW s \in Sessions, TryLock(r, s)
    PROVE  IInv'
<1>1. \A q \in Replicas : conn[q] # s
  BY PgLockConstants DEF IInv, TypeOK, TryLock, Acquirable
<1>2. lock # s
  BY <1>1, PgLockConstants DEF IInv, TypeOK, LockNotLeaked, TryLock, Acquirable
<1>3. TypeOK'
  BY <1>1, PgLockConstants DEF IInv, TypeOK, TryLock, Acquirable
<1>4. LockNotLeaked'
  <2>1. CASE lock = None
    BY <2>1, PgLockConstants DEF IInv, TypeOK, TryLock, LockNotLeaked
  <2>2. CASE lock # None
    BY <2>2, <1>2, PgLockConstants DEF IInv, TypeOK, LockNotLeaked, TryLock
  <2> QED BY <2>1, <2>2
<1>5. HeldMeansLocked'
  BY <1>1, <1>2, PgLockConstants DEF IInv, TypeOK, HeldMeansLocked, TryLock
<1>6. LockAlive'
  BY <1>2, PgLockConstants DEF IInv, TypeOK, LockAlive, TryLock
<1> QED BY <1>3, <1>4, <1>5, <1>6 DEF IInv

\* A failed attempt may leave the lock on a connection that broke, never on one
\* that can be acquired again.
LEMMA TryLockErrIInv ==
    ASSUME IInv, NEW r \in Replicas, TryLockErr(r)
    PROVE  IInv'
<1>1. CASE UNCHANGED <<lock, sess>>
  BY <1>1, PgLockConstants
     DEF TryLockErr, Fault, IInv, TypeOK, LockNotLeaked, HeldMeansLocked, LockAlive
<1>2. ASSUME NEW s \in Sessions, Acquirable(r, s),
             sess' = [sess EXCEPT ![s] = "half"],
             lock' \in {lock, IF lock = None THEN s ELSE lock}
      PROVE  IInv'
  <2>1. \A q \in Replicas : conn[q] # s
    BY <1>2, PgLockConstants DEF IInv, TypeOK, TryLockErr, Acquirable
  <2>2. lock # s
    BY <1>2, <2>1, PgLockConstants DEF IInv, TypeOK, LockNotLeaked, Acquirable
  <2>3. TypeOK'
    BY <1>2, <2>1, PgLockConstants DEF IInv, TypeOK, TryLockErr, Fault
  <2>4. LockNotLeaked'
    BY <1>2, <2>2, PgLockConstants DEF IInv, TypeOK, LockNotLeaked, TryLockErr
  <2>5. HeldMeansLocked'
    BY <1>2, <2>1, PgLockConstants DEF IInv, TypeOK, HeldMeansLocked, TryLockErr
  <2>6. LockAlive'
    BY <1>2, <2>2, PgLockConstants DEF IInv, TypeOK, LockAlive
  <2> QED BY <2>3, <2>4, <2>5, <2>6 DEF IInv
<1> QED BY <1>1, <1>2 DEF TryLockErr

\* The steps of Every that touch neither connections nor the lock.
LEMMA LoopIInv ==
    ASSUME IInv, NEW r \in Replicas,
           RunDone(r) \/ Wake(r) \/ Restart(r)
    PROVE  IInv'
BY PgLockConstants
   DEF RunDone, Wake, Restart, IInv, TypeOK, LockNotLeaked, HeldMeansLocked, LockAlive

\* Release: the connection it unlocks owns the lock (HeldMeansLocked), the one
\* it closes either keeps a backend ("half") or no longer owns the lock.
LEMMA ReleaseIInv ==
    ASSUME IInv, NEW r \in Replicas, Release(r)
    PROVE  IInv'
<1>1. \A q \in Replicas \ {r} : conn[r] # None => conn[q] # conn[r]
  BY ConnInjective DEF IInv
<1>2. CASE conn[r] = None
  BY <1>2, PgLockConstants
     DEF Release, IInv, TypeOK, LockNotLeaked, HeldMeansLocked, LockAlive
<1>3. CASE conn[r] # None /\ sess[conn[r]] = "up"
  <2>1. lock = conn[r] /\ lock' = None /\ sess' = sess
    BY <1>3 DEF Release, IInv, HeldMeansLocked
  <2> QED
    BY <1>1, <1>3, <2>1, PgLockConstants
       DEF Release, IInv, TypeOK, LockNotLeaked, HeldMeansLocked, LockAlive
<1>4. CASE conn[r] # None /\ sess[conn[r]] # "up"
  <2>1. sess' = [sess EXCEPT ![conn[r]] = AfterClose(conn[r])] /\ lock' = lock
    BY <1>4 DEF Release
  <2>2. TypeOK'
    BY <1>1, <1>4, <2>1, PgLockConstants DEF Release, AfterClose, IInv, TypeOK
  <2>3. LockNotLeaked'
    BY <1>4, <2>1, PgLockConstants
       DEF Release, AfterClose, IInv, TypeOK, LockNotLeaked, LockAlive
  <2>4. HeldMeansLocked'
    BY <1>1, <1>4, <2>1, PgLockConstants
       DEF Release, AfterClose, IInv, TypeOK, HeldMeansLocked
  <2>5. LockAlive'
    BY <1>4, <2>1, PgLockConstants DEF Release, AfterClose, IInv, TypeOK, LockAlive
  <2> QED BY <2>2, <2>3, <2>4, <2>5 DEF IInv
<1> QED BY <1>2, <1>3, <1>4

\* A crash turns the sessions of one pool into orphans.
LEMMA CrashIInv ==
    ASSUME IInv, NEW r \in Replicas, Crash(r)
    PROVE  IInv'
<1>1. TypeOK'
  BY PgLockConstants DEF Crash, Fault, AfterClose, IInv, TypeOK
<1>2. LockAlive'
  BY PgLockConstants DEF Crash, AfterClose, IInv, TypeOK, LockAlive
<1>3. LockNotLeaked'
  BY PgLockConstants DEF Crash, AfterClose, IInv, TypeOK, LockAlive, LockNotLeaked
<1>4. HeldMeansLocked'
  BY PgLockConstants DEF Crash, AfterClose, IInv, TypeOK, HeldMeansLocked
<1> QED BY <1>1, <1>2, <1>3, <1>4 DEF IInv

\* Failures of one session.
LEMMA SessionIInv ==
    ASSUME IInv, NEW s \in Sessions, Break(s) \/ BackendExit(s) \/ Terminate(s)
    PROVE  IInv'
<1>1. CASE Break(s)
  BY <1>1, PgLockConstants
     DEF Break, Fault, IInv, TypeOK, LockNotLeaked, HeldMeansLocked, LockAlive
<1>2. CASE BackendExit(s) \/ Terminate(s)
  <2>1. TypeOK'
    BY <1>2, PgLockConstants DEF BackendExit, Terminate, Fault, IInv, TypeOK
  <2>2. LockNotLeaked'
    BY <1>2, PgLockConstants DEF BackendExit, Terminate, IInv, TypeOK, LockNotLeaked
  <2>3. HeldMeansLocked'
    BY <1>2, PgLockConstants DEF BackendExit, Terminate, IInv, TypeOK, HeldMeansLocked
  <2>4. LockAlive'
    BY <1>2, PgLockConstants DEF BackendExit, Terminate, IInv, TypeOK, LockAlive
  <2> QED BY <2>1, <2>2, <2>3, <2>4 DEF IInv
<1> QED BY <1>1, <1>2

\* Every step of the replicas and every failure preserves the strengthened
\* invariant: one case per action.
LEMMA NextIInv == IInv /\ [Next]_vars => IInv'
<1> SUFFICES ASSUME IInv, [Next]_vars PROVE IInv'
  OBVIOUS
<1>1. CASE UNCHANGED vars
  BY <1>1 DEF vars, IInv, TypeOK, LockNotLeaked, HeldMeansLocked, LockAlive
<1>2. CASE Next
  BY <1>2, EnsureIInv, TryLockIInv, TryLockErrIInv, LoopIInv, ReleaseIInv, CrashIInv, SessionIInv
     DEF Next, Loop
<1> QED BY <1>1, <1>2

-----------------------------------------------------------------------------
\* The strengthened invariant holds in every reachable state of Every, Ensure
\* and Release, whatever fails.
THEOREM Inductive == Spec => []IInv
BY InitIInv, NextIInv, PTL DEF Spec

\* Ensure, Release and Every keep the types of PgLock: a guard's connection is
\* of its own pool, and a replica runs the task only with a connection.
THEOREM TypeCorrect == Spec => []TypeOK
<1>1. IInv => TypeOK
  BY DEF IInv
<1> QED BY <1>1, Inductive, PTL

\* pglock.go closes a doubtful connection instead of putting it back: the
\* advisory lock is never left on an idle pool connection.
THEOREM NoLeakedLock == Spec => []LockNotLeaked
<1>1. IInv => LockNotLeaked
  BY DEF IInv
<1> QED BY <1>1, Inductive, PTL

\* A guard whose connection still has a backend owns the lock (Held, Ensure).
THEOREM HeldIsLocked == Spec => []HeldMeansLocked
<1>1. IInv => HeldMeansLocked
  BY DEF IInv
<1> QED BY <1>1, Inductive, PTL

\* Two replicas are in the task at once only if one has lost its lock session
\* during the round: mutual exclusion up to a lost session, for any number of
\* replicas.
THEOREM OverlapOnlyAfterLoss == Spec => []OverlapNeedsLostSession
<1>1. IInv => OverlapNeedsLostSession
  <2> SUFFICES ASSUME IInv, NEW q \in Replicas, NEW r \in Replicas, q # r,
                      pc[q] = "run", pc[r] = "run",
                      sess[conn[q]] # "dead", sess[conn[r]] # "dead"
               PROVE  FALSE
    BY DEF OverlapNeedsLostSession
  <2>1. conn[q] # None /\ conn[r] # None
    BY DEF IInv, TypeOK
  <2>2. sess[conn[q]] \in {"up", "half"} /\ sess[conn[r]] \in {"up", "half"}
    BY <2>1, PgLockConstants DEF IInv, TypeOK
  <2>3. lock = conn[q] /\ lock = conn[r]
    BY <2>1, <2>2 DEF IInv, HeldMeansLocked
  <2> QED BY <2>1, <2>3, ConnInjective DEF IInv
<1> QED BY <1>1, Inductive, PTL
-----------------------------------------------------------------------------
(* Job. What a mark needs to find its record is in three tables and in the *)
(* stream: EventsInHand says that a handler's event is still in the stream *)
(* or raced, RoundsRemember that a purger only has devices on its list     *)
(* that it has seen, or could have seen, without consent.                  *)

PurgeRound == [pc : {"idle", "read", "purge"}, list : SUBSET SNs, bad : SUBSET SNs, lapsed : SUBSET SNs]
JobShapes ==
    /\ J!TypeOK
    /\ record \in [Jobs -> SNs \cup {J!NoOne}] /\ feedback \in [Jobs -> SNs \cup {J!NoOne}]
    /\ pending \in [Jobs -> SNs \cup {J!NoOne}]
    /\ work \in [Workers -> [pc : {"idle", "optin", "record", "late", "merge"}, e : Events \cup {J!NoEvent}]]
    /\ \A w \in Workers : work[w].pc = "idle" <=> work[w].e = J!NoEvent
    /\ purge \in PurgeRound /\ recon \in PurgeRound /\ purge.pc # "read"

\* Two workers have one event only after AckWait, and an event that is handled
\* is in the stream until its handler acknowledges it.
EventsInHand ==
    \A w \in Workers : work[w].pc # "idle" /\ work[w].e.job \notin raced =>
        /\ work[w].e \in todo
        /\ \A v \in Workers \ {w} : work[v].e # work[w].e

\* A round under way remembers everybody without consent since it began.
RoundsRemember ==
    /\ purge.pc # "idle" => J!Lapsed(desired, reported) \cup purge.list \subseteq purge.lapsed
    /\ recon.pc # "idle" => J!Lapsed(desired, reported) \cup recon.bad \subseteq recon.lapsed
    /\ recon.pc = "purge" => recon.list \subseteq recon.lapsed

JobInv == JobShapes /\ EventsInHand /\ RoundsRemember /\ J!StrandedMarkRaced

LEMMA NoEventIsNone == ASSUME J!JobConstants PROVE J!NoEvent \notin Events
BY DEF J!JobConstants, J!NoEvent

LEMMA JobInit == J!JobConstants /\ J!Init => JobInv
<1> SUFFICES ASSUME J!JobConstants, J!Init PROVE JobInv
  OBVIOUS
<1>1. JobShapes
  BY DEF J!JobConstants, J!Init, JobShapes, J!TypeOK, J!Nothing, J!IdleWork, J!IdleRound, PurgeRound
<1>2. EventsInHand /\ RoundsRemember /\ J!StrandedMarkRaced
  BY DEF J!JobConstants, J!Init, EventsInHand, RoundsRemember, J!StrandedMarkRaced, J!Nothing,
         J!IdleWork, J!IdleRound
<1> QED BY <1>1, <1>2 DEF JobInv

\* Changes of the switch and of the device's report: only consent changes, and
\* the rounds under way remember it.
LEMMA JobConsentInv ==
    ASSUME J!JobConstants, JobInv, NEW s \in SNs, J!SetDesired(s) \/ J!Report(s)
    PROVE  JobInv'
<1>1. /\ J!Remember(desired', reported')
      /\ desired' \in [SNs -> {"true", "false"}] /\ reported' \in [SNs -> {"true", "false", "missing"}]
  <2>1. CASE J!SetDesired(s)
    BY <2>1 DEF J!SetDesired, J!Remember, J!Lapsed, JobInv, JobShapes, J!TypeOK
  <2>2. CASE J!Report(s)
    BY <2>2 DEF J!Report, J!Remember, J!Lapsed, JobInv, JobShapes, J!TypeOK
  <2> QED BY <2>1, <2>2
<1>2. UNCHANGED <<record, finished, feedback, pending, todo, work, mark, raced>>
  BY DEF J!SetDesired, J!Report, J!tables
<1>3. JobShapes'
  BY <1>1, <1>2 DEF JobInv, JobShapes, J!TypeOK, J!Remember, J!Lapsed, PurgeRound
<1>4. RoundsRemember'
  BY <1>1 DEF JobInv, JobShapes, RoundsRemember, J!Remember, J!Lapsed, PurgeRound
<1>5. EventsInHand' /\ J!StrandedMarkRaced'
  BY <1>2 DEF JobInv, EventsInHand, J!StrandedMarkRaced
<1> QED BY <1>3, <1>4, <1>5 DEF JobInv

\* A worker takes an event: the second one of two makes its job raced.
LEMMA DeliverInv ==
    ASSUME J!JobConstants, JobInv, NEW w \in Workers, J!Deliver(w)
    PROVE  JobInv'
<1>1. PICK e \in todo :
         /\ work' = [work EXCEPT ![w] = [pc |-> "optin", e |-> e]]
         /\ IF \E v \in Workers : work[v].e = e
            THEN raced' = raced \cup {e.job}
            ELSE UNCHANGED raced
  BY DEF J!Deliver, J!Fault
<1>2. /\ work[w].pc = "idle" /\ UNCHANGED todo
      /\ UNCHANGED <<desired, reported, record, finished, feedback, pending, mark, purge, recon>>
  BY DEF J!Deliver, J!At, J!consent, J!tables
<1>3. e \in Events /\ e.job \in Jobs /\ e # J!NoEvent
  BY NoEventIsNone DEF JobInv, JobShapes, J!TypeOK, J!JobConstants
<1>4. JobShapes'
  BY <1>1, <1>2, <1>3 DEF JobInv, JobShapes, J!TypeOK
<1>5. EventsInHand'
  <2> SUFFICES ASSUME NEW v \in Workers, work'[v].pc # "idle", work'[v].e.job \notin raced'
               PROVE  /\ work'[v].e \in todo
                      /\ \A u \in Workers \ {v} : work'[u].e # work'[v].e
    BY <1>2 DEF EventsInHand
  <2>1. raced \subseteq raced'
    BY <1>1
  <2>2. work' \in [Workers -> [pc : {"idle", "optin", "record", "late", "merge"}, e : Events \cup {J!NoEvent}]]
    BY <1>4 DEF JobShapes
  <2>3. \A u \in Workers \ {w} : work'[u] = work[u]
    BY <1>1 DEF JobInv, JobShapes
  <2>4. work'[w] = [pc |-> "optin", e |-> e]
    BY <1>1 DEF JobInv, JobShapes
  <2>5. CASE v = w
    BY <1>1, <2>3, <2>4, <2>5
  <2>6. CASE v # w
    <3>1. work[v].e \in todo /\ \A u \in Workers \ {v} : work[u].e # work[v].e
      BY <2>1, <2>3, <2>6 DEF JobInv, EventsInHand
    <3>2. work[v].e # e
      BY <1>1, <2>3, <2>6
    <3> QED BY <2>3, <2>4, <2>6, <3>1, <3>2
  <2> QED BY <2>5, <2>6
<1>6. RoundsRemember'
  BY <1>2 DEF JobInv, RoundsRemember
<1>7. J!StrandedMarkRaced'
  BY <1>1, <1>2 DEF JobInv, J!StrandedMarkRaced
<1> QED BY <1>4, <1>5, <1>6, <1>7 DEF JobInv

\* A worker moves on with its event, or puts it down: what the other workers
\* have is untouched.
LEMMA WorkerMoves ==
    ASSUME J!JobConstants, JobInv, NEW w \in Workers, work[w].pc # "idle", raced \subseteq raced',
           \/ \E p \in {"optin", "record", "late", "merge"} : J!Goto(w, p) /\ UNCHANGED todo
           \/ J!Done(w) /\ (UNCHANGED todo \/ todo' = todo \ {work[w].e})
    PROVE  /\ work' \in [Workers -> [pc : {"idle", "optin", "record", "late", "merge"}, e : Events \cup {J!NoEvent}]]
           /\ \A v \in Workers : work'[v].pc = "idle" <=> work'[v].e = J!NoEvent
           /\ todo' \subseteq Events /\ todo \ {work[w].e} \subseteq todo'
           /\ work[w].e \in Events /\ work[w].e.job \in Jobs
           /\ EventsInHand'
<1>1. work[w].e \in Events /\ work[w].e.job \in Jobs /\ work[w].e # J!NoEvent
  BY NoEventIsNone DEF JobInv, JobShapes, J!JobConstants
<1>2. todo' \subseteq Events /\ todo \ {work[w].e} \subseteq todo'
  BY DEF JobInv, JobShapes, J!TypeOK
<1>3. \/ work'[w] = J!IdleWork
      \/ \E p \in {"optin", "record", "late", "merge"} : work'[w] = [pc |-> p, e |-> work[w].e] /\ todo' = todo
  BY DEF J!Goto, J!Done, JobInv, JobShapes
<1>4. \A v \in Workers \ {w} : work'[v] = work[v]
  BY DEF J!Goto, J!Done, JobInv, JobShapes
<1>5. work' \in [Workers -> [pc : {"idle", "optin", "record", "late", "merge"}, e : Events \cup {J!NoEvent}]]
  BY <1>1 DEF J!Goto, J!Done, JobInv, JobShapes, J!IdleWork
<1>6. \A v \in Workers : work'[v].pc = "idle" <=> work'[v].e = J!NoEvent
  BY <1>1, <1>3, <1>4 DEF JobInv, JobShapes, J!IdleWork
<1>7. EventsInHand'
  <2> SUFFICES ASSUME NEW v \in Workers, work'[v].pc # "idle", work'[v].e.job \notin raced'
               PROVE  /\ work'[v].e \in todo'
                      /\ \A u \in Workers \ {v} : work'[u].e # work'[v].e
    BY DEF EventsInHand
  <2>1. work[v].pc # "idle" /\ work[v].e = work'[v].e /\ work[v].e # J!NoEvent
    BY <1>1, <1>3, <1>4, <1>6 DEF J!IdleWork
  <2>2. work[v].e \in todo /\ \A u \in Workers \ {v} : work[u].e # work[v].e
    BY <2>1 DEF JobInv, EventsInHand
  <2>3. \A u \in Workers \ {v} : work'[u].e # work'[v].e
    BY <1>3, <1>4, <2>1, <2>2 DEF J!IdleWork
  <2>4. CASE v = w
    BY <1>3, <2>1, <2>2, <2>3, <2>4 DEF J!IdleWork
  <2>5. CASE v # w
    BY <1>2, <2>1, <2>2, <2>3, <2>5
  <2> QED BY <2>4, <2>5
<1> QED BY <1>1, <1>2, <1>5, <1>6, <1>7

LEMMA CheckOptInInv ==
    ASSUME J!JobConstants, JobInv, NEW w \in Workers, J!CheckOptIn(w)
    PROVE  JobInv'
<1>1. /\ work[w].pc = "optin"
      /\ UNCHANGED <<desired, reported, record, finished, feedback, pending, mark, purge, recon>>
      /\ \/ J!Goto(w, "record") /\ UNCHANGED todo
         \/ J!Done(w) /\ todo' = todo \ {work[w].e}
      /\ raced' = IF work'[w].pc = "idle" THEN raced \cup {j \in {work[w].e.job} : record[j] # J!NoOne} ELSE raced
  BY DEF J!CheckOptIn, J!At, J!Ack, J!consent, J!tables
<1>2. raced \subseteq raced'
  BY <1>1
<1>3. /\ work' \in [Workers -> [pc : {"idle", "optin", "record", "late", "merge"}, e : Events \cup {J!NoEvent}]]
      /\ \A v \in Workers : work'[v].pc = "idle" <=> work'[v].e = J!NoEvent
      /\ todo' \subseteq Events /\ todo \ {work[w].e} \subseteq todo'
      /\ work[w].e \in Events /\ work[w].e.job \in Jobs
      /\ EventsInHand'
  BY <1>1, <1>2, WorkerMoves
<1>4. JobShapes'
  BY <1>1, <1>3 DEF JobInv, JobShapes, J!TypeOK
<1>5. RoundsRemember'
  BY <1>1 DEF JobInv, RoundsRemember
<1>6. todo' = todo \/ work'[w].pc = "idle"
  BY <1>1 DEF J!Done, J!IdleWork, JobInv, JobShapes
<1>7. J!StrandedMarkRaced'
  BY <1>1, <1>3, <1>6 DEF JobInv, J!StrandedMarkRaced
<1> QED BY <1>3, <1>4, <1>5, <1>7 DEF JobInv

\* A row of job_record appears while its event is in the stream.
LEMMA RecordInv ==
    ASSUME J!JobConstants, JobInv, NEW w \in Workers, J!Record(w) \/ J!LateFinish(w)
    PROVE  JobInv'
<1> DEFINE j == work[w].e.job
<1>1. /\ work[w].pc \in {"record", "late"}
      /\ UNCHANGED <<desired, reported, feedback, pending, todo, mark, purge, recon, raced>>
      /\ \E p \in {"late", "merge"} : J!Goto(w, p)
      /\ record' \in {record, [record EXCEPT ![j] = IF @ = J!NoOne THEN Owner[j] ELSE @]}
      /\ finished' \in {finished, finished \cup {j}}
      /\ finished' # finished => record'[j] # J!NoOne
  <2>1. j \in Jobs /\ Owner[j] # J!NoOne
    BY NoEventIsNone DEF J!Record, J!LateFinish, J!At, JobInv, JobShapes, J!JobConstants
  <2>2. CASE J!Record(w)
    BY <2>1, <2>2 DEF J!Record, J!At, J!consent
  <2>3. CASE J!LateFinish(w)
    BY <2>1, <2>3 DEF J!LateFinish, J!At, J!consent, JobInv, JobShapes
  <2> QED BY <2>2, <2>3
<1>2. /\ work' \in [Workers -> [pc : {"idle", "optin", "record", "late", "merge"}, e : Events \cup {J!NoEvent}]]
      /\ \A v \in Workers : work'[v].pc = "idle" <=> work'[v].e = J!NoEvent
      /\ work[w].e \in Events /\ work[w].e.job \in Jobs
      /\ EventsInHand'
  BY <1>1, WorkerMoves
<1>3. /\ record' \in [Jobs -> SNs \cup {J!NoOne}]
      /\ \A i \in Jobs : record[i] # J!NoOne => record'[i] # J!NoOne
      /\ \A i \in Jobs \ {j} : record'[i] = record[i]
  BY <1>1, <1>2 DEF J!JobConstants, JobInv, JobShapes
<1>4. JobShapes'
  BY <1>1, <1>2, <1>3 DEF JobInv, JobShapes, J!TypeOK
<1>5. RoundsRemember'
  BY <1>1 DEF JobInv, RoundsRemember
<1>6. work[w].e \in todo \/ j \in raced
  BY <1>1 DEF JobInv, EventsInHand
<1>7. J!StrandedMarkRaced'
  BY <1>1, <1>2, <1>3, <1>6 DEF JobInv, J!StrandedMarkRaced
<1> QED BY <1>2, <1>4, <1>5, <1>7 DEF JobInv

\* The event goes together with the pending mark.
LEMMA MergePendingInv ==
    ASSUME J!JobConstants, JobInv, NEW w \in Workers, J!MergePending(w)
    PROVE  JobInv'
<1> DEFINE j == work[w].e.job
<1>1. /\ work[w].pc = "merge"
      /\ UNCHANGED <<desired, reported, record, finished, mark, purge, recon, raced>>
      /\ J!Done(w)
      /\ \/ UNCHANGED <<feedback, pending, todo>>
         \/ /\ todo' = todo \ {work[w].e}
            /\ pending[j] # J!NoOne => record[j] # J!NoOne
            /\ feedback' = [feedback EXCEPT ![j] = IF @ = J!NoOne THEN pending[j] ELSE @]
            /\ pending' = [pending EXCEPT ![j] = J!NoOne]
  BY DEF J!MergePending, J!At, J!Ack, J!consent
<1>2. /\ work' \in [Workers -> [pc : {"idle", "optin", "record", "late", "merge"}, e : Events \cup {J!NoEvent}]]
      /\ \A v \in Workers : work'[v].pc = "idle" <=> work'[v].e = J!NoEvent
      /\ todo' \subseteq Events /\ todo \ {work[w].e} \subseteq todo'
      /\ work[w].e \in Events /\ work[w].e.job \in Jobs
      /\ EventsInHand'
  BY <1>1, WorkerMoves
<1>3. /\ pending' \in [Jobs -> SNs \cup {J!NoOne}] /\ feedback' \in [Jobs -> SNs \cup {J!NoOne}]
      /\ \A i \in Jobs : feedback'[i] # J!NoOne => record[i] # J!NoOne
      /\ \A i \in Jobs \ {j} : pending'[i] = pending[i]
      /\ \/ todo' = todo /\ pending' = pending
         \/ pending'[j] = J!NoOne
  <2>1. /\ pending \in [Jobs -> SNs \cup {J!NoOne}] /\ feedback \in [Jobs -> SNs \cup {J!NoOne}]
        /\ \A i \in Jobs : feedback[i] # J!NoOne => record[i] # J!NoOne
    BY DEF JobInv, JobShapes, J!TypeOK
  <2>2. CASE UNCHANGED <<feedback, pending, todo>>
    BY <2>1, <2>2
  <2>3. CASE /\ pending[j] # J!NoOne => record[j] # J!NoOne
             /\ feedback' = [feedback EXCEPT ![j] = IF @ = J!NoOne THEN pending[j] ELSE @]
             /\ pending' = [pending EXCEPT ![j] = J!NoOne]
    <3>1. pending[j] \in SNs \cup {J!NoOne} /\ j \in Jobs
      BY <1>2, <2>1
    <3> QED BY <2>1, <2>3, <3>1
  <2> QED BY <1>1, <2>2, <2>3
<1>4. JobShapes'
  BY <1>1, <1>2, <1>3 DEF JobInv, JobShapes, J!TypeOK
<1>5. RoundsRemember'
  BY <1>1 DEF JobInv, RoundsRemember
<1>6. J!StrandedMarkRaced'
  BY <1>1, <1>2, <1>3 DEF JobInv, J!StrandedMarkRaced
<1> QED BY <1>2, <1>4, <1>5, <1>6 DEF JobInv

LEMMA EventFailsInv ==
    ASSUME J!JobConstants, JobInv, NEW w \in Workers, J!EventFails(w)
    PROVE  JobInv'
<1>1. /\ work[w].pc # "idle" /\ J!Done(w) /\ UNCHANGED todo
      /\ UNCHANGED <<desired, reported, record, finished, feedback, pending, mark, purge, recon, raced>>
  BY DEF J!EventFails, J!At, J!consent, J!tables
<1>2. /\ work' \in [Workers -> [pc : {"idle", "optin", "record", "late", "merge"}, e : Events \cup {J!NoEvent}]]
      /\ \A v \in Workers : work'[v].pc = "idle" <=> work'[v].e = J!NoEvent
      /\ EventsInHand'
  BY <1>1, WorkerMoves
<1>3. JobShapes'
  BY <1>1, <1>2 DEF JobInv, JobShapes, J!TypeOK
<1>4. RoundsRemember' /\ J!StrandedMarkRaced'
  BY <1>1 DEF JobInv, RoundsRemember, J!StrandedMarkRaced
<1> QED BY <1>2, <1>3, <1>4 DEF JobInv
\* A mark that is stored beside its record, without an event to join it, raced.
LEMMA RequestInv ==
    ASSUME J!JobConstants, JobInv, NEW m \in Marks, J!Request(m)
    PROVE  JobInv'
<1>1. /\ UNCHANGED <<desired, reported, record, finished, todo, work, purge, recon>>
      /\ \E p \in {"owner", "pend", "store", "done", "denied"} : mark' = [mark EXCEPT ![m] = p]
  BY DEF J!Request, J!MarkOptIn, J!RecordSN, J!InsertPending, J!UpsertFeedback, J!MarkAt, J!consent, J!tables
<1>2. m.job \in Jobs /\ m.sn \in SNs /\ m.sn # J!NoOne
  BY DEF J!JobConstants
<1>3. /\ pending' \in [Jobs -> SNs \cup {J!NoOne}] /\ feedback' \in [Jobs -> SNs \cup {J!NoOne}]
      /\ \A i \in Jobs : feedback'[i] # J!NoOne => record[i] # J!NoOne
      /\ raced' \subseteq Jobs /\ raced \subseteq raced'
      /\ \A i \in Jobs : pending'[i] # pending[i] /\ record[i] # J!NoOne => i \in raced'
  BY <1>2 DEF J!Request, J!MarkOptIn, J!RecordSN, J!InsertPending, J!UpsertFeedback, J!tables,
              JobInv, JobShapes, J!TypeOK
<1>4. JobShapes'
  BY <1>1, <1>3 DEF JobInv, JobShapes, J!TypeOK
<1>5. EventsInHand' /\ RoundsRemember'
  BY <1>1, <1>3 DEF JobInv, EventsInHand, RoundsRemember
<1>6. J!StrandedMarkRaced'
  BY <1>1, <1>3 DEF JobInv, J!StrandedMarkRaced
<1> QED BY <1>4, <1>5, <1>6 DEF JobInv

\* What PurgeSN, or its failure, leaves of the tables.
LEMMA PurgeSNInv ==
    ASSUME JobInv, NEW s \in SNs, J!PurgeSN(s) \/ UNCHANGED J!tables
    PROVE  /\ record' \in [Jobs -> SNs \cup {J!NoOne}]
           /\ pending' \in [Jobs -> SNs \cup {J!NoOne}] /\ feedback' \in [Jobs -> SNs \cup {J!NoOne}]
           /\ finished' \subseteq {j \in Jobs : record'[j] # J!NoOne}
           /\ \A j \in Jobs : feedback'[j] # J!NoOne => record'[j] # J!NoOne
           /\ \A j \in Jobs : record'[j] # J!NoOne => record[j] # J!NoOne
           /\ \A j \in Jobs : pending'[j] # J!NoOne => pending[j] # J!NoOne
           /\ \A j \in Jobs : record[j] # J!NoOne /\ record'[j] = J!NoOne => record[j] = s
<1>1. CASE J!PurgeSN(s)
  BY <1>1 DEF J!PurgeSN, JobInv, JobShapes, J!TypeOK
<1>2. CASE UNCHANGED J!tables
  BY <1>2 DEF J!tables, JobInv, JobShapes, J!TypeOK
<1> QED BY <1>1, <1>2

\* A round begins, reads a shadow, or ends for a device.
LEMMA PurgerInv ==
    ASSUME JobInv, J!PurgeOnce \/ J!PurgeStep
    PROVE  /\ JobInv'
           /\ \A j \in Jobs : record[j] # J!NoOne /\ record'[j] = J!NoOne => record[j] \in purge.lapsed
<1>1. UNCHANGED <<desired, reported, todo, work, mark, recon, raced>>
  BY DEF J!PurgeOnce, J!PurgeStep, J!consent
<1>2. CASE J!PurgeOnce
  <2>1. /\ UNCHANGED <<record, finished, feedback, pending>>
        /\ purge' = [pc |-> "purge", list |-> J!OptedOutSNs, bad |-> {}, lapsed |-> J!Lapsed(desired, reported)]
    BY <1>2 DEF J!PurgeOnce, J!tables, J!Round
  <2>2. J!OptedOutSNs \subseteq J!Lapsed(desired, reported) /\ J!Lapsed(desired, reported) \subseteq SNs
    BY DEF J!OptedOutSNs, J!NeedPurge, J!Lapsed
  <2>3. JobShapes'
    BY <1>1, <2>1, <2>2 DEF JobInv, JobShapes, J!TypeOK, PurgeRound
  <2>4. RoundsRemember'
    BY <1>1, <2>1, <2>2 DEF JobInv, RoundsRemember, J!Lapsed
  <2>5. EventsInHand' /\ J!StrandedMarkRaced'
    BY <1>1, <2>1 DEF JobInv, EventsInHand, J!StrandedMarkRaced
  <2> QED BY <2>1, <2>3, <2>4, <2>5 DEF JobInv
<1>3. CASE J!PurgeStep
  <2>1. PICK s \in purge.list : /\ J!PurgeSN(s) \/ UNCHANGED J!tables
                                /\ purge' = J!Ends(purge, purge.list \ {s})
    BY <1>3 DEF J!PurgeStep
  <2>2. s \in SNs /\ s \in purge.lapsed /\ purge.pc = "purge"
    BY <1>3 DEF J!PurgeStep, JobInv, JobShapes, PurgeRound, RoundsRemember
  <2>3. /\ record' \in [Jobs -> SNs \cup {J!NoOne}]
        /\ pending' \in [Jobs -> SNs \cup {J!NoOne}] /\ feedback' \in [Jobs -> SNs \cup {J!NoOne}]
        /\ finished' \subseteq {j \in Jobs : record'[j] # J!NoOne}
        /\ \A j \in Jobs : feedback'[j] # J!NoOne => record'[j] # J!NoOne
        /\ \A j \in Jobs : record'[j] # J!NoOne => record[j] # J!NoOne
        /\ \A j \in Jobs : pending'[j] # J!NoOne => pending[j] # J!NoOne
        /\ \A j \in Jobs : record[j] # J!NoOne /\ record'[j] = J!NoOne => record[j] = s
    BY <2>1, <2>2, PurgeSNInv
  <2>4. /\ purge' \in PurgeRound /\ purge'.pc \in {"idle", "purge"}
        /\ purge'.pc # "idle" => purge'.lapsed = purge.lapsed /\ purge'.list \subseteq purge.list
    BY <2>1, <2>2 DEF J!Ends, J!IdleRound, JobInv, JobShapes, PurgeRound
  <2>5. JobShapes'
    BY <1>1, <2>3, <2>4 DEF JobInv, JobShapes, J!TypeOK
  <2>6. RoundsRemember'
    BY <1>1, <2>2, <2>4 DEF JobInv, RoundsRemember, J!Lapsed
  <2>7. EventsInHand' /\ J!StrandedMarkRaced'
    BY <1>1, <2>3 DEF JobInv, EventsInHand, J!StrandedMarkRaced
  <2> QED BY <2>2, <2>3, <2>5, <2>6, <2>7 DEF JobInv
<1> QED BY <1>2, <1>3

LEMMA ReconcilerInv ==
    ASSUME J!JobConstants, JobInv, J!Reconciler
    PROVE  /\ JobInv'
           /\ \A j \in Jobs : record[j] # J!NoOne /\ record'[j] = J!NoOne => record[j] \in recon.lapsed
<1>1. UNCHANGED <<desired, reported, todo, work, mark, purge, raced>>
  BY DEF J!Reconciler, J!ReconOnce, J!ReconRead, J!ReconPurge, J!consent
<1>2. CASE J!ReconOnce
  <2>1. /\ UNCHANGED <<record, finished, feedback, pending>>
        /\ recon' = [pc |-> "read", list |-> J!DistinctJobSNs, bad |-> {}, lapsed |-> J!Lapsed(desired, reported)]
    BY <1>2 DEF J!ReconOnce, J!tables, J!Round
  <2>2. J!DistinctJobSNs \subseteq SNs /\ J!Lapsed(desired, reported) \subseteq SNs
    BY DEF J!DistinctJobSNs, J!Lapsed, JobInv, JobShapes
  <2>3. JobShapes'
    BY <1>1, <2>1, <2>2 DEF JobInv, JobShapes, J!TypeOK, PurgeRound
  <2>4. RoundsRemember'
    BY <1>1, <2>1, <2>2 DEF JobInv, RoundsRemember, J!Lapsed
  <2>5. EventsInHand' /\ J!StrandedMarkRaced'
    BY <1>1, <2>1 DEF JobInv, EventsInHand, J!StrandedMarkRaced
  <2> QED BY <2>1, <2>3, <2>4, <2>5 DEF JobInv
<1>3. CASE J!ReconRead
  <2> DEFINE Bad(t, state) == recon.bad \cup {u \in {t} : J!Violating(state)}
             Rest(t) == recon.list \ {t}
  <2>1. PICK s \in recon.list, state \in {"allowed", "false", "missing", "error"} :
          /\ state = "error" \/ state = J!OptIn(s)
          /\ recon' = IF Rest(s) # {} THEN [recon EXCEPT !.list = Rest(s), !.bad = Bad(s, state)]
                      ELSE IF Bad(s, state) = {} THEN J!IdleRound
                      ELSE [recon EXCEPT !.pc = "purge", !.list = Bad(s, state), !.bad = {}]
    <3>1. \E s \in recon.list, state \in {"allowed", "false", "missing", "error"} :
            /\ IF state = "error" THEN J!Fault ELSE state = J!OptIn(s) /\ UNCHANGED jobFaults
            /\ recon' = IF Rest(s) # {} THEN [recon EXCEPT !.list = Rest(s), !.bad = Bad(s, state)]
                        ELSE IF Bad(s, state) = {} THEN J!IdleRound
                        ELSE [recon EXCEPT !.pc = "purge", !.list = Bad(s, state), !.bad = {}]
      BY <1>3, Zenon DEF J!ReconRead
    <3> HIDE DEF Bad, Rest
    <3> QED BY <3>1, Zenon
  <2> DEFINE bad == Bad(s, state)
             rest == Rest(s)
  <2>2. recon.pc = "read" /\ UNCHANGED <<record, finished, feedback, pending>>
    BY <1>3 DEF J!ReconRead, J!tables
  <2>3. recon \in PurgeRound /\ s \in SNs
    BY DEF JobInv, JobShapes, PurgeRound
  <2>4. J!Violating(state) => s \in J!Lapsed(desired, reported)
    BY <2>1, <2>3 DEF J!Violating, J!OptIn, J!Lapsed
  <2>5. bad \subseteq recon.lapsed /\ bad \subseteq SNs /\ rest \subseteq SNs
    BY <2>2, <2>3, <2>4 DEF JobInv, RoundsRemember, PurgeRound
  <2>6. /\ recon' \in PurgeRound
        /\ recon'.pc # "idle" => /\ recon'.lapsed = recon.lapsed
                                 /\ recon'.bad \subseteq bad
        /\ recon'.pc = "purge" => recon'.list = bad
    BY <2>1, <2>2, <2>3, <2>5 DEF PurgeRound, J!IdleRound
  <2>7. JobShapes'
    BY <1>1, <2>2, <2>6 DEF JobInv, JobShapes, J!TypeOK
  <2>8. RoundsRemember'
    BY <1>1, <2>2, <2>5, <2>6 DEF JobInv, RoundsRemember, J!Lapsed
  <2>9. EventsInHand' /\ J!StrandedMarkRaced'
    BY <1>1, <2>2 DEF JobInv, EventsInHand, J!StrandedMarkRaced
  <2> QED BY <2>2, <2>7, <2>8, <2>9 DEF JobInv
<1>4. CASE J!ReconPurge
  <2>1. PICK s \in recon.list : /\ J!PurgeSN(s) \/ UNCHANGED J!tables
                                /\ recon' = J!Ends(recon, recon.list \ {s})
    BY <1>4 DEF J!ReconPurge
  <2>2. s \in SNs /\ s \in recon.lapsed /\ recon.pc = "purge"
    BY <1>4 DEF J!ReconPurge, JobInv, JobShapes, PurgeRound, RoundsRemember
  <2>3. /\ record' \in [Jobs -> SNs \cup {J!NoOne}]
        /\ pending' \in [Jobs -> SNs \cup {J!NoOne}] /\ feedback' \in [Jobs -> SNs \cup {J!NoOne}]
        /\ finished' \subseteq {j \in Jobs : record'[j] # J!NoOne}
        /\ \A j \in Jobs : feedback'[j] # J!NoOne => record'[j] # J!NoOne
        /\ \A j \in Jobs : record'[j] # J!NoOne => record[j] # J!NoOne
        /\ \A j \in Jobs : pending'[j] # J!NoOne => pending[j] # J!NoOne
        /\ \A j \in Jobs : record[j] # J!NoOne /\ record'[j] = J!NoOne => record[j] = s
    BY <2>1, <2>2, PurgeSNInv
  <2>4. /\ recon' \in PurgeRound
        /\ recon'.pc # "idle" => /\ recon'.lapsed = recon.lapsed /\ recon'.bad = recon.bad
                                 /\ recon'.list \subseteq recon.list
    BY <2>1, <2>2 DEF J!Ends, J!IdleRound, JobInv, JobShapes, PurgeRound
  <2>5. JobShapes'
    BY <1>1, <2>3, <2>4 DEF JobInv, JobShapes, J!TypeOK
  <2>6. RoundsRemember'
    BY <1>1, <2>2, <2>4 DEF JobInv, RoundsRemember, J!Lapsed
  <2>7. EventsInHand' /\ J!StrandedMarkRaced'
    BY <1>1, <2>3 DEF JobInv, EventsInHand, J!StrandedMarkRaced
  <2> QED BY <2>2, <2>3, <2>5, <2>6, <2>7 DEF JobInv
<1> QED BY <1>2, <1>3, <1>4 DEF J!Reconciler

\* The steps of handlers and requests never empty a row of job_record.
LEMMA OnlyPurgersDelete ==
    ASSUME J!JobConstants, JobInv, J!Next, ~J!Purger, ~J!Reconciler
    PROVE  \A j \in Jobs : record[j] # J!NoOne => record'[j] # J!NoOne
<1>1. UNCHANGED record \/ \E w \in Workers : J!Record(w) \/ J!LateFinish(w)
  BY DEF J!Next, J!Consumer, J!Request, J!SetDesired, J!Report, J!Deliver, J!CheckOptIn, J!MergePending,
         J!EventFails, J!MarkOptIn, J!RecordSN, J!InsertPending, J!UpsertFeedback, J!tables
<1>2. ASSUME NEW w \in Workers, J!Record(w) \/ J!LateFinish(w)
      PROVE  \A j \in Jobs : record[j] # J!NoOne => record'[j] # J!NoOne
  BY <1>2 DEF J!Record, J!LateFinish, JobInv, JobShapes
<1> QED BY <1>1, <1>2

LEMMA JobNext == J!JobConstants /\ JobInv /\ [J!Next]_J!vars => JobInv'
<1> SUFFICES ASSUME J!JobConstants, JobInv, [J!Next]_J!vars PROVE JobInv'
  OBVIOUS
<1>1. CASE UNCHANGED J!vars
  BY <1>1 DEF J!vars, J!consent, J!tables, JobInv, JobShapes, J!TypeOK, EventsInHand, RoundsRemember,
              J!StrandedMarkRaced, J!Lapsed
<1>2. CASE J!Next
  BY <1>2, JobConsentInv, DeliverInv, CheckOptInInv, RecordInv, MergePendingInv, EventFailsInv, RequestInv,
     PurgerInv, ReconcilerInv
     DEF J!Next, J!Consumer, J!Purger
<1> QED BY <1>1, <1>2

\* The strengthened invariant of job-svc: consumers, requests and both purgers.
THEOREM JobInvariant == J!Spec => []JobInv
<1>1. J!Init => JobInv
  BY JobInit, ServiceConstants
<1>2. JobInv /\ [J!Next]_J!vars => JobInv'
  BY JobNext, ServiceConstants
<1> QED BY <1>1, <1>2, PTL DEF J!Spec

\* A mark stays pending beside its record only after one of the races that the
\* comments of HandleEvent and Feedback name: for any number of workers, events,
\* requests, failures and purges.
THEOREM StrandedOnlyByRace == J!Spec => []StrandedMarkRaced
<1>1. JobInv => StrandedMarkRaced
  BY DEF JobInv, StrandedMarkRaced
<1> QED BY <1>1, JobInvariant, PTL

\* Neither PurgeOnce nor RunOnce of the reconciler deletes a record of a device
\* whose consent stood during the whole round.
THEOREM PurgeKeepsConsent == J!Spec => PurgeNeedsWithdrawal
<1>1. JobInv /\ [J!Next]_J!vars =>
        [\A j \in Jobs : record[j] # J!NoOne /\ record'[j] = J!NoOne =>
            record[j] \in purge.lapsed \cup recon.lapsed]_J!vars
  BY PurgerInv, ReconcilerInv, OnlyPurgersDelete, ServiceConstants DEF J!Purger
<1> QED BY <1>1, JobInvariant, PTL DEF J!Spec, PurgeNeedsWithdrawal, J!PurgeNeedsWithdrawal
-----------------------------------------------------------------------------
(* Reco. A round that began earlier, or an approval, may write after a     *)
(* round that has judged: CondemnedStaysRemoved is preserved by each write *)
(* alone, once a round is known to judge recommendations only.             *)

Statuses == {"absent", "candidate", "published", "removed"}
Windows == [Recos \cup {"base"} -> Nat]
RecoRound == [pc : {"idle", "params", "cap", "upsert", "safety", "check"}, todo : SUBSET Recos,
              params : BOOLEAN, events : Windows \cup {<<>>}]
RecoInv ==
    /\ status \in [Recos -> Statuses] /\ condemned \subseteq Recos
    /\ jobs \in [Recos \cup {"base"} -> [n : Nat, hits : Nat]]
    /\ recoRnd \in [Rounds -> RecoRound]
    /\ \A p \in Rounds : recoRnd[p].pc \in {"params", "cap", "upsert", "check"} => recoRnd[p].todo # {}
    /\ R!CondemnedStaysRemoved

LEMMA RecoInit == R!Init => RecoInv
BY DEF R!Init, RecoInv, Statuses, RecoRound, R!Idle, R!CondemnedStaysRemoved

\* What people do: only an approval touches a status, and only a candidate's.
LEMMA PeopleInv == ASSUME RecoInv, R!People PROVE RecoInv'
<1>1. UNCHANGED <<recoRnd, condemned>>
  BY DEF R!People
<1>2. /\ status' \in [Recos -> Statuses]
      /\ \A r \in Recos : status[r] = "removed" => status'[r] = "removed"
  BY DEF R!People, R!NextDay, R!ReleaseOfficial, R!Approve, R!Mark, R!PutUserParam, R!RunJob, RecoInv, Statuses
<1>3. jobs' \in [Recos \cup {"base"} -> [n : Nat, hits : Nat]]
  <2>1. UNCHANGED jobs \/ \E x \in DOMAIN jobs, hit \in {0, 1} : R!RunJob(x, hit)
    BY DEF R!People, R!NextDay, R!ReleaseOfficial, R!Approve, R!Mark, R!PutUserParam
  <2>2. ASSUME NEW x \in DOMAIN jobs, NEW hit \in {0, 1}, R!RunJob(x, hit)
        PROVE  jobs' \in [Recos \cup {"base"} -> [n : Nat, hits : Nat]]
    BY <2>2 DEF R!RunJob, RecoInv
  <2> QED BY <2>1, <2>2 DEF RecoInv
<1> QED BY <1>1, <1>2, <1>3 DEF RecoInv, R!CondemnedStaysRemoved

\* The recommendation a round is at is one of its list, and so is what is left.
LEMMA RoundGoesOn ==
    ASSUME RecoInv, NEW p \in Rounds, recoRnd[p].pc \in {"params", "cap", "upsert", "check"}
    PROVE  /\ R!Current(p) \in Recos
           /\ R!After(p) \in RecoRound
           /\ R!After(p).pc = "safety" \/ (R!After(p).pc = "params" /\ R!After(p).todo # {})
<1>1. recoRnd[p] \in RecoRound /\ recoRnd[p].todo # {} /\ recoRnd[p].todo \subseteq Recos
  BY DEF RecoInv, RecoRound
<1>2. R!Current(p) \in recoRnd[p].todo
  BY <1>1 DEF R!Current
<1>3. R!After(p) \in RecoRound
  BY <1>1 DEF R!After, RecoRound, R!Idle
<1>4. R!After(p).pc = "safety" \/ (R!After(p).pc = "params" /\ R!After(p).todo # {})
  <2>1. CASE recoRnd[p].todo = {R!Current(p)}
    BY <2>1 DEF R!After, R!Idle
  <2>2. CASE recoRnd[p].todo # {R!Current(p)}
    <3>1. recoRnd[p].todo \ {R!Current(p)} # {}
      BY <1>1, <1>2, <2>2
    <3> QED BY <1>1, <2>2, <3>1 DEF R!After, RecoRound
  <2> QED BY <2>1, <2>2
<1> QED BY <1>1, <1>2, <1>3, <1>4

\* A round that goes to a state of a round.
LEMMA RoundShape ==
    ASSUME RecoInv, NEW p \in Rounds, NEW f \in RecoRound, R!Goes(p, f),
           f.pc \in {"params", "cap", "upsert", "check"} => f.todo # {}
    PROVE  /\ recoRnd' \in [Rounds -> RecoRound]
           /\ \A q \in Rounds : recoRnd'[q].pc \in {"params", "cap", "upsert", "check"} => recoRnd'[q].todo # {}
BY DEF RecoInv, R!Goes

\* Steps that write no status.
LEMMA RoundReads ==
    ASSUME RecoInv, NEW p \in Rounds,
           R!Load(p) \/ R!LookupParams(p) \/ R!OfficialPower(p) \/ R!SafetyEvents(p) \/ R!RoundFails(p)
    PROVE  RecoInv'
<1>1. UNCHANGED <<status, condemned, jobs>>
  BY DEF R!Load, R!LookupParams, R!OfficialPower, R!SafetyEvents, R!RoundFails, R!World
<1>2. R!Idle \in RecoRound /\ recoRnd[p] \in RecoRound
  BY DEF RecoInv, RecoRound, R!Idle
<1>3. \E f \in RecoRound : R!Goes(p, f) /\ (f.pc \in {"params", "cap", "upsert", "check"} => f.todo # {})
  <2>1. CASE R!Load(p)
    <3>1. PICK T : /\ T \subseteq Recos
                   /\ R!Goes(p, [R!Idle EXCEPT !.pc = IF T = {} THEN "safety" ELSE "params", !.todo = T])
      <4>1. \E unknown \in {{}} \cup {{s} : s \in SNs} :
              LET T == {r \in Recos : R!Aggregate(R!RowsOf(R!InOrder(R!Selected(r, unknown))))}
              IN R!Goes(p, [R!Idle EXCEPT !.pc = IF T = {} THEN "safety" ELSE "params", !.todo = T])
        BY <2>1 DEF R!Load
      <4>2. PICK unknown \in {{}} \cup {{s} : s \in SNs} :
              LET T == {r \in Recos : R!Aggregate(R!RowsOf(R!InOrder(R!Selected(r, unknown))))}
              IN R!Goes(p, [R!Idle EXCEPT !.pc = IF T = {} THEN "safety" ELSE "params", !.todo = T])
        BY <4>1, Zenon
      <4> DEFINE U == {r \in Recos : R!Aggregate(R!RowsOf(R!InOrder(R!Selected(r, unknown))))}
      <4>3. U \subseteq Recos
        OBVIOUS
      <4>4. R!Goes(p, [R!Idle EXCEPT !.pc = IF U = {} THEN "safety" ELSE "params", !.todo = U])
        BY <4>2, Zenon
      <4> HIDE DEF U
      <4> QED BY <4>3, <4>4, Zenon
    <3> DEFINE f == [R!Idle EXCEPT !.pc = IF T = {} THEN "safety" ELSE "params", !.todo = T]
    <3>2. f \in RecoRound /\ f.todo = T /\ (T = {} => f.pc = "safety")
      BY <1>2, <3>1 DEF RecoRound
    <3>3. R!Goes(p, f)
      BY <3>1
    <3> HIDE DEF f
    <3> QED BY <3>2, <3>3
  <2>2. CASE R!LookupParams(p)
    <3>1. recoRnd[p].pc = "params"
      BY <2>2 DEF R!LookupParams, R!At
    <3>2. [recoRnd[p] EXCEPT !.pc = "cap"] \in RecoRound /\ [recoRnd[p] EXCEPT !.pc = "cap"].todo # {}
      BY <1>2, <3>1 DEF RecoInv, RecoRound
    <3>3. R!Goes(p, [recoRnd[p] EXCEPT !.pc = "cap"]) \/ R!Goes(p, R!After(p))
      BY <2>2 DEF R!LookupParams
    <3> QED BY <3>1, <3>2, <3>3, RoundGoesOn
  <2>3. CASE R!OfficialPower(p)
    <3>1. recoRnd[p].pc = "cap" /\ R!Goes(p, [recoRnd[p] EXCEPT !.pc = "upsert", !.params = R!WithinPowerCap(Power[R!Current(p)], official)])
      BY <2>3 DEF R!OfficialPower, R!At
    <3>2. R!WithinPowerCap(Power[R!Current(p)], official) \in BOOLEAN
      BY DEF R!WithinPowerCap
    <3>3. [recoRnd[p] EXCEPT !.pc = "upsert", !.params = R!WithinPowerCap(Power[R!Current(p)], official)] \in RecoRound
      BY <1>2, <3>2 DEF RecoRound
    <3>4. [recoRnd[p] EXCEPT !.pc = "upsert", !.params = R!WithinPowerCap(Power[R!Current(p)], official)].todo # {}
      BY <1>2, <3>1 DEF RecoInv, RecoRound
    <3> QED BY <3>1, <3>3, <3>4
  <2>4. CASE R!SafetyEvents(p)
    <3> DEFINE active == {r \in Recos : status[r] \in {"candidate", "published"}}
               f == [R!Idle EXCEPT !.pc = "check", !.todo = active, !.events = [x \in DOMAIN jobs |-> jobs[x].hits]]
    <3>1. R!Goes(p, R!Idle) \/ (active # {} /\ R!Goes(p, f))
      BY <2>4 DEF R!SafetyEvents
    <3>2. [x \in DOMAIN jobs |-> jobs[x].hits] \in Windows
      BY DEF RecoInv, Windows
    <3>3. f \in RecoRound /\ f.todo = active
      BY <1>2, <3>2 DEF RecoRound
    <3>4. R!Idle.pc = "idle"
      BY DEF R!Idle
    <3> HIDE DEF active, f
    <3> QED BY <1>2, <3>1, <3>3, <3>4
  <2>5. CASE R!RoundFails(p)
    BY <1>2, <2>5 DEF R!RoundFails, R!Idle
  <2> QED BY <2>1, <2>2, <2>3, <2>4, <2>5
<1> QED BY <1>1, <1>3, RoundShape DEF RecoInv, R!CondemnedStaysRemoved

\* upsertRecommendation: removed wins over whatever the round has in hand.
LEMMA UpsertInv == ASSUME RecoInv, NEW p \in Rounds, R!Upsert(p) PROVE RecoInv'
<1> DEFINE new == IF recoRnd[p].params THEN "candidate" ELSE "removed"
<1>1. /\ recoRnd[p].pc = "upsert" /\ UNCHANGED jobs /\ R!Goes(p, R!After(p))
      /\ status' = [status EXCEPT ![R!Current(p)] = R!Upserted(@, new)]
      /\ condemned' = IF new = "removed" THEN condemned \cup {R!Current(p)} ELSE condemned
  BY DEF R!Upsert, R!At, R!World
<1>2. R!Current(p) \in Recos /\ R!After(p) \in RecoRound
      /\ (R!After(p).pc = "safety" \/ (R!After(p).pc = "params" /\ R!After(p).todo # {}))
  BY <1>1, RoundGoesOn
<1>3. /\ recoRnd' \in [Rounds -> RecoRound]
      /\ \A q \in Rounds : recoRnd'[q].pc \in {"params", "cap", "upsert", "check"} => recoRnd'[q].todo # {}
  BY <1>1, <1>2, RoundShape
<1>4. status' \in [Recos -> Statuses] /\ condemned' \subseteq Recos /\ R!CondemnedStaysRemoved'
  BY <1>1, <1>2 DEF RecoInv, Statuses, R!Upserted, R!CondemnedStaysRemoved
<1> QED BY <1>1, <1>3, <1>4 DEF RecoInv

LEMMA SafetyCheckInv == ASSUME RecoInv, NEW p \in Rounds, R!SafetyCheck(p) PROVE RecoInv'
<1> DEFINE r == R!Current(p)
           f == IF recoRnd[p].todo = {r} THEN R!Idle ELSE [recoRnd[p] EXCEPT !.todo = @ \ {r}]
<1>1. /\ recoRnd[p].pc = "check" /\ UNCHANGED jobs /\ R!Goes(p, f)
      /\ \E unsafe \in BOOLEAN :
           /\ status' = [status EXCEPT ![r] = IF unsafe THEN "removed" ELSE @]
           /\ condemned' = IF unsafe THEN condemned \cup {r} ELSE condemned
  BY DEF R!SafetyCheck, R!SafetyUnpublish, R!At, R!World
<1>2. r \in Recos
  BY <1>1, RoundGoesOn
<1>3. recoRnd[p] \in RecoRound /\ R!Idle \in RecoRound /\ R!Idle.pc = "idle" /\ recoRnd[p].todo # {}
  BY <1>1 DEF RecoInv, RecoRound, R!Idle
<1>4. f \in RecoRound /\ (f.pc = "idle" \/ f.todo # {})
  <2>1. CASE recoRnd[p].todo = {r}
    BY <1>3, <2>1
  <2>2. CASE recoRnd[p].todo # {r}
    <3>1. recoRnd[p].todo \ {r} # {}
      BY <1>3, <2>2
    <3> QED BY <1>3, <2>2, <3>1 DEF RecoRound
  <2> QED BY <2>1, <2>2
<1> HIDE DEF f
<1>5. /\ recoRnd' \in [Rounds -> RecoRound]
      /\ \A q \in Rounds : recoRnd'[q].pc \in {"params", "cap", "upsert", "check"} => recoRnd'[q].todo # {}
  BY <1>1, <1>4, RoundShape
<1>6. status' \in [Recos -> Statuses] /\ condemned' \subseteq Recos /\ R!CondemnedStaysRemoved'
  BY <1>1, <1>2 DEF RecoInv, Statuses, R!CondemnedStaysRemoved
<1> QED BY <1>1, <1>5, <1>6 DEF RecoInv

\* The invariant of reco-job: rounds of any number of processes, and people.
THEOREM RecoInvariant == R!Spec => []RecoInv
<1>1. RecoInv /\ [R!Next]_R!vars => RecoInv'
  <2> SUFFICES ASSUME RecoInv, [R!Next]_R!vars PROVE RecoInv'
    OBVIOUS
  <2>1. CASE UNCHANGED R!vars
    BY <2>1 DEF R!vars, RecoInv, R!CondemnedStaysRemoved
  <2>2. CASE R!Next
    BY <2>2, PeopleInv, RoundReads, UpsertInv, SafetyCheckInv DEF R!Next, R!RoundStep
  <2> QED BY <2>1, <2>2
<1> QED BY <1>1, RecoInit, PTL DEF R!Spec

\* What upsertRecommendation or safetyPass has taken back stays removed, whatever
\* rounds and approvals write afterwards.
THEOREM TakenBackForGood == R!Spec => []CondemnedStaysRemoved
<1>1. RecoInv => CondemnedStaysRemoved
  BY DEF RecoInv, CondemnedStaysRemoved
<1> QED BY <1>1, RecoInvariant, PTL
-----------------------------------------------------------------------------
(* HealthApi. A scan is verified only when its window holds fewer than     *)
(* MaxScans verified ones; that no other window overflows with it needs    *)
(* the times of the scans, and that a code turns suspicious only beside an *)
(* earlier verified scan needs their ids.                                  *)

ScanRec == [id : Nat, code : Codes, user : Users \cup {A!NoOne}, ok : BOOLEAN, at : Nat]
ScansOrdered ==
    /\ scans \subseteq ScanRec /\ IsFiniteSet(scans)
    /\ \A s \in scans : s.id < Cardinality(scans) /\ s.at <= time
ApiInv == A!TypeOK /\ ScansOrdered /\ A!CodesAndOrdersSound

\* The instance has its own name for Cardinality.
LEMMA SameCardinality == ASSUME NEW S PROVE A!Cardinality(S) = Cardinality(S)
BY Zenon DEF A!Cardinality, Cardinality

LEMMA ApiInit == A!ApiConstants /\ A!Init => ApiInv
<1> SUFFICES ASSUME A!ApiConstants, A!Init PROVE ApiInv
  OBVIOUS
<1>1. A!TypeOK
  BY DEF A!ApiConstants, A!Init, A!TypeOK, A!NoAttr
<1>2. ScansOrdered
  BY FS_EmptySet DEF A!Init, ScansOrdered
<1>3. A!CodesAndOrdersSound
  BY DEF A!Init, A!CodesAndOrdersSound, A!OkScans, A!NoAttr
<1> QED BY <1>1, <1>2, <1>3 DEF ApiInv

LEMMA ApiNumbers ==
    ASSUME A!ApiConstants
    PROVE  MaxScans \in Nat /\ MaxScans > 0 /\ Threshold \in Nat /\ Threshold > 0 /\ Window \in Nat /\ Window > 0
BY DEF A!ApiConstants

\* What the property says of one scan
LEMMA WindowBound ==
    ASSUME A!CodesAndOrdersSound, NEW c \in Codes, NEW s \in A!OkScans(c)
    PROVE  Cardinality({t \in A!OkScans(c) : s.at <= t.at /\ t.at < s.at + Window}) <= MaxScans
<1>1. A!Cardinality({t \in A!OkScans(c) : s.at <= t.at /\ t.at < s.at + Window}) <= MaxScans
  BY Zenon DEF A!CodesAndOrdersSound
<1> QED BY <1>1, SameCardinality, Zenon

\* What the instance says of the refusals and of a record, with Cardinality
LEMMA ApiCounts ==
    ASSUME NEW c \in Codes, NEW u \in Users \cup {A!NoOne}
    PROVE  /\ A!Replayed(c) <=> MaxScans > 0 /\ Cardinality(A!Recent(c)) >= MaxScans
           /\ A!DistinctUsers(c, u) = Cardinality({s.user : s \in A!Recent(c)} \ {A!NoOne})
                + IF u # A!NoOne /\ ~\E s \in A!OkScans(c) : s.user = u THEN 1 ELSE 0
           /\ \A ok : A!Record(c, u, ok) <=>
                scans' = scans \cup {[id |-> Cardinality(scans), code |-> c, user |-> u, ok |-> ok, at |-> time]}
<1>1. A!Cardinality(A!Recent(c)) = Cardinality(A!Recent(c))
  BY SameCardinality, Zenon
<1>2. A!Cardinality({s.user : s \in A!Recent(c)} \ {A!NoOne}) = Cardinality({s.user : s \in A!Recent(c)} \ {A!NoOne})
  BY SameCardinality, Zenon
<1>3. A!Cardinality(scans) = Cardinality(scans)
  BY SameCardinality, Zenon
<1>4. A!Replayed(c) <=> MaxScans > 0 /\ Cardinality(A!Recent(c)) >= MaxScans
  BY <1>1, Zenon DEF A!Replayed
<1>5. A!DistinctUsers(c, u) = Cardinality({s.user : s \in A!Recent(c)} \ {A!NoOne})
                + IF u # A!NoOne /\ ~\E s \in A!OkScans(c) : s.user = u THEN 1 ELSE 0
  BY <1>2, Zenon DEF A!DistinctUsers
<1>6. \A ok : A!Record(c, u, ok) <=>
        scans' = scans \cup {[id |-> Cardinality(scans), code |-> c, user |-> u, ok |-> ok, at |-> time]}
  BY <1>3, Zenon DEF A!Record
<1> QED BY <1>4, <1>5, <1>6

\* The window of a scan before which there was room for one more.
LEMMA WindowHasRoom ==
    ASSUME A!ApiConstants, ApiInv, NEW c \in Codes, NEW n \in ScanRec, n.code = c, n.at = time,
           Cardinality(A!Recent(c)) < MaxScans, scans' = scans \cup {n},
           NEW s \in scans', s.code = c, s.ok, A!OkScans(c)' \subseteq A!OkScans(c) \cup {n}
    PROVE  Cardinality({t \in A!OkScans(c)' : s.at <= t.at /\ t.at < s.at + Window}) <= MaxScans
<1> DEFINE W == {t \in A!OkScans(c)' : s.at <= t.at /\ t.at < s.at + Window}
<1>1. time \in Nat /\ Window \in Nat \ {0} /\ MaxScans \in Nat \ {0}
  BY DEF A!ApiConstants, ApiInv, A!TypeOK
<1>2. \A t \in scans \cup {n} : t.at \in Nat /\ t.at <= time
  BY <1>1 DEF ApiInv, ScansOrdered, ScanRec
<1>3. IsFiniteSet(A!OkScans(c)) /\ A!OkScans(c) \subseteq scans
  BY FS_Subset DEF ApiInv, ScansOrdered, A!OkScans
<1>4. IsFiniteSet(A!Recent(c)) /\ A!Recent(c) \subseteq scans
  BY <1>3, FS_Subset DEF A!Recent
<1>5. CASE time < s.at + Window
  <2>1. W \subseteq A!Recent(c) \cup {n}
    <3> SUFFICES ASSUME NEW t \in W PROVE t \in A!Recent(c) \cup {n}
      OBVIOUS
    <3>1. t = n \/ (t \in A!OkScans(c) /\ s.at <= t.at)
      OBVIOUS
    <3>2. CASE t \in A!OkScans(c) /\ s.at <= t.at
      <4>1. time < t.at + Window
        BY <1>1, <1>2, <1>3, <1>5, <3>2
      <4> QED BY <3>2, <4>1 DEF A!Recent
    <3> QED BY <3>1, <3>2
  <2>2. IsFiniteSet(A!Recent(c) \cup {n}) /\ Cardinality(A!Recent(c) \cup {n}) <= Cardinality(A!Recent(c)) + 1
    <3>1. Cardinality(A!Recent(c)) \in Nat
      BY <1>4, FS_CardinalityType
    <3>2. /\ IsFiniteSet(A!Recent(c) \cup {n})
          /\ Cardinality(A!Recent(c) \cup {n}) = IF n \in A!Recent(c) THEN Cardinality(A!Recent(c))
                                                  ELSE Cardinality(A!Recent(c)) + 1
      BY <1>4, FS_AddElement
    <3> QED BY <3>1, <3>2
  <2>3. Cardinality(W) <= Cardinality(A!Recent(c) \cup {n})
    BY <2>1, <2>2, FS_Subset
  <2>4. IsFiniteSet(W)
    BY <2>1, <2>2, FS_Subset
  <2>5. /\ Cardinality(W) \in Nat /\ Cardinality(A!Recent(c)) \in Nat
        /\ Cardinality(A!Recent(c) \cup {n}) \in Nat
    BY <1>4, <2>2, <2>4, FS_CardinalityType
  <2> HIDE DEF W
  <2>6. Cardinality(W) <= MaxScans
    BY <1>1, <2>2, <2>3, <2>5
  <2> QED BY <2>6 DEF W
<1>6. CASE ~(time < s.at + Window)
  <2>1. s # n /\ s \in A!OkScans(c)
    BY <1>1, <1>6 DEF A!OkScans
  <2>2. ~(n.at < s.at + Window)
    BY <1>6
  <2>3. W \subseteq {t \in A!OkScans(c) : s.at <= t.at /\ t.at < s.at + Window}
    BY <2>2
  <2>4. Cardinality({t \in A!OkScans(c) : s.at <= t.at /\ t.at < s.at + Window}) <= MaxScans
    BY <2>1, WindowBound DEF ApiInv
  <2> DEFINE V == {t \in A!OkScans(c) : s.at <= t.at /\ t.at < s.at + Window}
  <2>5. IsFiniteSet(V)
    BY <1>3, FS_Subset
  <2>6. IsFiniteSet(W) /\ Cardinality(W) <= Cardinality(V)
    BY <2>3, <2>5, FS_Subset
  <2>7. Cardinality(V) \in Nat /\ Cardinality(W) \in Nat
    BY <2>5, <2>6, FS_CardinalityType
  <2>8. Cardinality(V) <= MaxScans
    BY <2>4
  <2> HIDE DEF V, W
  <2>9. Cardinality(W) <= MaxScans
    BY <1>1, <2>6, <2>7, <2>8
  <2> QED BY <2>9 DEF W
<1> QED BY <1>5, <1>6

\* A suspicion has a verified scan behind it.
LEMMA SuspicionHasScan ==
    ASSUME A!ApiConstants, ApiInv, NEW c \in Codes, NEW u \in Users \cup {A!NoOne},
           A!Replayed(c) \/ A!SuspiciousByScans(A!DistinctUsers(c, u))
    PROVE  A!Recent(c) # {}
<1> SUFFICES ASSUME A!Recent(c) = {} PROVE FALSE
  OBVIOUS
<1>1. Cardinality({}) = 0
  BY FS_EmptySet
<1>2. ~A!Replayed(c)
  <2>1. Cardinality(A!Recent(c)) = 0
    BY <1>1
  <2>2. A!Replayed(c) <=> MaxScans > 0 /\ Cardinality(A!Recent(c)) >= MaxScans
    BY ApiCounts, Zenon
  <2> QED BY <2>1, <2>2, ApiNumbers
<1>3. Cardinality({s.user : s \in A!Recent(c)} \ {A!NoOne}) = 0
  <2>1. {s.user : s \in A!Recent(c)} \ {A!NoOne} = {}
    OBVIOUS
  <2> QED BY <1>1, <2>1, Zenon
<1>4. A!DistinctUsers(c, u) = 0 + IF u # A!NoOne /\ ~\E s \in A!OkScans(c) : s.user = u THEN 1 ELSE 0
  BY <1>3, ApiCounts
<1>5. A!DistinctUsers(c, u) \in {0, 1}
  BY <1>4
<1>6. ~A!SuspiciousByScans(A!DistinctUsers(c, u))
  BY <1>5, ApiNumbers DEF A!SuspiciousByScans
<1> QED BY <1>2, <1>6

LEMMA VerifyInv ==
    ASSUME A!ApiConstants, ApiInv, NEW c \in Codes, NEW u \in Users \cup {A!NoOne}, A!Verify(c, u)
    PROVE  ApiInv'
<1> DEFINE suspect == A!Replayed(c) \/ A!SuspiciousByScans(A!DistinctUsers(c, u))
           ok == codeStatus[c] = "active" /\ ~suspect
           n == [id |-> Cardinality(scans), code |-> c, user |-> u, ok |-> ok, at |-> time]
<1>1. /\ scans' = scans \cup {n} /\ UNCHANGED <<time, attr>>
      /\ codeStatus' = [codeStatus EXCEPT ![c] = IF @ = "active" /\ suspect THEN "suspicious" ELSE @]
  BY ApiCounts, Zenon DEF A!Verify, A!ConsumeScan
<1>2. time \in Nat /\ IsFiniteSet(scans) /\ Cardinality(scans) \in Nat
  BY FS_CardinalityType DEF ApiInv, A!TypeOK, ScansOrdered
<1>3. n \in ScanRec /\ n \notin scans /\ n.id = Cardinality(scans) /\ n.code = c /\ n.ok = ok /\ n.at = time
  BY <1>2 DEF ScanRec, ApiInv, ScansOrdered
<1> HIDE DEF n
<1>4. ScansOrdered'
  <2>1. IsFiniteSet(scans') /\ Cardinality(scans') = Cardinality(scans) + 1
    BY <1>1, <1>2, <1>3, FS_AddElement
  <2>2. \A s \in scans : s.id \in Nat
    BY DEF ApiInv, ScansOrdered, ScanRec
  <2>3. \A s \in scans' : s.id < Cardinality(scans')
    BY <1>1, <1>2, <1>3, <2>1, <2>2 DEF ApiInv, ScansOrdered
  <2> QED BY <1>1, <1>2, <1>3, <2>1, <2>3 DEF ApiInv, ScansOrdered
<1>5. A!TypeOK'
  BY <1>1 DEF ApiInv, A!TypeOK
<1>6. ASSUME NEW d \in Codes, NEW s \in A!OkScans(d)'
      PROVE  Cardinality({t \in A!OkScans(d)' : s.at <= t.at /\ t.at < s.at + Window}) <= MaxScans
  <2>1. A!OkScans(d)' \subseteq A!OkScans(d) \cup {n}
    BY <1>1 DEF A!OkScans
  <2>2. s \in scans' /\ s.code = d /\ s.ok
    BY DEF A!OkScans
  <2>3. CASE d = c /\ ok
    <3>1. IsFiniteSet(A!Recent(c))
      BY <1>2, FS_Subset DEF A!Recent, A!OkScans
    <3>2. Cardinality(A!Recent(c)) < MaxScans
      <4>1. Cardinality(A!Recent(c)) \in Nat
        BY <3>1, FS_CardinalityType
      <4>2. ~A!Replayed(c)
        BY <2>3
      <4>3. A!Replayed(c) <=> MaxScans > 0 /\ Cardinality(A!Recent(c)) >= MaxScans
        BY ApiCounts, Zenon
      <4> QED BY <4>1, <4>2, <4>3, ApiNumbers
    <3> QED BY <1>1, <1>3, <2>1, <2>2, <2>3, <3>2, WindowHasRoom
  <2>4. CASE ~(d = c /\ ok)
    <3>1. A!OkScans(d)' = A!OkScans(d)
      BY <1>1, <1>3, <2>4 DEF A!OkScans
    <3>2. s \in A!OkScans(d)
      BY <3>1
    <3>3. Cardinality({t \in A!OkScans(d) : s.at <= t.at /\ t.at < s.at + Window}) <= MaxScans
      BY <3>2, WindowBound DEF ApiInv
    <3> QED BY <3>1, <3>3
  <2> QED BY <2>3, <2>4
<1>7. ASSUME NEW d \in Codes, codeStatus'[d] = "suspicious"
      PROVE  \E s, t \in scans' : {s.code, t.code} = {d} /\ s.ok /\ ~t.ok /\ s.id < t.id
  <2>1. CASE codeStatus[d] = "suspicious"
    BY <1>1, <2>1 DEF ApiInv, A!CodesAndOrdersSound
  <2>2. CASE codeStatus[d] # "suspicious"
    <3>1. d = c /\ suspect
      BY <1>1, <1>7, <2>2 DEF ApiInv, A!TypeOK
    <3>2. PICK s \in A!Recent(c) : TRUE
      BY <3>1, SuspicionHasScan
    <3>3. s \in scans /\ s.ok /\ s.code = c /\ s.id < Cardinality(scans)
      BY <3>2 DEF A!Recent, A!OkScans, ApiInv, ScansOrdered
    <3>4. ~n.ok
      BY <1>3, <3>1
    <3> QED BY <1>1, <1>3, <3>1, <3>3, <3>4
  <2> QED BY <2>1, <2>2
<1>8. \A i, j \in Reminders : attr'[i].order # A!NoOne =>
        /\ i \notin Unsent
        /\ attr'[i].order = attr'[j].order => i = j
  BY <1>1 DEF ApiInv, A!CodesAndOrdersSound
<1>9. A!CodesAndOrdersSound'
  <2>1. \A d \in Codes : \A s \in A!OkScans(d)' :
          A!Cardinality({t \in A!OkScans(d)' : s.at <= t.at /\ t.at < s.at + Window}) <= MaxScans
    BY <1>6, SameCardinality, Zenon
  <2> QED BY <1>7, <1>8, <2>1, Zenon DEF A!CodesAndOrdersSound
<1> QED BY <1>4, <1>5, <1>9 DEF ApiInv

\* Time, minting and revoking, clicks and orders: no scan changes, and an order
\* goes to a reminder that has none only when no other has it.
LEMMA OtherRequestsInv ==
    ASSUME A!ApiConstants, ApiInv,
           \/ A!Tick \/ A!OrderStep
           \/ \E c \in Codes : A!MintCode(c) \/ A!Revoke(c)
    PROVE  ApiInv'
<1>1. UNCHANGED scans
  BY DEF A!Tick, A!OrderStep, A!Click, A!Attribute, A!MintCode, A!Revoke
<1>2. /\ codeStatus' \in [Codes -> {"absent", "active", "suspicious", "revoked"}]
      /\ \A c \in Codes : codeStatus'[c] = "suspicious" => codeStatus[c] = "suspicious"
  BY DEF A!Tick, A!OrderStep, A!Click, A!Attribute, A!MintCode, A!Revoke, A!Minted, ApiInv, A!TypeOK
<1>3. time' \in 0 .. MaxTime /\ time <= time'
  BY DEF A!Tick, A!OrderStep, A!Click, A!Attribute, A!MintCode, A!Revoke, ApiInv, A!TypeOK, A!ApiConstants
<1> DEFINE AttrSound ==
             /\ attr' \in [Reminders -> [user : Users \cup {A!NoOne}, order : Orders \cup {A!NoOne}]]
             /\ \A i, j \in Reminders : attr'[i].order # A!NoOne =>
                  /\ i \notin Unsent
                  /\ attr'[i].order = attr'[j].order => i = j
<1>4. AttrSound
  <2>1. CASE UNCHANGED attr
    BY <2>1 DEF ApiInv, A!TypeOK, A!CodesAndOrdersSound
  <2>2. ASSUME NEW i \in Reminders, NEW u \in Users, A!Click(i, u) PROVE AttrSound
    BY <2>2 DEF A!Click, ApiInv, A!TypeOK, A!CodesAndOrdersSound
  <2>3. ASSUME NEW i \in Reminders, NEW o \in Orders, A!Attribute(i, o) PROVE AttrSound
    BY <2>3 DEF A!Attribute, A!Assignable, ApiInv, A!TypeOK, A!CodesAndOrdersSound
  <2> QED BY <2>1, <2>2, <2>3 DEF A!OrderStep, A!Tick, A!MintCode, A!Revoke
<1>5. ScansOrdered'
  <2>1. time \in Nat /\ time' \in Nat /\ \A s \in scans : s.at \in Nat
    BY <1>3 DEF ApiInv, A!TypeOK, ScansOrdered, ScanRec
  <2>2. \A s \in scans : s.at <= time'
    BY <1>3, <2>1 DEF ApiInv, ScansOrdered
  <2> QED BY <1>1, <2>2 DEF ApiInv, ScansOrdered
<1>6. A!TypeOK'
  BY <1>2, <1>3, <1>4 DEF A!TypeOK
<1>7. A!CodesAndOrdersSound'
  <2>1. \A c \in Codes : A!OkScans(c)' = A!OkScans(c)
    BY <1>1 DEF A!OkScans
  <2> QED BY <1>1, <1>2, <1>4, <2>1 DEF ApiInv, A!CodesAndOrdersSound
<1> QED BY <1>5, <1>6, <1>7 DEF ApiInv

\* Whichever codes are scanned and whatever is clicked and ordered.
THEOREM ApiInvariant == A!Spec => []ApiInv
<1>1. A!Init => ApiInv
  BY ApiInit, ServiceConstants
<1>2. ApiInv /\ [A!Next]_A!vars => ApiInv'
  <2> SUFFICES ASSUME ApiInv, [A!Next]_A!vars PROVE ApiInv'
    OBVIOUS
  <2>1. CASE UNCHANGED A!vars
    <3>1. UNCHANGED <<time, codeStatus, scans, attr>>
      BY <2>1 DEF A!vars
    <3>2. ScansOrdered' /\ A!TypeOK'
      BY <3>1 DEF ApiInv, ScansOrdered, A!TypeOK
    <3>3. A!CodesAndOrdersSound'
      BY <3>1 DEF ApiInv, A!CodesAndOrdersSound, A!OkScans
    <3> QED BY <3>2, <3>3 DEF ApiInv
  <2>2. CASE A!Next
    BY <2>2, VerifyInv, OtherRequestsInv, ServiceConstants DEF A!Next, A!CodeStep
  <2> QED BY <2>1, <2>2
<1> QED BY <1>1, <1>2, PTL DEF A!Spec

\* ConsumeScan never verifies more than MaxScans scans of a code in any window
\* and marks a code suspicious only after a verified scan; Attribute gives an
\* order to one sent reminder: for any number of codes, users and requests.
THEOREM CodesAndOrders == A!Spec => []CodesAndOrdersSound
<1>1. ApiInv => CodesAndOrdersSound
  BY DEF ApiInv, CodesAndOrdersSound
<1> QED BY <1>1, ApiInvariant, PTL
-----------------------------------------------------------------------------
(* Param. What a release shows never changes after its COMMIT: later ones  *)
(* only add rows of their own version and mark rows removed with it. The   *)
(* transaction that holds the lock therefore commits what its snapshot     *)
(* file already has, and deltas between two releases say what has changed. *)

Srcs == {"official", "recommended"}
Params == [power : Nat, lit : {"int", "dec"}]
Profile == [id : Nat, src : Srcs, params : Params, added : Nat, removed : Nat]
PlanRow == [src : Srcs, params : Params, tag : Nat]

\* The library of L releases: rows have ids of their own and versions up to L.
Library(ps, L, next) ==
    /\ ps \subseteq Profile /\ IsFiniteSet(ps)
    /\ \A p \in ps : p.id < next /\ 1 <= p.added /\ p.added <= L /\ p.removed <= L
    /\ \A p, q \in ps : p.id = q.id => p = q

\* The rows that the transaction for version ver may add to it.
NewRows(rows, ps, ver, next) ==
    /\ rows \subseteq Profile /\ IsFiniteSet(rows)
    /\ \A r \in rows : r.added = ver /\ r.removed = 0 /\ r.id < next
    /\ \A r, q \in rows : r.id = q.id => r = q
    /\ \A r \in rows, p \in ps : r.id # p.id

\* The instance has its own name for Cardinality.
LEMMA SameParamCardinality == ASSUME NEW S PROVE P!Cardinality(S) = Cardinality(S)
BY Zenon DEF P!Cardinality, Cardinality

\* A set of numbers that has a bound has a greatest one.
LEMMA Greatest ==
    ASSUME NEW N \in Nat, NEW S, S \subseteq 0 .. N, S # {}
    PROVE  P!Max(S) \in S /\ \A y \in S : P!Max(S) >= y
<1> DEFINE Above(x) == {y \in S : y > x}
           T == {Above(x) : x \in S}
<1>1. IsFiniteSet(S)
  <2>1. IsFiniteSet(0 .. N)
    BY FS_Interval
  <2> QED BY <2>1, FS_Subset
<1>2. T # {} /\ T \subseteq FiniteSubsetsOf(S)
  <2>1. \A x \in S : Above(x) \subseteq S /\ IsFiniteSet(Above(x))
    BY <1>1, FS_Subset
  <2> QED BY <2>1 DEF FiniteSubsetsOf
<1>3. PICK m \in T : \A y \in T : ~(<<y, m>> \in StrictSubsetOrdering(S))
  BY <1>2, FS_StrictSubsetOrderingWellFounded, WFMin, Zenon
<1>4. PICK x \in S : m = Above(x)
  OBVIOUS
<1>5. \A y \in S : x >= y
  <2> SUFFICES ASSUME NEW y \in S, ~(x >= y) PROVE FALSE
    OBVIOUS
  <2>1. y \in Above(x) /\ y \notin Above(y) /\ Above(y) \subseteq Above(x)
    <3>1. \A z \in S : z \in Int
      OBVIOUS
    <3>2. x \in Int /\ y \in Int /\ y > x
      BY <3>1
    <3>3. \A z \in S : z > y => z > x
      BY <3>1, <3>2
    <3>4. ~(y > y)
      BY <3>2
    <3> QED BY <3>2, <3>3, <3>4
  <2>2. Above(y) \subseteq S /\ Above(x) \subseteq S /\ Above(y) # Above(x)
    BY <2>1
  <2>3. <<Above(y), Above(x)>> \in StrictSubsetOrdering(S)
    BY <2>1, <2>2 DEF StrictSubsetOrdering
  <2> QED BY <1>3, <1>4, <2>3
<1> QED BY <1>5 DEF P!Max

\* Releases below the newest show the same profiles after a COMMIT.
LEMMA ShownStays ==
    ASSUME NEW ps, NEW L \in Nat, NEW next \in Nat, Library(ps, L, next), NEW remove, NEW rows,
           NewRows(rows, ps, L + 1, next),
           \A p \in ps : p.id \in remove => p.removed = 0,
           NEW v \in 0 .. L
    PROVE  P!Shown(P!EffectiveAt(P!Applied(ps, remove, L + 1, rows), v)) = P!Shown(P!EffectiveAt(ps, v))
<1> DEFINE U(p) == [p EXCEPT !.removed = IF p.id \in remove THEN L + 1 ELSE @]
           S(p) == [id |-> p.id, src |-> p.src, params |-> p.params]
<1>1. \A p \in ps : /\ p \in Profile
                    /\ U(p).id = p.id /\ U(p).src = p.src /\ U(p).params = p.params /\ U(p).added = p.added
                    /\ U(p).removed = IF p.id \in remove THEN L + 1 ELSE p.removed
  BY DEF Library, Profile
<1>2. \A p \in ps : P!IsEffective(U(p), v) <=> P!IsEffective(p, v)
  BY <1>1 DEF P!IsEffective, Library, Profile
<1>3. \A r \in rows : ~P!IsEffective(r, v)
  BY DEF P!IsEffective, NewRows
<1>4. P!Applied(ps, remove, L + 1, rows) = {U(p) : p \in ps} \cup rows
  BY Zenon DEF P!Applied
<1>5. \A p \in ps : S(U(p)) = S(p)
  BY <1>1
<1> HIDE DEF U, S
<1>6. P!EffectiveAt(P!Applied(ps, remove, L + 1, rows), v) = {U(p) : p \in P!EffectiveAt(ps, v)}
  BY <1>2, <1>3, <1>4 DEF P!EffectiveAt
<1>7. \A X : P!Shown(X) = {S(p) : p \in X}
  BY Zenon DEF P!Shown, S
<1>8. {S(q) : q \in {U(p) : p \in P!EffectiveAt(ps, v)}} = {S(p) : p \in P!EffectiveAt(ps, v)}
  <2>1. P!EffectiveAt(ps, v) \subseteq ps
    BY DEF P!EffectiveAt
  <2> QED BY <1>5, <2>1
<1>9. P!Shown(P!EffectiveAt(P!Applied(ps, remove, L + 1, rows), v))
        = {S(q) : q \in {U(p) : p \in P!EffectiveAt(ps, v)}}
  BY <1>6, <1>7, Zenon
<1> QED BY <1>7, <1>8, <1>9, Zenon

\* A client that has release a and applies the delta from a to b has b.
LEMMA DeltaApplies ==
    ASSUME NEW ps, NEW L \in Nat, NEW next \in Nat, Library(ps, L, next), NEW a \in 0 .. L, NEW b \in 0 .. L
    PROVE  {h \in P!Shown(P!EffectiveAt(ps, a)) : \A p \in P!Delta(ps, a, b).removed : p.id # h.id}
             \cup P!Shown(P!Delta(ps, a, b).added)
           = P!Shown(P!EffectiveAt(ps, b))
<1> DEFINE S(p) == [id |-> p.id, src |-> p.src, params |-> p.params]
           Gone == {p \in ps : P!IsEffective(p, a) /\ ~P!IsEffective(p, b)}
           Come == {p \in ps : ~P!IsEffective(p, a) /\ P!IsEffective(p, b)}
<1>1. P!Delta(ps, a, b).removed = Gone /\ P!Delta(ps, a, b).added = Come
  BY DEF P!Delta
<1>2. \A X : P!Shown(X) = {S(p) : p \in X}
  BY Zenon DEF P!Shown
<1>3. \A p \in ps : S(p).id = p.id
  OBVIOUS
<1> HIDE DEF S
<1>4. \A p \in ps, q \in ps : S(p).id = q.id => p = q
  BY <1>3 DEF Library
<1>5. {h \in {S(p) : p \in P!EffectiveAt(ps, a)} : \A p \in Gone : p.id # h.id}
        = {S(p) : p \in {q \in P!EffectiveAt(ps, a) : P!IsEffective(q, b)}}
  <2>1. ASSUME NEW p \in P!EffectiveAt(ps, a)
        PROVE  (\A q \in Gone : q.id # S(p).id) <=> P!IsEffective(p, b)
    BY <1>3, <1>4 DEF P!EffectiveAt
  <2> QED BY <2>1
<1>6. P!EffectiveAt(ps, b) = {q \in P!EffectiveAt(ps, a) : P!IsEffective(q, b)} \cup Come
  BY DEF P!EffectiveAt
<1>7. {S(p) : p \in P!EffectiveAt(ps, b)} = {S(p) : p \in {q \in P!EffectiveAt(ps, a) : P!IsEffective(q, b)}}
                                              \cup {S(p) : p \in Come}
  BY <1>6
<1> QED BY <1>1, <1>2, <1>5, <1>7

\* SetToSeq numbers the rows of a finite plan.
LEMMA PlanNumbered ==
    ASSUME NEW add, IsFiniteSet(add)
    PROVE  LET n == Cardinality(add)
               s == P!SetToSeq(add)
           IN  /\ s \in [1 .. n -> add]
               /\ \A i, j \in 1 .. n : s[i] = s[j] => i = j
               /\ \A a \in add : \E i \in 1 .. n : s[i] = a
<1> DEFINE n == Cardinality(add)
           s == P!SetToSeq(add)
<1>1. n \in Nat /\ ExistsBijection(1 .. n, add)
  BY FS_CardinalityType, Zenon
<1>2. PICK f \in Bijection(1 .. n, add) : TRUE
  BY <1>1 DEF ExistsBijection
<1>3. f \in [1 .. n -> add] /\ \A i, j \in 1 .. n : f[i] = f[j] => i = j
  BY <1>2 DEF Bijection, Injection, IsInjective
<1>4. f \in [1 .. n -> add] /\ P!IsInjective(f)
  BY <1>3 DEF P!IsInjective
<1>5. s = CHOOSE g \in [1 .. n -> add] : P!IsInjective(g)
  BY SameParamCardinality, Zenon DEF P!SetToSeq
<1>6. s \in [1 .. n -> add] /\ P!IsInjective(s)
  BY <1>4, <1>5, Zenon
<1>7. s \in Injection(1 .. n, add)
  BY <1>6 DEF P!IsInjective, Injection, IsInjective
<1>8. s \in Surjection(1 .. n, add)
  <2>1. Cardinality(1 .. n) = n
    BY <1>1, FS_Interval
  <2> HIDE DEF s, n
  <2>2. Cardinality(1 .. n) = Cardinality(add)
    BY <2>1 DEF n
  <2> QED BY <1>7, <2>2, FS_Injection
<1> HIDE DEF s, n
<1>9. \A a \in add : \E i \in 1 .. n : s[i] = a
  BY <1>8 DEF Surjection
<1> QED BY <1>6, <1>9 DEF P!IsInjective, n, s

\* Rows gives each row of a finite plan an id of its own, from nextId on.
LEMMA RowsNumbered ==
    ASSUME NEW add, IsFiniteSet(add), add \subseteq PlanRow, NEW ver \in Nat, nextId \in Nat
    PROVE  /\ P!Rows(add, ver) \subseteq Profile /\ IsFiniteSet(P!Rows(add, ver))
           /\ Cardinality(P!Rows(add, ver)) = Cardinality(add)
           /\ \A r \in P!Rows(add, ver) : /\ r.added = ver /\ r.removed = 0
                                          /\ nextId <= r.id /\ r.id < nextId + Cardinality(add)
           /\ \A r, q \in P!Rows(add, ver) : r.id = q.id => r = q
<1> DEFINE n == Cardinality(add)
           s == P!SetToSeq(add)
           Row(i) == [id |-> nextId + i - 1, src |-> s[i].src, params |-> s[i].params, added |-> ver, removed |-> 0]
<1>1. n \in Nat /\ ExistsBijection(1 .. n, add)
  BY FS_CardinalityType, Zenon
<1>2. s \in [1 .. n -> add] /\ \A i, j \in 1 .. n : s[i] = s[j] => i = j
  BY PlanNumbered
<1>3. P!Rows(add, ver) = {Row(i) : i \in 1 .. n}
  <2>1. DOMAIN s = 1 .. n
    BY <1>2
  <2> QED BY <2>1, Zenon DEF P!Rows
<1> HIDE DEF n, s
<1>4. \A i \in 1 .. n : /\ Row(i) \in Profile /\ Row(i).id = nextId + i - 1
                        /\ Row(i).added = ver /\ Row(i).removed = 0
  <2> SUFFICES ASSUME NEW i \in 1 .. n
               PROVE  /\ Row(i) \in Profile /\ Row(i).id = nextId + i - 1
                      /\ Row(i).added = ver /\ Row(i).removed = 0
    OBVIOUS
  <2>1. s[i] \in PlanRow
    BY <1>2
  <2>2. s[i].src \in Srcs /\ s[i].params \in Params
    BY <2>1 DEF PlanRow
  <2>3. nextId + i - 1 \in Nat
    BY <1>1
  <2> QED BY <2>2, <2>3 DEF Profile
<1> HIDE DEF Row
<1>5. \A i, j \in 1 .. n : Row(i).id = Row(j).id => i = j
  BY <1>1, <1>4
<1>6. IsFiniteSet(P!Rows(add, ver)) /\ Cardinality(P!Rows(add, ver)) = n
  <2> DEFINE g == [i \in 1 .. n |-> Row(i)]
  <2>1. g \in Bijection(1 .. n, P!Rows(add, ver))
    BY <1>3, <1>5 DEF Bijection, Injection, Surjection, IsInjective
  <2>2. ExistsBijection(1 .. n, P!Rows(add, ver))
    BY <2>1 DEF ExistsBijection
  <2>3. IsFiniteSet(1 .. n)
    BY <1>1, FS_Interval
  <2>4. IsFiniteSet(P!Rows(add, ver))
    BY <2>2, <2>3, FS_Bijection
  <2>5. Cardinality(P!Rows(add, ver)) = n
    BY <1>1, <2>2, FS_CountingElements
  <2> QED BY <2>4, <2>5
<1>7. \A r \in P!Rows(add, ver) : r.added = ver /\ r.removed = 0 /\ nextId <= r.id /\ r.id < nextId + n
  BY <1>1, <1>3, <1>4
<1>8. \A r, q \in P!Rows(add, ver) : r.id = q.id => r = q
  BY <1>3, <1>5
<1>9. P!Rows(add, ver) \subseteq Profile
  BY <1>3, <1>4
<1> QED BY <1>6, <1>7, <1>8, <1>9 DEF n

\* A COMMIT makes a library of it with one more release.
LEMMA LibraryGrows ==
    ASSUME NEW ps, NEW L \in Nat, NEW next \in Nat, Library(ps, L, next), NEW remove, NEW rows,
           NewRows(rows, ps, L + 1, next)
    PROVE  Library(P!Applied(ps, remove, L + 1, rows), L + 1, next)
<1> DEFINE U(p) == [p EXCEPT !.removed = IF p.id \in remove THEN L + 1 ELSE @]
           new == P!Applied(ps, remove, L + 1, rows)
<1>1. \A p \in ps : /\ U(p) \in Profile /\ U(p).id = p.id /\ U(p).added = p.added /\ U(p).removed <= L + 1
  BY DEF Library, Profile
<1>2. new = {U(p) : p \in ps} \cup rows
  BY Zenon DEF P!Applied
<1> HIDE DEF U, new
<1>3. new \subseteq Profile
  BY <1>1, <1>2 DEF NewRows
<1>4. IsFiniteSet(new)
  <2> DEFINE g == [p \in ps |-> U(p)]
  <2>1. g \in Surjection(ps, {U(p) : p \in ps})
    BY DEF Surjection
  <2>2. IsFiniteSet(ps) /\ IsFiniteSet(rows)
    BY DEF Library, NewRows
  <2>3. IsFiniteSet({U(p) : p \in ps})
    BY <2>1, <2>2, FS_Surjection
  <2> QED BY <1>2, <2>2, <2>3, FS_Union
<1>5. \A p \in new : p.id < next /\ 1 <= p.added /\ p.added <= L + 1 /\ p.removed <= L + 1
  <2>1. \A p \in ps : U(p).id < next /\ 1 <= U(p).added /\ U(p).added <= L + 1 /\ U(p).removed <= L + 1
    <3> SUFFICES ASSUME NEW p \in ps
                 PROVE  U(p).id < next /\ 1 <= U(p).added /\ U(p).added <= L + 1 /\ U(p).removed <= L + 1
      OBVIOUS
    <3>1. p.added \in Nat /\ p.id < next /\ 1 <= p.added /\ p.added <= L
      BY DEF Library, Profile
    <3> QED BY <1>1, <3>1
  <2>2. \A r \in rows : r.id < next /\ 1 <= r.added /\ r.added <= L + 1 /\ r.removed <= L + 1
    BY DEF NewRows
  <2> QED BY <1>2, <2>1, <2>2
<1>6. \A p, q \in new : p.id = q.id => p = q
  BY <1>1, <1>2 DEF Library, NewRows
<1> QED BY <1>3, <1>4, <1>5, <1>6 DEF Library, new

-----------------------------------------------------------------------------
(* The inductive invariant of Param.                                       *)

Item == [id : Nat, src : Srcs \cup {""}, params : [power : Nat, lit : {"int", "dec", ""}]]
ReleaseRec == [pct : Nat, to : Nat, base : Nat, forced : BOOLEAN]
PubRec == [pc : {"idle", "recos", "plan", "lock", "snap", "commit"}, base : Nat, remove : SUBSET Nat,
           add : SUBSET PlanRow, known : SUBSET (Nat \X {"int", "dec"}), pct : Nat, forced : BOOLEAN,
           to : Nat, ver : Nat, rows : SUBSET Profile, snap : SUBSET Item, live : BOOLEAN]
ClientRec == [ver : Nat, etag : Nat, have : SUBSET Item, full : Nat, member : BOOLEAN,
              pc : {"idle", "delta", "fetch", "apply"}, tag : Nat, to : Nat]

LibraryOK ==
    /\ releases \in Seq(ReleaseRec) /\ P!Latest <= MaxVersion
    /\ nextId \in Nat /\ Library(profiles, P!Latest, nextId)
    /\ files \in [P!Versions -> SUBSET Item] /\ torn \subseteq P!Versions
    /\ reco \in [Recommendations -> {"absent", "published", "removed"}]
PlansOK ==
    /\ pub \in [Publishers -> PubRec]
    /\ \A w \in Publishers : /\ IsFiniteSet(pub[w].add)
                             /\ pub[w].pc \in {"snap", "commit"} => pub[w].ver \in P!Versions
\* The transaction under the lock is the only one: what it will commit is what
\* its snapshot says, and its rows are new.
TxSound ==
    /\ \A v, w \in Publishers : P!Holds(v) /\ P!Holds(w) => v = w
    /\ \A w \in Publishers : P!Holds(w) =>
         /\ pub[w].ver = P!Latest + 1
         /\ NewRows(pub[w].rows, profiles, P!Latest + 1, nextId)
         /\ \A p \in profiles : p.id \in pub[w].remove => p.removed = 0
         /\ pub[w].snap = P!Shown(P!EffectiveAt(P!Applied(profiles, pub[w].remove, pub[w].ver, pub[w].rows), pub[w].ver))
         /\ pub[w].pc = "commit" => pub[w].ver \in torn \/ files[pub[w].ver] = pub[w].snap
ClientOK ==
    /\ client \in ClientRec
    /\ client.ver <= P!Latest /\ client.etag <= P!Latest /\ client.tag <= P!Latest
    /\ client.pc \in {"fetch", "apply"} => client.ver <= client.to /\ client.to <= P!Latest
    /\ client.pc = "fetch" => client.ver < client.to

ParamInv == LibraryOK /\ PlansOK /\ TxSound /\ ClientOK /\ P!ClientInSync

LEMMA SameParamFinite == ASSUME NEW S PROVE P!IsFiniteSet(S) <=> IsFiniteSet(S)
BY Zenon DEF P!IsFiniteSet, IsFiniteSet

\* What is shown of profiles are items.
LEMMA ShownItems == ASSUME NEW ps, ps \subseteq Profile PROVE P!Shown(ps) \subseteq Item
<1> SUFFICES ASSUME NEW p \in ps PROVE [id |-> p.id, src |-> p.src, params |-> p.params] \in Item
  BY Zenon DEF P!Shown
<1>1. p.id \in Nat /\ p.src \in Srcs /\ p.params \in Params
  BY DEF Profile
<1>2. p.params \in [power : Nat, lit : {"int", "dec", ""}]
  BY <1>1 DEF Params
<1> QED BY <1>1, <1>2 DEF Item

LEMMA LatestNat == ASSUME LibraryOK PROVE P!Latest \in Nat /\ P!Latest = Len(releases)
BY DEF LibraryOK, P!Latest

LEMMA IdlePubOK == P!IdlePub \in PubRec /\ P!IdlePub.pc = "idle" /\ P!IdlePub.add = {} /\ IsFiniteSet({})
<1>1. IsFiniteSet({})
  BY FS_EmptySet
<1>2. P!IdlePub \in PubRec /\ P!IdlePub.pc = "idle" /\ P!IdlePub.add = {}
  BY DEF P!IdlePub, PubRec
<1> QED BY <1>1, <1>2

LEMMA ParamInit == ASSUME P!ParamConstants, P!Init PROVE ParamInv
<1>1. P!Latest = 0 /\ releases \in Seq(ReleaseRec)
  BY DEF P!Init, P!Latest
<1>2. LibraryOK
  <2>1. P!NoFile \subseteq Item
    BY DEF P!NoFile, Item
  <2>2. Library({}, 0, 1)
    BY FS_EmptySet DEF Library
  <2> QED BY <1>1, <2>1, <2>2 DEF P!Init, LibraryOK, P!ParamConstants
<1>3. PlansOK
  BY IdlePubOK DEF P!Init, PlansOK
<1>4. TxSound
  BY IdlePubOK DEF P!Init, TxSound, P!Holds
<1>5. ClientOK
  BY <1>1 DEF P!Init, ClientOK, ClientRec
<1>6. P!ClientInSync
  <2>1. P!Shown(P!Eff(0)) = {}
    BY DEF P!Init, P!Shown, P!Eff, P!EffectiveAt
  <2> QED BY <1>1, <2>1 DEF P!Init, P!ClientInSync
<1> QED BY <1>2, <1>3, <1>4, <1>5, <1>6 DEF ParamInv

\* A step of one publisher that does not take the lock and writes nothing.
LEMMA PubOnlyInv ==
    ASSUME ParamInv, NEW w \in Publishers, NEW f \in PubRec, pub' = [pub EXCEPT ![w] = f],
           UNCHANGED <<profiles, nextId, releases, files, reco, client, torn>>, IsFiniteSet(f.add),
           \/ f.pc \notin {"snap", "commit"}
           \/ f.pc = pub[w].pc /\ f.ver = pub[w].ver /\ ~f.live
    PROVE  ParamInv'
<1>1. P!Latest' = P!Latest
  BY DEF P!Latest
<1>2. LibraryOK'
  BY <1>1 DEF ParamInv, LibraryOK
<1>3. PlansOK'
  BY DEF ParamInv, PlansOK
<1>4. \A v \in Publishers : P!Holds(v)' => v # w /\ P!Holds(v) /\ pub'[v] = pub[v]
  BY DEF ParamInv, PlansOK, P!Holds
<1>5. TxSound'
  BY <1>1, <1>4 DEF ParamInv, TxSound
<1>6. ClientOK'
  BY <1>1 DEF ParamInv, ClientOK
<1>7. P!ClientInSync'
  BY <1>1 DEF ParamInv, P!ClientInSync, P!Eff
<1> QED BY <1>2, <1>3, <1>5, <1>6, <1>7 DEF ParamInv

\* Publish makes a plan of the profiles it reads.
LEMMA PublishInv ==
    ASSUME P!ParamConstants, ParamInv, NEW w \in Publishers, P!Publish(w)
    PROVE  ParamInv'
<1>1. PICK ask \in Asks :
        LET old == P!EffectiveAt(profiles, P!Latest)
            remove == {p \in old : ask.drop /\ \A q \in old : q.id <= p.id}
            add == {P!OfficialRow(x) : x \in {ask.power} \ {0}}
            forced == P!Cardinality(P!DiffValidate(old, (old \ remove) \cup add)) > DiffMaxCount
        IN P!Pub(w, [P!IdlePub EXCEPT !.pc = "recos", !.base = P!Latest, !.remove = {p.id : p \in remove},
                       !.add = add, !.pct = ask.pct, !.forced = forced,
                       !.known = {P!CanonicalHash(p.params) : p \in {q \in old \ remove : q.src = "recommended"}}])
  BY Zenon DEF P!Publish
<1> DEFINE old == P!EffectiveAt(profiles, P!Latest)
           drop == {p \in old : ask.drop /\ \A q \in old : q.id <= p.id}
           remove == {p.id : p \in drop}
           add == {P!OfficialRow(x) : x \in {ask.power} \ {0}}
           forced == P!Cardinality(P!DiffValidate(old, (old \ drop) \cup add)) > DiffMaxCount
           known == {P!CanonicalHash(p.params) : p \in {q \in old \ drop : q.src = "recommended"}}
           f == [P!IdlePub EXCEPT !.pc = "recos", !.base = P!Latest, !.remove = remove,
                   !.add = add, !.pct = ask.pct, !.forced = forced, !.known = known]
<1>2. old \subseteq Profile /\ P!Latest \in Nat
  BY LatestNat DEF P!EffectiveAt, ParamInv, LibraryOK, Library
<1>3. remove \subseteq Nat
  BY <1>2 DEF Profile
<1>4. ask.power \in Nat /\ ask.pct \in Nat
  BY DEF P!ParamConstants
<1>5. add \subseteq PlanRow /\ add \subseteq {P!OfficialRow(ask.power)}
  BY <1>4 DEF P!OfficialRow, P!NewRow, PlanRow, Srcs, Params
<1>6. IsFiniteSet(add)
  BY <1>5, FS_Singleton, FS_Subset
<1>7. known \subseteq Nat \X {"int", "dec"}
  BY <1>2 DEF P!CanonicalHash, Profile, Params
<1>8. forced \in BOOLEAN
  OBVIOUS
<1>9. pub' = [pub EXCEPT ![w] = f]
  BY <1>1, Zenon DEF P!Pub
<1>10. UNCHANGED <<profiles, nextId, releases, files, reco, client, torn>>
  BY DEF P!Publish, P!library
<1> HIDE DEF old, drop, remove, add, forced, known
<1>11. f \in PubRec /\ f.pc = "recos" /\ f.add = add
  BY <1>2, <1>3, <1>4, <1>5, <1>7, <1>8, IdlePubOK DEF PubRec
<1> HIDE DEF f
<1> QED BY <1>6, <1>9, <1>10, <1>11, PubOnlyInv

\* The recommendations join the plan.
LEMMA MergeRecosInv ==
    ASSUME P!ParamConstants, ParamInv, NEW w \in Publishers, P!MergeRecos(w)
    PROVE  ParamInv'
<1> DEFINE new == {r \in Recommendations : reco[r] = "published" /\ P!ParamsHash(r) \notin pub[w].known}
           rows == {P!NewRow("recommended", r, 0) : r \in new}
           f == [pub[w] EXCEPT !.pc = "lock", !.known = {}, !.add = @ \cup rows]
<1>1. pub' = [pub EXCEPT ![w] = f] /\ UNCHANGED <<profiles, nextId, releases, files, reco, client, torn>>
  BY DEF P!MergeRecos, P!Pub, P!library
<1>2. rows \subseteq PlanRow
  BY DEF P!NewRow, PlanRow, Srcs, Params, P!ParamConstants
<1>3. IsFiniteSet(rows)
  <2>1. IsFiniteSet(new)
    <3>1. IsFiniteSet(Recommendations)
      BY SameParamFinite, Zenon DEF P!ParamConstants
    <3> QED BY <3>1, FS_Subset
  <2> DEFINE g == [r \in new |-> P!NewRow("recommended", r, 0)]
  <2>2. g \in Surjection(new, rows)
    BY DEF Surjection
  <2> QED BY <2>1, <2>2, FS_Surjection
<1> HIDE DEF new, rows
<1>4. pub[w] \in PubRec /\ IsFiniteSet(pub[w].add)
  BY DEF ParamInv, PlansOK
<1>5. f \in PubRec /\ f.pc = "lock" /\ f.add = pub[w].add \cup rows
  BY <1>2, <1>4 DEF PubRec
<1> HIDE DEF f
<1>6. IsFiniteSet(f.add)
  <2>1. IsFiniteSet(pub[w].add \cup rows)
    BY <1>3, <1>4, FS_Union
  <2> QED BY <1>5, <2>1
<1> QED BY <1>1, <1>5, <1>6, PubOnlyInv

\* Rollback and its plan
LEMMA RollbackInv ==
    ASSUME P!ParamConstants, ParamInv, NEW w \in Publishers, P!Rollback(w) \/ P!PlanRollback(w)
    PROVE  ParamInv'
<1>1. UNCHANGED <<profiles, nextId, releases, files, reco, client, torn>>
  BY DEF P!Rollback, P!PlanRollback, P!library
<1>2. P!Latest \in Nat /\ profiles \subseteq Profile /\ IsFiniteSet(profiles)
  BY LatestNat DEF ParamInv, LibraryOK, Library
<1>3. CASE P!Rollback(w)
  <2>1. PICK to \in 1 .. P!Latest :
           pub' = [pub EXCEPT ![w] = [P!IdlePub EXCEPT !.pc = "plan", !.base = P!Latest, !.to = to]]
    BY <1>3 DEF P!Rollback, P!Pub
  <2> DEFINE f == [P!IdlePub EXCEPT !.pc = "plan", !.base = P!Latest, !.to = to]
  <2>2. f \in PubRec /\ f.pc = "plan" /\ f.add = {}
    <3>1. to \in Nat
      BY <1>2, <2>1
    <3> QED BY <1>2, <3>1, IdlePubOK DEF PubRec
  <2> HIDE DEF f
  <2>3. pub' = [pub EXCEPT ![w] = f]
    BY <2>1 DEF f
  <2> QED BY <1>1, <2>2, <2>3, IdlePubOK, PubOnlyInv
<1>4. CASE P!PlanRollback(w)
  <2> DEFINE present == P!EffectiveAt(profiles, pub[w].base)
             then == P!EffectiveAt(profiles, pub[w].to)
             remove == {p.id : p \in present \ then}
             add == {P!NewRow(p.src, p.params, p.id) : p \in then \ present}
             f == [pub[w] EXCEPT !.pc = "lock", !.remove = remove, !.add = add]
  <2>1. pub' = [pub EXCEPT ![w] = f]
    BY <1>4 DEF P!PlanRollback, P!RollbackPlan, P!Pub
  <2>2. present \subseteq profiles /\ then \subseteq profiles
    BY DEF P!EffectiveAt
  <2>3. remove \subseteq Nat
    BY <1>2, <2>2 DEF Profile
  <2>4. add \subseteq PlanRow
    BY <1>2, <2>2 DEF Profile, P!NewRow, PlanRow
  <2>5. IsFiniteSet(add)
    <3>1. IsFiniteSet(then \ present)
      BY <1>2, <2>2, FS_Subset
    <3> DEFINE g == [p \in then \ present |-> P!NewRow(p.src, p.params, p.id)]
    <3>2. g \in Surjection(then \ present, add)
      BY DEF Surjection
    <3> QED BY <3>1, <3>2, FS_Surjection
  <2> HIDE DEF present, then, remove, add
  <2>6. pub[w] \in PubRec
    BY DEF ParamInv, PlansOK
  <2>7. f \in PubRec /\ f.pc = "lock" /\ f.add = add
    BY <2>3, <2>4, <2>6 DEF PubRec
  <2> HIDE DEF f
  <2> QED BY <1>1, <2>1, <2>5, <2>7, PubOnlyInv
<1> QED BY <1>3, <1>4

\* A lost session keeps its step, a failed request ends.
LEMMA PubFailsInv ==
    ASSUME ParamInv, NEW w \in Publishers, P!LoseSession(w) \/ P!Fails(w)
    PROVE  ParamInv'
<1>1. UNCHANGED <<profiles, nextId, releases, files, reco, client, torn>>
  BY DEF P!LoseSession, P!Fails, P!library
<1>2. CASE P!LoseSession(w)
  <2> DEFINE f == [pub[w] EXCEPT !.live = FALSE]
  <2>1. pub[w] \in PubRec /\ IsFiniteSet(pub[w].add)
    BY DEF ParamInv, PlansOK
  <2>2. f \in PubRec /\ f.pc = pub[w].pc /\ f.ver = pub[w].ver /\ f.add = pub[w].add /\ f.live = FALSE
    BY <2>1 DEF PubRec
  <2>3. pub' = [pub EXCEPT ![w] = f]
    BY <1>2 DEF P!LoseSession, P!Pub
  <2> HIDE DEF f
  <2> QED BY <1>1, <2>1, <2>2, <2>3, PubOnlyInv
<1>3. CASE P!Fails(w)
  <2>1. pub' = [pub EXCEPT ![w] = P!IdlePub]
    BY <1>3 DEF P!Fails, P!Pub
  <2> QED BY <1>1, <2>1, IdlePubOK, PubOnlyInv
<1> QED BY <1>2, <1>3

\* The transaction takes the lock: its rows get ids that nobody has.
LEMMA BeginTxInv ==
    ASSUME P!ParamConstants, ParamInv, NEW w \in Publishers, P!BeginTx(w)
    PROVE  ParamInv'
<1> DEFINE ver == P!Latest + 1
           rows == P!Rows(pub[w].add, ver)
           snap == P!Shown(P!EffectiveAt(P!Applied(profiles, pub[w].remove, ver, rows), ver))
           f == [pub[w] EXCEPT !.pc = "snap", !.ver = ver, !.add = {}, !.rows = rows, !.snap = snap]
<1>1. /\ ver \in P!Versions /\ \A v \in Publishers : ~P!Holds(v)
      /\ UNCHANGED <<profiles, releases, files, reco, client, torn>>
      /\ \/ pub' = [pub EXCEPT ![w] = P!IdlePub] /\ UNCHANGED nextId
         \/ /\ ~\E p \in profiles : p.id \in pub[w].remove /\ p.removed # 0
            /\ nextId' = nextId + P!Cardinality(rows)
            /\ pub' = [pub EXCEPT ![w] = f]
  BY DEF P!BeginTx, P!Pub
<1>2. CASE pub' = [pub EXCEPT ![w] = P!IdlePub] /\ UNCHANGED nextId
  <2>1. UNCHANGED <<profiles, nextId, releases, files, reco, client, torn>>
    BY <1>1, <1>2
  <2>2. IsFiniteSet(P!IdlePub.add) /\ P!IdlePub.pc \notin {"snap", "commit"}
    BY IdlePubOK
  <2> HIDE DEF ver, rows, snap, f
  <2> QED BY <1>2, <2>1, <2>2, IdlePubOK, PubOnlyInv
<1>3. CASE /\ ~\E p \in profiles : p.id \in pub[w].remove /\ p.removed # 0
           /\ nextId' = nextId + P!Cardinality(rows)
           /\ pub' = [pub EXCEPT ![w] = f]
  <2>1. /\ P!Latest \in Nat /\ P!Latest' = P!Latest /\ ver \in Nat /\ nextId \in Nat
        /\ pub[w] \in PubRec /\ IsFiniteSet(pub[w].add) /\ pub[w].add \subseteq PlanRow
        /\ Library(profiles, P!Latest, nextId)
    BY <1>1, LatestNat DEF P!Latest, ParamInv, LibraryOK, PlansOK, PubRec
  <2>2. /\ rows \subseteq Profile /\ IsFiniteSet(rows) /\ Cardinality(rows) = Cardinality(pub[w].add)
        /\ \A r \in rows : /\ r.added = ver /\ r.removed = 0
                           /\ nextId <= r.id /\ r.id < nextId + Cardinality(pub[w].add)
        /\ \A r, q \in rows : r.id = q.id => r = q
    BY <2>1, RowsNumbered
  <2>3. Cardinality(pub[w].add) \in Nat /\ nextId' = nextId + Cardinality(pub[w].add)
    BY <1>3, <2>1, <2>2, SameParamCardinality, FS_CardinalityType
  <2> HIDE DEF rows
  <2>4. NewRows(rows, profiles, ver, nextId')
    <3>1. \A r \in rows, p \in profiles : r.id # p.id
      <4> SUFFICES ASSUME NEW r \in rows, NEW p \in profiles, r.id = p.id PROVE FALSE
        OBVIOUS
      <4>1. p.id \in Nat /\ p.id < nextId /\ nextId <= r.id
        BY <2>1, <2>2 DEF Library, Profile
      <4> QED BY <2>1, <4>1
    <3> QED BY <2>2, <2>3, <3>1 DEF NewRows
  <2>5. Library(profiles, P!Latest, nextId')
    <3>1. \A p \in profiles : p.id < nextId'
      <4> SUFFICES ASSUME NEW p \in profiles PROVE p.id < nextId'
        OBVIOUS
      <4>1. p.id \in Nat /\ p.id < nextId
        BY <2>1 DEF Library, Profile
      <4> QED BY <2>1, <2>3, <4>1
    <3> QED BY <2>1, <3>1 DEF Library
  <2>6. snap \subseteq Item
    <3>1. P!Applied(profiles, pub[w].remove, ver, rows) \subseteq Profile
      <4>1. \A p \in profiles : [p EXCEPT !.removed = IF p.id \in pub[w].remove THEN ver ELSE @] \in Profile
        BY <2>1 DEF Library, Profile
      <4> QED BY <2>2, <4>1 DEF P!Applied
    <3>2. P!EffectiveAt(P!Applied(profiles, pub[w].remove, ver, rows), ver) \subseteq Profile
      BY <3>1 DEF P!EffectiveAt
    <3> QED BY <3>2, ShownItems
  <2>7. f.snap = snap /\ f.rows = rows /\ f.ver = ver /\ f.pc = "snap" /\ f.add = {} /\ f.remove = pub[w].remove
        /\ f \in PubRec
    <3> HIDE DEF snap, ver
    <3> QED BY <2>1, <2>2, <2>6 DEF PubRec
  <2> HIDE DEF f
  <2>8. /\ pub'[w] = f /\ \A v \in Publishers \ {w} : pub'[v] = pub[v]
        /\ pub' \in [Publishers -> PubRec]
    BY <1>3, <2>7 DEF ParamInv, PlansOK
  <2>9. LibraryOK'
    BY <1>1, <2>1, <2>3, <2>5 DEF ParamInv, LibraryOK
  <2>10. PlansOK'
    BY <1>1, <2>7, <2>8, IdlePubOK DEF ParamInv, PlansOK
  <2>11. TxSound'
    <3>1. \A v \in Publishers : P!Holds(v)' => v = w
      BY <1>1, <2>8 DEF P!Holds
    <3>2. /\ f.ver = P!Latest' + 1
          /\ NewRows(f.rows, profiles', P!Latest' + 1, nextId')
          /\ \A p \in profiles' : p.id \in f.remove => p.removed = 0
          /\ f.snap = P!Shown(P!EffectiveAt(P!Applied(profiles', f.remove, f.ver, f.rows), f.ver))
          /\ f.pc # "commit"
      BY <1>1, <1>3, <2>1, <2>4, <2>7
    <3> QED BY <2>8, <3>1, <3>2 DEF TxSound
  <2>12. ClientOK'
    BY <1>1, <2>1 DEF ParamInv, ClientOK
  <2>13. P!ClientInSync'
    BY <1>1, <2>1 DEF ParamInv, P!ClientInSync, P!Eff
  <2> QED BY <2>9, <2>10, <2>11, <2>12, <2>13 DEF ParamInv
<1> QED BY <1>1, <1>2, <1>3

\* The snapshot file is written; without the session it may be anyone's.
LEMMA WriteSnapshotInv ==
    ASSUME P!ParamConstants, ParamInv, NEW w \in Publishers, P!WriteSnapshot(w)
    PROVE  ParamInv'
<1> DEFINE f == [pub[w] EXCEPT !.pc = "commit"]
           ver == pub[w].ver
<1>1. /\ pub' = [pub EXCEPT ![w] = f] /\ UNCHANGED <<profiles, nextId, releases, reco, client>>
      /\ files' = [files EXCEPT ![ver] = pub[w].snap]
      /\ torn' = IF pub[w].live THEN torn ELSE torn \cup {ver}
      /\ pub[w].pc = "snap"
  BY DEF P!WriteSnapshot, P!Pub, P!At, P!library
<1>2. P!Latest' = P!Latest /\ P!Latest \in Nat
  BY <1>1, LatestNat DEF P!Latest, ParamInv
<1>3. pub[w] \in PubRec /\ IsFiniteSet(pub[w].add) /\ ver \in P!Versions /\ pub[w].snap \subseteq Item
  BY <1>1 DEF ParamInv, PlansOK, PubRec
<1>4. /\ f \in PubRec /\ f.pc = "commit" /\ f.add = pub[w].add /\ f.ver = ver /\ f.live = pub[w].live
      /\ f.rows = pub[w].rows /\ f.snap = pub[w].snap /\ f.remove = pub[w].remove
  BY <1>3 DEF PubRec
<1> HIDE DEF f
<1>5. /\ pub'[w] = f /\ \A v \in Publishers \ {w} : pub'[v] = pub[v]
      /\ pub' \in [Publishers -> PubRec]
  BY <1>1, <1>4 DEF ParamInv, PlansOK
<1>6. files'[ver] = pub[w].snap /\ \A v \in P!Versions \ {ver} : files'[v] = files[v]
  BY <1>1, <1>3 DEF ParamInv, LibraryOK
<1>7. LibraryOK'
  <2>1. files' \in [P!Versions -> SUBSET Item] /\ torn' \subseteq P!Versions
    BY <1>1, <1>3 DEF ParamInv, LibraryOK
  <2>2. P!Versions' = P!Versions
    BY DEF P!Versions
  <2> QED BY <1>1, <1>2, <2>1, <2>2 DEF ParamInv, LibraryOK
<1>8. PlansOK'
  <2>1. P!Versions' = P!Versions
    BY DEF P!Versions
  <2> QED BY <1>3, <1>4, <1>5, <2>1 DEF ParamInv, PlansOK
<1>9. TxSound'
  <2>1. \A v \in Publishers : P!Holds(v)' <=> P!Holds(v)
    BY <1>1, <1>4, <1>5 DEF P!Holds
  <2>2. \A v \in Publishers : /\ pub'[v].ver = pub[v].ver /\ pub'[v].rows = pub[v].rows
                              /\ pub'[v].remove = pub[v].remove /\ pub'[v].snap = pub[v].snap
    BY <1>4, <1>5
  <2>3. ASSUME NEW v \in Publishers, P!Holds(v), pub'[v].pc = "commit"
        PROVE  pub[v].ver \in torn' \/ files'[pub[v].ver] = pub[v].snap
    <3>1. CASE v = w
      BY <1>6, <3>1
    <3>2. CASE v # w
      <4>1. ~pub[w].live
        BY <1>1, <2>3, <3>2 DEF ParamInv, TxSound, P!Holds
      <4>2. ver \in torn' /\ torn \subseteq torn'
        BY <1>1, <4>1
      <4>3. pub[v].pc = "commit" /\ pub[v].ver \in P!Versions
        BY <1>5, <2>3, <3>2 DEF ParamInv, PlansOK
      <4>4. pub[v].ver \in torn \/ files[pub[v].ver] = pub[v].snap
        BY <2>3, <4>3 DEF ParamInv, TxSound
      <4> QED BY <1>6, <4>2, <4>3, <4>4
    <3> QED BY <3>1, <3>2
  <2>4. ASSUME NEW v \in Publishers, P!Holds(v)
        PROVE  /\ pub'[v].ver = P!Latest' + 1
               /\ NewRows(pub'[v].rows, profiles', P!Latest' + 1, nextId')
               /\ \A p \in profiles' : p.id \in pub'[v].remove => p.removed = 0
               /\ pub'[v].snap = P!Shown(P!EffectiveAt(P!Applied(profiles', pub'[v].remove, pub'[v].ver, pub'[v].rows),
                                                       pub'[v].ver))
    BY <1>1, <1>2, <2>2, <2>4 DEF ParamInv, TxSound
  <2>5. \A u, v \in Publishers : P!Holds(u)' /\ P!Holds(v)' => u = v
    BY <2>1 DEF ParamInv, TxSound
  <2> QED BY <2>1, <2>2, <2>3, <2>4, <2>5 DEF TxSound
<1>10. ClientOK'
  BY <1>1, <1>2 DEF ParamInv, ClientOK
<1>11. P!ClientInSync'
  <2>1. torn \subseteq torn' /\ \A v : P!Eff(v)' = P!Eff(v)
    BY <1>1 DEF P!Eff
  <2>2. ASSUME NEW v \in 1 .. P!Latest, v \notin torn'
        PROVE  files'[v] = P!Shown(P!Eff(v))
    <3>1. v # ver
      <4>1. CASE pub[w].live
        <5>1. ver = P!Latest + 1
          BY <1>1, <4>1 DEF ParamInv, TxSound, P!Holds
        <5> QED BY <1>2, <5>1
      <4>2. CASE ~pub[w].live
        BY <1>1, <2>2, <4>2
      <4> QED BY <4>1, <4>2
    <3>2. v \in P!Versions
      BY <1>2 DEF P!Versions, ParamInv, LibraryOK, P!ParamConstants
    <3> QED BY <1>6, <2>1, <2>2, <3>1, <3>2 DEF ParamInv, P!ClientInSync
  <2> QED BY <1>1, <1>2, <2>1, <2>2 DEF ParamInv, P!ClientInSync
<1> QED BY <1>7, <1>8, <1>9, <1>10, <1>11 DEF ParamInv

\* COMMIT: the new release is what its file says, and the older ones stay.
LEMMA CommitInv ==
    ASSUME P!ParamConstants, ParamInv, NEW w \in Publishers, P!Commit(w)
    PROVE  ParamInv'
<1>1. /\ pub' = [pub EXCEPT ![w] = P!IdlePub] /\ UNCHANGED <<nextId, files, reco, client, torn>>
      /\ pub[w].pc = "commit"
  BY DEF P!Commit, P!Pub, P!At
<1>2. CASE ~pub[w].live
  <2>1. UNCHANGED <<profiles, releases>>
    BY <1>2 DEF P!Commit
  <2> QED BY <1>1, <2>1, IdlePubOK, PubOnlyInv
<1>3. CASE pub[w].live
  <2> DEFINE L == P!Latest
             remove == pub[w].remove
             rows == pub[w].rows
  <2>1. /\ L \in Nat /\ L = Len(releases) /\ L <= MaxVersion /\ releases \in Seq(ReleaseRec)
        /\ nextId \in Nat /\ Library(profiles, L, nextId)
        /\ pub[w] \in PubRec
    BY LatestNat DEF ParamInv, LibraryOK, PlansOK
  <2>2. /\ P!Holds(w) /\ pub[w].ver = L + 1 /\ NewRows(rows, profiles, L + 1, nextId)
        /\ \A p \in profiles : p.id \in remove => p.removed = 0
        /\ pub[w].snap = P!Shown(P!EffectiveAt(P!Applied(profiles, remove, L + 1, rows), L + 1))
        /\ L + 1 \in torn \/ files[L + 1] = pub[w].snap
        /\ L + 1 \in P!Versions
    BY <1>1, <1>3 DEF ParamInv, TxSound, PlansOK, P!Holds
  <2>3. profiles' = P!Applied(profiles, remove, L + 1, rows) /\ releases' = Append(releases, P!Release(w))
    BY <1>3, <2>2 DEF P!Commit
  <2>4. P!Release(w) \in ReleaseRec
    BY <2>1 DEF P!Release, PubRec, ReleaseRec
  <2>5. releases' \in Seq(ReleaseRec) /\ P!Latest' = L + 1
    BY <2>1, <2>3, <2>4 DEF P!Latest
  <2> HIDE DEF L, remove, rows
  <2>6. Library(profiles', L + 1, nextId)
    BY <2>1, <2>2, <2>3, LibraryGrows
  <2>7. \A v \in 0 .. L : P!Shown(P!EffectiveAt(profiles', v)) = P!Shown(P!EffectiveAt(profiles, v))
    <3> SUFFICES ASSUME NEW v \in 0 .. L
                 PROVE  P!Shown(P!EffectiveAt(profiles', v)) = P!Shown(P!EffectiveAt(profiles, v))
      OBVIOUS
    <3>1. L \in Nat /\ Library(profiles, L, nextId) /\ nextId \in Nat
      BY <2>1
    <3>2. NewRows(rows, profiles, L + 1, nextId) /\ \A p \in profiles : p.id \in remove => p.removed = 0
      BY <2>2
    <3>3. P!Shown(P!EffectiveAt(P!Applied(profiles, remove, L + 1, rows), v)) = P!Shown(P!EffectiveAt(profiles, v))
      BY <3>1, <3>2, ShownStays
    <3> QED BY <2>3, <3>3
  <2>8. LibraryOK'
    <3>1. L + 1 <= MaxVersion
      BY <2>1, <2>2 DEF P!Versions, P!ParamConstants
    <3> QED BY <1>1, <2>1, <2>5, <2>6, <3>1 DEF ParamInv, LibraryOK, P!Versions
  <2>9. PlansOK'
    BY <1>1, IdlePubOK DEF ParamInv, PlansOK, P!Versions
  <2>10. TxSound'
    <3>1. \A v \in Publishers : ~P!Holds(v)'
      BY <1>1, <2>2, IdlePubOK DEF ParamInv, PlansOK, TxSound, P!Holds
    <3> QED BY <3>1 DEF TxSound
  <2>11. ClientOK'
    BY <1>1, <2>1, <2>5 DEF ParamInv, ClientOK, ClientRec, L
  <2>12. P!ClientInSync'
    <3>1. client.full \notin torn => client.have = P!Shown(P!EffectiveAt(profiles', client.ver))
      <4>1. client.ver \in 0 .. L
        BY <2>1 DEF ParamInv, ClientOK, ClientRec, L
      <4> QED BY <2>7, <4>1 DEF ParamInv, P!ClientInSync, P!Eff
    <3>2. ASSUME NEW v \in 1 .. L + 1, v \notin torn
          PROVE  files[v] = P!Shown(P!EffectiveAt(profiles', v))
      <4>1. CASE v = L + 1
        BY <2>2, <2>3, <3>2, <4>1
      <4>2. CASE v # L + 1
        <5>1. v \in 1 .. L /\ v \in 0 .. L
          BY <2>1, <4>2
        <5> QED BY <2>7, <3>2, <5>1 DEF ParamInv, P!ClientInSync, P!Eff, L
      <4> QED BY <4>1, <4>2
    <3> QED BY <1>1, <2>5, <3>1, <3>2 DEF P!ClientInSync, P!Eff
  <2> QED BY <2>8, <2>9, <2>10, <2>11, <2>12 DEF ParamInv
<1> QED BY <1>2, <1>3

\* A recommendation is published or taken back.
LEMMA RecoMovesInv ==
    ASSUME ParamInv, NEW r \in Recommendations, P!RecoMoves(r)
    PROVE  ParamInv'
<1>1. UNCHANGED <<profiles, nextId, releases, files, pub, client, torn>>
  BY DEF P!RecoMoves, P!library
<1>2. reco' \in [Recommendations -> {"absent", "published", "removed"}]
  BY DEF P!RecoMoves, ParamInv, LibraryOK
<1>3. P!Latest' = P!Latest
  BY <1>1 DEF P!Latest
<1>4. LibraryOK'
  BY <1>1, <1>2, <1>3 DEF ParamInv, LibraryOK, P!Versions
<1>5. PlansOK'
  BY <1>1 DEF ParamInv, PlansOK, P!Versions
<1>6. TxSound'
  BY <1>1, <1>3 DEF ParamInv, TxSound, P!Holds
<1>7. ClientOK'
  BY <1>1, <1>3 DEF ParamInv, ClientOK
<1>8. P!ClientInSync'
  BY <1>1, <1>3 DEF ParamInv, P!ClientInSync, P!Eff
<1> QED BY <1>4, <1>5, <1>6, <1>7, <1>8 DEF ParamInv

\* What a client may see is one of the releases, if any.
LEMMA VisibleRelease ==
    ASSUME ParamInv, NEW m
    PROVE  P!Visible(m) \in 0 .. P!Latest
<1> DEFINE S == {v \in 1 .. P!Latest : m \/ releases[v].pct >= 100} \cup {0}
<1>1. P!Latest \in Nat
  BY LatestNat DEF ParamInv
<1>2. S \subseteq 0 .. P!Latest /\ S # {}
  BY <1>1
<1>3. P!Max(S) \in S
  <2> HIDE DEF S
  <2> QED BY <1>1, <1>2, Greatest
<1> QED BY <1>2, <1>3 DEF P!Visible

\* A step of the client that leaves what it holds.
LEMMA ClientOnlyInv ==
    ASSUME ParamInv, NEW c \in ClientRec, client' = c,
           UNCHANGED <<profiles, nextId, releases, files, reco, pub, torn>>, ClientOK',
           c.full \notin torn => c.have = P!Shown(P!Eff(c.ver))
    PROVE  ParamInv'
<1>1. P!Latest' = P!Latest
  BY DEF P!Latest
<1>2. LibraryOK'
  BY <1>1 DEF ParamInv, LibraryOK, P!Versions
<1>3. PlansOK'
  BY DEF ParamInv, PlansOK, P!Versions
<1>4. TxSound'
  BY <1>1 DEF ParamInv, TxSound, P!Holds
<1>5. P!ClientInSync'
  BY <1>1 DEF ParamInv, P!ClientInSync, P!Eff
<1> QED BY <1>2, <1>3, <1>4, <1>5 DEF ParamInv

LEMMA ClientInv ==
    ASSUME P!ParamConstants, ParamInv, P!Sync \/ P!SwitchBucket
    PROVE  ParamInv'
<1>1. UNCHANGED <<profiles, nextId, releases, files, reco, pub, torn>> /\ P!Latest' = P!Latest
  BY DEF P!Sync, P!SyncLatest, P!SyncDelta, P!SyncApply, P!SyncFetch, P!SwitchBucket, P!Client, P!library, P!Latest
<1>2. /\ P!Latest \in Nat /\ Library(profiles, P!Latest, nextId) /\ nextId \in Nat
      /\ P!Visible(client.member) \in 0 .. P!Latest
      /\ client \in ClientRec
      /\ client.ver <= P!Latest /\ client.etag <= P!Latest /\ client.tag <= P!Latest
      /\ client.pc \in {"fetch", "apply"} => client.ver <= client.to /\ client.to <= P!Latest
      /\ client.pc = "fetch" => client.ver < client.to
      /\ client.full \notin torn => client.have = P!Shown(P!Eff(client.ver))
  BY LatestNat, VisibleRelease DEF ParamInv, LibraryOK, ClientOK, P!ClientInSync
<1>3. CASE P!SyncLatest
  <2> DEFINE seen == P!Visible(client.member)
             c == [client EXCEPT !.pc = "delta", !.tag = seen]
  <2>1. client' = c
    BY <1>3 DEF P!SyncLatest, P!Client
  <2>2. seen \in Nat /\ seen <= P!Latest
    BY <1>2
  <2> HIDE DEF seen
  <2>3. /\ c \in ClientRec /\ c.pc = "delta" /\ c.tag = seen /\ c.ver = client.ver
        /\ c.etag = client.etag /\ c.full = client.full /\ c.have = client.have
    BY <1>2, <2>2 DEF ClientRec
  <2> HIDE DEF c
  <2>4. ClientOK'
    BY <1>1, <1>2, <2>1, <2>2, <2>3 DEF ClientOK
  <2> QED BY <1>1, <1>2, <2>1, <2>3, <2>4, ClientOnlyInv
<1>4. CASE P!SyncDelta
  <2> DEFINE to == P!Visible(client.member)
             fail == [client EXCEPT !.pc = "idle", !.tag = 0]
             fetch == [client EXCEPT !.to = to, !.pc = "fetch"]
             apply == [client EXCEPT !.to = to, !.pc = "apply"]
  <2>1. \/ client' = fail
        \/ client' = fetch /\ ~(client.ver > to) /\ to - client.ver > ForceFullBehind
        \/ client' = apply /\ ~(client.ver > to)
    BY <1>4 DEF P!SyncDelta, P!Client
  <2>2. to \in Nat /\ to <= P!Latest
    BY <1>2
  <2> HIDE DEF to
  <2>3. CASE client' = fail
    <3>1. /\ fail \in ClientRec /\ fail.pc = "idle" /\ fail.tag = 0 /\ fail.ver = client.ver
          /\ fail.etag = client.etag /\ fail.full = client.full /\ fail.have = client.have
      BY <1>2 DEF ClientRec
    <3> HIDE DEF fail
    <3>2. ClientOK'
      BY <1>1, <1>2, <2>3, <3>1 DEF ClientOK
    <3> QED BY <1>1, <1>2, <2>3, <3>1, <3>2, ClientOnlyInv
  <2>4. CASE client' = fetch /\ ~(client.ver > to) /\ to - client.ver > ForceFullBehind
    <3>1. /\ fetch \in ClientRec /\ fetch.pc = "fetch" /\ fetch.to = to /\ fetch.tag = client.tag
          /\ fetch.ver = client.ver /\ fetch.etag = client.etag /\ fetch.full = client.full
          /\ fetch.have = client.have
      BY <1>2, <2>2 DEF ClientRec
    <3>2. client.ver < to /\ to <= P!Latest
      BY <1>2, <2>2, <2>4 DEF ClientRec, P!ParamConstants
    <3> HIDE DEF fetch
    <3>3. ClientOK'
      BY <1>1, <1>2, <2>4, <3>1, <3>2 DEF ClientOK, ClientRec
    <3> QED BY <1>1, <1>2, <2>4, <3>1, <3>3, ClientOnlyInv
  <2>5. CASE client' = apply /\ ~(client.ver > to)
    <3>1. /\ apply \in ClientRec /\ apply.pc = "apply" /\ apply.to = to /\ apply.tag = client.tag
          /\ apply.ver = client.ver /\ apply.etag = client.etag /\ apply.full = client.full
          /\ apply.have = client.have
      BY <1>2, <2>2 DEF ClientRec
    <3>2. client.ver <= to /\ to <= P!Latest
      BY <1>2, <2>2, <2>5 DEF ClientRec
    <3> HIDE DEF apply
    <3>3. ClientOK'
      BY <1>1, <1>2, <2>5, <3>1, <3>2 DEF ClientOK
    <3> QED BY <1>1, <1>2, <2>5, <3>1, <3>3, ClientOnlyInv
  <2> QED BY <2>1, <2>3, <2>4, <2>5
<1>5. ASSUME NEW have \in SUBSET Item, NEW full \in Nat, client' = P!Synced(have, full),
             client.pc \in {"fetch", "apply"}, full \notin torn => have = P!Shown(P!Eff(client.to))
      PROVE  ParamInv'
  <2> DEFINE c == [client EXCEPT !.pc = "idle", !.ver = client.to, !.etag = client.tag,
                     !.have = have, !.full = full, !.tag = 0, !.to = 0]
  <2>1. client' = c
    BY <1>5 DEF P!Synced
  <2>2. /\ c \in ClientRec /\ c.pc = "idle" /\ c.ver = client.to /\ c.etag = client.tag
        /\ c.tag = 0 /\ c.full = full /\ c.have = have
    BY <1>2 DEF ClientRec
  <2> HIDE DEF c
  <2>3. ClientOK'
    BY <1>1, <1>2, <1>5, <2>1, <2>2 DEF ClientOK
  <2> QED BY <1>1, <1>5, <2>1, <2>2, <2>3, ClientOnlyInv
<1>6. CASE P!SyncApply
  <2> DEFINE d == P!Delta(profiles, client.ver, client.to)
             have == {h \in client.have : \A p \in d.removed : p.id # h.id} \cup P!Shown(d.added)
  <2>1. client' = P!Synced(have, client.full) /\ client.pc = "apply"
    BY <1>6 DEF P!SyncApply, P!Client, P!AtClient
  <2>2. have \subseteq Item
    <3>1. d.added \subseteq Profile
      BY <1>2 DEF P!Delta, Library
    <3>2. P!Shown(d.added) \subseteq Item
      BY <3>1, ShownItems
    <3>3. client.have \subseteq Item
      BY <1>2 DEF ClientRec
    <3> QED BY <3>2, <3>3
  <2>3. client.full \notin torn => have = P!Shown(P!Eff(client.to))
    <3>1. client.ver \in 0 .. P!Latest /\ client.to \in 0 .. P!Latest
      BY <1>2, <2>1 DEF ClientRec
    <3>2. {h \in P!Shown(P!EffectiveAt(profiles, client.ver)) : \A p \in d.removed : p.id # h.id}
            \cup P!Shown(d.added)
          = P!Shown(P!EffectiveAt(profiles, client.to))
      <4>1. P!Latest \in Nat /\ nextId \in Nat /\ Library(profiles, P!Latest, nextId)
        BY <1>2
      <4>2. \A a, b \in 0 .. P!Latest :
              {h \in P!Shown(P!EffectiveAt(profiles, a)) : \A p \in P!Delta(profiles, a, b).removed : p.id # h.id}
                \cup P!Shown(P!Delta(profiles, a, b).added)
              = P!Shown(P!EffectiveAt(profiles, b))
        BY <4>1, DeltaApplies
      <4> QED BY <3>1, <4>2, Zenon
    <3> QED BY <1>2, <3>2 DEF P!Eff
  <2>4. client.full \in Nat
    BY <1>2 DEF ClientRec
  <2> HIDE DEF have
  <2> QED BY <1>5, <2>1, <2>2, <2>3, <2>4
<1>7. CASE P!SyncFetch
  <2>1. client' = P!Synced(files[client.to], client.to) /\ client.pc = "fetch"
    BY <1>7 DEF P!SyncFetch, P!Client, P!AtClient
  <2>2. client.to \in 1 .. P!Latest /\ client.to \in Nat
    BY <1>2, <2>1 DEF ClientRec
  <2>3. files[client.to] \in SUBSET Item
    BY <1>2, <2>2 DEF ParamInv, LibraryOK, P!Versions, P!ParamConstants
  <2>4. client.to \notin torn => files[client.to] = P!Shown(P!Eff(client.to))
    BY <2>2 DEF ParamInv, P!ClientInSync
  <2> QED BY <1>5, <2>1, <2>2, <2>3, <2>4
<1>8. CASE P!SwitchBucket
  <2> DEFINE c == [client EXCEPT !.member = ~@]
  <2>1. client' = c
    BY <1>8 DEF P!SwitchBucket, P!Client
  <2>2. /\ c \in ClientRec /\ c.pc = client.pc /\ c.tag = client.tag /\ c.ver = client.ver /\ c.to = client.to
        /\ c.etag = client.etag /\ c.full = client.full /\ c.have = client.have
    BY <1>2 DEF ClientRec
  <2> HIDE DEF c
  <2>3. ClientOK'
    BY <1>1, <1>2, <2>1, <2>2 DEF ClientOK
  <2> QED BY <1>1, <1>2, <2>1, <2>2, <2>3, ClientOnlyInv
<1> QED BY <1>3, <1>4, <1>6, <1>7, <1>8 DEF P!Sync

LEMMA ParamNext == P!ParamConstants /\ ParamInv /\ [P!Next]_P!vars => ParamInv'
<1> SUFFICES ASSUME P!ParamConstants, ParamInv, [P!Next]_P!vars PROVE ParamInv'
  OBVIOUS
<1>1. ASSUME NEW w \in Publishers, P!Publish(w) \/ P!Rollback(w) \/ P!Publisher(w) \/ P!LoseSession(w) \/ P!Fails(w)
      PROVE  ParamInv'
  BY <1>1, PublishInv, RollbackInv, MergeRecosInv, BeginTxInv, WriteSnapshotInv, CommitInv, PubFailsInv
  DEF P!Publisher
<1>2. ASSUME NEW r \in Recommendations, P!RecoMoves(r)
      PROVE  ParamInv'
  BY <1>2, RecoMovesInv
<1>3. CASE P!Sync \/ P!SwitchBucket
  BY <1>3, ClientInv
<1>4. CASE UNCHANGED P!vars
  <2>1. UNCHANGED <<profiles, nextId, releases, files, reco, pub, client, torn>> /\ P!Latest' = P!Latest
    BY <1>4 DEF P!vars, P!library, P!Latest
  <2>2. LibraryOK'
    BY <2>1 DEF ParamInv, LibraryOK, P!Versions
  <2>3. PlansOK'
    BY <2>1 DEF ParamInv, PlansOK, P!Versions
  <2>4. TxSound'
    BY <2>1 DEF ParamInv, TxSound, P!Holds
  <2>5. ClientOK'
    BY <2>1 DEF ParamInv, ClientOK
  <2>6. P!ClientInSync'
    BY <2>1 DEF ParamInv, P!ClientInSync, P!Eff
  <2> QED BY <2>2, <2>3, <2>4, <2>5, <2>6 DEF ParamInv
<1> QED BY <1>1, <1>2, <1>3, <1>4 DEF P!Next

\* The library, the plans, the transaction and the client in every state
\* (Store.Publish, Service.Delta).
THEOREM ParamInvariant == P!Spec => []ParamInv
<1>1. P!Init => ParamInv
  BY ParamInit, ServiceConstants
<1>2. ParamInv /\ [P!Next]_P!vars => ParamInv'
  BY ParamNext, ServiceConstants
<1> QED BY <1>1, <1>2, PTL DEF P!Spec

\* A client holds the profiles of the version it names, and so does every
\* snapshot file written under the lock (Delta, snapshotFor before COMMIT).
THEOREM ClientsInSync == P!Spec => []ClientInSync
<1>1. ParamInv => ClientInSync
  BY DEF ParamInv, ClientInSync
<1> QED BY <1>1, ParamInvariant, PTL

-----------------------------------------------------------------------------
(* What a release shows follows from the plan that made it, unless another *)
(* one came between. Profiles change only by being removed later, so all   *)
(* of it is said of what they show.                                        *)

ShownAt(v) == P!Shown(P!Eff(v))

\* Two sets that differ at most in their ids
Alike(X, Y) == \E f \in [X -> Y] : /\ \A x, y \in X : f[x] = f[y] => x = y
                                   /\ \A y \in Y : \E x \in X : f[x] = y
                                   /\ \A x \in X : f[x].src = x.src /\ f[x].params = x.params
Keeps(X, remove) == {h \in X : h.id \notin remove}

\* The plan of a Publish for a library that shows X: few powers jump, and no
\* recommendation that stays is added again.
Planned(r, X) ==
    /\ ~r.forced => Cardinality(P!Jumps(X, Keeps(X, r.remove))) + Cardinality(P!Jumps(X, r.add)) <= DiffMaxCount
    /\ \A a \in r.add : a.src = "recommended" => a.tag = 0 /\ r.pc = "lock"
    /\ \A h \in Keeps(X, r.remove) : h.src = "recommended" =>
         IF r.pc = "recos" THEN P!CanonicalHash(h.params) \in r.known
         ELSE \A a \in r.add : a.src = "recommended" /\ a.params = h.params => h.params.lit # "int"

\* The plan of a Rollback to a release that shows Y
Restores(r, X, Y) ==
    /\ Keeps(X, r.remove) = X \cap Y
    /\ r.add = {P!NewRow(h.src, h.params, h.id) : h \in Y \ X}

\* What a transaction will commit, for a Publish
Asked(r, X) ==
    /\ ~r.forced => Cardinality(P!Jumps(X, r.snap)) <= DiffMaxCount
    /\ P!Twice(r.snap) => P!Twice(X)

\* A request, from its reads to its COMMIT: as long as no release comes between,
\* its plan is one for the newest release.
PlanFollows(r) ==
    /\ r.pc # "idle" => r.base <= P!Latest /\ r.to <= r.base
    /\ r.pc = "plan" => r.to # 0
    /\ r.pc = "recos" => r.to = 0
    /\ r.pc \in {"recos", "lock"} /\ r.base = P!Latest =>
         IF r.to = 0 THEN Planned(r, ShownAt(r.base)) ELSE Restores(r, ShownAt(r.base), ShownAt(r.to))
    /\ r.pc \in {"snap", "commit"} /\ r.live /\ r.base = P!Latest =>
         IF r.to = 0 THEN Asked(r, ShownAt(r.base)) ELSE Alike(r.snap, ShownAt(r.to))

\* The same of the releases there are
ReleasesFollow ==
    \A v \in 1 .. P!Latest :
        /\ releases[v].to < v
        /\ P!Fresh(v) /\ releases[v].to # 0 => Alike(ShownAt(v), ShownAt(releases[v].to))
        /\ P!Fresh(v) /\ releases[v].to = 0 /\ ~releases[v].forced =>
             Cardinality(P!Jumps(ShownAt(v - 1), ShownAt(v))) <= DiffMaxCount
        /\ P!Twice(ShownAt(v)) => \E u \in 1 .. v : ~P!Fresh(u)

SoundInv == ReleasesFollow /\ \A w \in Publishers : PlanFollows(pub[w])

\* A set of profiles and what is shown of it have everything in common that a
\* release is judged by.
LEMMA ShownSame ==
    ASSUME NEW ps, NEW L \in Nat, NEW next \in Nat, Library(ps, L, next),
           NEW D, D \subseteq ps, NEW E, E \subseteq ps
    PROVE  /\ IsFiniteSet(P!Shown(E)) /\ Cardinality(P!Shown(E)) = Cardinality(E)
           /\ \A h, k \in P!Shown(E) : h.id = k.id => h = k
           /\ P!Content(P!Shown(E)) = P!Content(E)
           /\ P!Twice(P!Shown(E)) <=> P!Twice(E)
           /\ Cardinality(P!Jumps(P!Shown(D), P!Shown(E))) = Cardinality(P!Jumps(D, E))
<1> DEFINE S(p) == [id |-> p.id, src |-> p.src, params |-> p.params]
<1>1. \A X : P!Shown(X) = {S(p) : p \in X}
  BY Zenon DEF P!Shown
<1>2. \A p \in ps : S(p).id = p.id /\ S(p).src = p.src /\ S(p).params = p.params
  OBVIOUS
<1> HIDE DEF S
<1>3. \A p, q \in ps : S(p).id = S(q).id => p = q
  BY <1>2 DEF Library
<1>4. \A X \in SUBSET ps : IsFiniteSet(P!Shown(X)) /\ Cardinality(P!Shown(X)) = Cardinality(X)
  <2> SUFFICES ASSUME NEW X \in SUBSET ps
               PROVE  IsFiniteSet(P!Shown(X)) /\ Cardinality(P!Shown(X)) = Cardinality(X)
    OBVIOUS
  <2>1. IsFiniteSet(X)
    BY FS_Subset DEF Library
  <2> DEFINE g == [p \in X |-> S(p)]
  <2>2. g \in Bijection(X, P!Shown(X))
    BY <1>1, <1>3 DEF Bijection, Injection, Surjection, IsInjective
  <2> QED BY <2>1, <2>2, FS_Bijection DEF ExistsBijection
<1>5. \A h, k \in P!Shown(E) : h.id = k.id => h = k
  BY <1>1, <1>3
<1>6. P!Content(P!Shown(E)) = P!Content(E)
  <2>1. \A p \in E : <<S(p).src, S(p).params>> = <<p.src, p.params>>
    BY <1>2
  <2> QED BY <1>1, <2>1 DEF P!Content
<1>7. P!Twice(P!Shown(E)) <=> P!Twice(E)
  <2>1. \A p, q \in E : S(p) = S(q) <=> p = q
    BY <1>3
  <2> QED BY <1>1, <1>2, <2>1 DEF P!Twice
<1>8. P!OldByKey(P!Shown(D), "official") = {S(p) : p \in P!OldByKey(D, "official")}
  BY <1>1, <1>2 DEF P!OldByKey
<1>9. P!Jumps(P!Shown(D), P!Shown(E)) = P!Shown(P!Jumps(D, E))
  <2>1. \A n \in E : S(n) \in P!Jumps(P!Shown(D), P!Shown(E)) <=> n \in P!Jumps(D, E)
    <3> SUFFICES ASSUME NEW n \in E
                 PROVE  S(n) \in P!Jumps(P!Shown(D), P!Shown(E)) <=> n \in P!Jumps(D, E)
      OBVIOUS
    <3>1. \A o \in P!OldByKey(D, "official") :
            P!Far(S(o).params.power, S(n).params.power) <=> P!Far(o.params.power, n.params.power)
      BY <1>2 DEF P!OldByKey
    <3>2. S(n) \in P!Shown(E) /\ S(n).src = n.src
      BY <1>1, <1>2
    <3> QED BY <1>8, <3>1, <3>2 DEF P!Jumps
  <2>2. P!Jumps(P!Shown(D), P!Shown(E)) \subseteq P!Shown(E) /\ P!Jumps(D, E) \subseteq E
    BY DEF P!Jumps
  <2> QED BY <1>1, <2>1, <2>2
<1>10. P!Jumps(D, E) \in SUBSET ps
  BY DEF P!Jumps
<1> QED BY <1>4, <1>5, <1>6, <1>7, <1>9, <1>10

\* Sets that are alike have as many members, with the same contents.
LEMMA AlikeSame ==
    ASSUME NEW X, NEW Y, IsFiniteSet(Y), Alike(X, Y)
    PROVE  /\ P!Content(X) = P!Content(Y)
           /\ IsFiniteSet(X) /\ Cardinality(X) = Cardinality(Y)
           /\ P!Twice(X) => P!Twice(Y)
           /\ \A D : Cardinality(P!Jumps(D, X)) <= Cardinality(P!Jumps(D, Y))
<1>1. PICK f \in [X -> Y] : /\ \A x, y \in X : f[x] = f[y] => x = y
                            /\ \A y \in Y : \E x \in X : f[x] = y
                            /\ \A x \in X : f[x].src = x.src /\ f[x].params = x.params
  BY DEF Alike
<1>2. P!Content(X) = P!Content(Y)
  BY <1>1 DEF P!Content
<1>3. f \in Injection(X, Y) /\ f \in Surjection(X, Y)
  BY <1>1 DEF Injection, Surjection, IsInjective
<1>4. IsFiniteSet(X) /\ Cardinality(X) = Cardinality(Y)
  BY <1>3, FS_Injection
<1>5. P!Twice(X) => P!Twice(Y)
  BY <1>1 DEF P!Twice
<1>6. ASSUME NEW D
      PROVE  Cardinality(P!Jumps(D, X)) <= Cardinality(P!Jumps(D, Y))
  <2> DEFINE g == [x \in P!Jumps(D, X) |-> f[x]]
  <2>1. \A x \in P!Jumps(D, X) : x \in X /\ f[x] \in P!Jumps(D, Y)
    BY <1>1 DEF P!Jumps
  <2>2. g \in Injection(P!Jumps(D, X), P!Jumps(D, Y))
    BY <1>1, <2>1 DEF Injection, IsInjective
  <2>3. IsFiniteSet(P!Jumps(D, Y))
    BY FS_Subset DEF P!Jumps
  <2> QED BY <2>2, <2>3, FS_Injection
<1> QED BY <1>2, <1>4, <1>5, <1>6

\* The rows of a plan are alike what was planned.
LEMMA RowsAlike ==
    ASSUME NEW add, IsFiniteSet(add), add \subseteq PlanRow, NEW ver \in Nat, nextId \in Nat
    PROVE  Alike(P!Shown(P!Rows(add, ver)), add)
<1> DEFINE n == Cardinality(add)
           s == P!SetToSeq(add)
           Row(i) == [id |-> nextId + i - 1, src |-> s[i].src, params |-> s[i].params, added |-> ver, removed |-> 0]
           S(p) == [id |-> p.id, src |-> p.src, params |-> p.params]
<1>1. n \in Nat
  BY FS_CardinalityType
<1>2. s \in [1 .. n -> add] /\ (\A i, j \in 1 .. n : s[i] = s[j] => i = j) /\ \A a \in add : \E i \in 1 .. n : s[i] = a
  BY PlanNumbered
<1>3. P!Rows(add, ver) = {Row(i) : i \in 1 .. n}
  <2>1. DOMAIN s = 1 .. n
    BY <1>2
  <2> QED BY <2>1, Zenon DEF P!Rows
<1> HIDE DEF n, s
<1>4. \A i \in 1 .. n : Row(i).id = nextId + i - 1 /\ Row(i).src = s[i].src /\ Row(i).params = s[i].params
  OBVIOUS
<1> HIDE DEF Row
<1>5. P!Shown(P!Rows(add, ver)) = {S(Row(i)) : i \in 1 .. n}
  <2>1. P!Shown(P!Rows(add, ver)) = {S(p) : p \in P!Rows(add, ver)}
    BY Zenon DEF P!Shown
  <2> QED BY <1>3, <2>1
<1>6. \A i \in 1 .. n : S(Row(i)).id = nextId + i - 1 /\ S(Row(i)).src = s[i].src /\ S(Row(i)).params = s[i].params
  BY <1>4
<1> HIDE DEF S
<1> DEFINE X == {S(Row(i)) : i \in 1 .. n}
           f == [x \in X |-> s[x.id + 1 - nextId]]
<1>7. \A i \in 1 .. n : f[S(Row(i))] = s[i]
  <2> SUFFICES ASSUME NEW i \in 1 .. n PROVE f[S(Row(i))] = s[i]
    OBVIOUS
  <2>1. f[S(Row(i))] = s[S(Row(i)).id + 1 - nextId]
    OBVIOUS
  <2>2. S(Row(i)).id + 1 - nextId = i
    BY <1>1, <1>6
  <2> QED BY <2>1, <2>2
<1>8. f \in [X -> add]
  <2>1. ASSUME NEW x \in X PROVE f[x] \in add
    <3>1. PICK i \in 1 .. n : x = S(Row(i))
      OBVIOUS
    <3>2. f[x] = s[i]
      BY <1>7, <3>1
    <3> QED BY <1>2, <3>2
  <2>2. f = [x \in X |-> f[x]]
    OBVIOUS
  <2> HIDE DEF f, X
  <2> QED BY <2>1, <2>2
<1> HIDE DEF f
<1>9. \A x, y \in X : f[x] = f[y] => x = y
  BY <1>2, <1>7
<1>10. \A a \in add : \E x \in X : f[x] = a
  BY <1>2, <1>7
<1>11. \A x \in X : f[x].src = x.src /\ f[x].params = x.params
  BY <1>6, <1>7
<1> HIDE DEF X
<1>12. Alike(X, add)
  BY <1>8, <1>9, <1>10, <1>11 DEF Alike
<1> QED BY <1>5, <1>12 DEF X

\* What a transaction will commit: what it keeps of the newest release, and its
\* rows.
LEMMA SnapShows ==
    ASSUME NEW ps, NEW L \in Nat, NEW next \in Nat, Library(ps, L, next), NEW remove, NEW rows, NEW later,
           NewRows(rows, ps, L + 1, later), \A p \in ps : p.id \in remove => p.removed = 0
    PROVE  /\ P!Shown(P!EffectiveAt(P!Applied(ps, remove, L + 1, rows), L + 1))
                = Keeps(P!Shown(P!EffectiveAt(ps, L)), remove) \cup P!Shown(rows)
           /\ \A h \in P!Shown(ps), k \in P!Shown(rows) : h.id # k.id
<1> DEFINE U(p) == [p EXCEPT !.removed = IF p.id \in remove THEN L + 1 ELSE @]
           S(p) == [id |-> p.id, src |-> p.src, params |-> p.params]
<1>1. \A p \in ps : /\ p \in Profile
                    /\ U(p).id = p.id /\ U(p).src = p.src /\ U(p).params = p.params /\ U(p).added = p.added
                    /\ U(p).removed = IF p.id \in remove THEN L + 1 ELSE p.removed
  BY DEF Library, Profile
<1>2. \A p \in ps : P!IsEffective(U(p), L + 1) <=> P!IsEffective(p, L) /\ p.id \notin remove
  <2> SUFFICES ASSUME NEW p \in ps
               PROVE  P!IsEffective(U(p), L + 1) <=> P!IsEffective(p, L) /\ p.id \notin remove
    OBVIOUS
  <2>1. p.added \in Nat /\ p.removed \in Nat /\ p.added <= L /\ p.removed <= L
    BY <1>1 DEF Library, Profile
  <2>2. U(p).added = p.added /\ U(p).removed = IF p.id \in remove THEN L + 1 ELSE p.removed
    BY <1>1
  <2> HIDE DEF U
  <2> QED BY <2>1, <2>2 DEF P!IsEffective
<1>3. \A r \in rows : P!IsEffective(r, L + 1)
  <2> SUFFICES ASSUME NEW r \in rows PROVE P!IsEffective(r, L + 1)
    OBVIOUS
  <2>1. r.added = L + 1 /\ r.removed = 0
    BY DEF NewRows
  <2> QED BY <2>1 DEF P!IsEffective
<1>4. P!Applied(ps, remove, L + 1, rows) = {U(p) : p \in ps} \cup rows
  BY Zenon DEF P!Applied
<1>5. \A p \in ps : S(U(p)) = S(p)
  BY <1>1
<1>6. \A p : S(p).id = p.id
  OBVIOUS
<1>7. \A X : P!Shown(X) = {S(p) : p \in X}
  BY Zenon DEF P!Shown
<1> HIDE DEF U, S
<1> DEFINE K == {p \in ps : P!IsEffective(p, L) /\ p.id \notin remove}
<1>8. P!EffectiveAt(P!Applied(ps, remove, L + 1, rows), L + 1) = {U(p) : p \in K} \cup rows
  BY <1>2, <1>3, <1>4 DEF P!EffectiveAt
<1>9. P!Shown({U(p) : p \in K} \cup rows) = {S(p) : p \in K} \cup P!Shown(rows)
  <2>1. \A p \in K : S(U(p)) = S(p)
    BY <1>5
  <2>2. {S(q) : q \in {U(p) : p \in K} \cup rows} = {S(p) : p \in K} \cup {S(q) : q \in rows}
    <3> HIDE DEF K
    <3> QED BY <2>1
  <2> QED BY <1>7, <2>2, Zenon
<1>10. Keeps(P!Shown(P!EffectiveAt(ps, L)), remove) = {S(p) : p \in K}
  <2>1. P!Shown(P!EffectiveAt(ps, L)) = {S(p) : p \in P!EffectiveAt(ps, L)}
    BY <1>7
  <2>2. K = {p \in P!EffectiveAt(ps, L) : p.id \notin remove}
    BY DEF P!EffectiveAt
  <2> HIDE DEF K
  <2> QED BY <1>6, <2>1, <2>2 DEF Keeps
<1>11. \A h \in P!Shown(ps), k \in P!Shown(rows) : h.id # k.id
  BY <1>6, <1>7 DEF NewRows
<1> QED BY <1>8, <1>9, <1>10, <1>11

\* A Publish that nobody overtook commits what its plan said.
LEMMA PlannedAsked ==
    ASSUME DiffMaxCount \in Nat, NEW X, IsFiniteSet(X), NEW r, r.pc = "lock", IsFiniteSet(r.add), r.add \subseteq PlanRow,
           Planned(r, X), NEW T, Alike(T, r.add)
    PROVE  /\ ~r.forced => Cardinality(P!Jumps(X, Keeps(X, r.remove) \cup T)) <= DiffMaxCount
           /\ P!Twice(Keeps(X, r.remove) \cup T) => P!Twice(X)
<1> DEFINE K == Keeps(X, r.remove)
<1>1. PICK f \in [T -> r.add] : /\ \A x, y \in T : f[x] = f[y] => x = y
                                /\ \A y \in r.add : \E x \in T : f[x] = y
                                /\ \A x \in T : f[x].src = x.src /\ f[x].params = x.params
  BY DEF Alike
<1>2. ASSUME ~r.forced PROVE Cardinality(P!Jumps(X, K \cup T)) <= DiffMaxCount
  <2>1. P!Jumps(X, K \cup T) = P!Jumps(X, K) \cup P!Jumps(X, T)
    BY DEF P!Jumps
  <2>2. IsFiniteSet(T) /\ Cardinality(P!Jumps(X, T)) <= Cardinality(P!Jumps(X, r.add))
    BY AlikeSame
  <2>3. P!Jumps(X, K) \subseteq X /\ P!Jumps(X, T) \subseteq T /\ P!Jumps(X, r.add) \subseteq r.add
    BY DEF P!Jumps, Keeps
  <2>4. IsFiniteSet(P!Jumps(X, K)) /\ IsFiniteSet(P!Jumps(X, T)) /\ IsFiniteSet(P!Jumps(X, r.add))
    BY <2>2, <2>3, FS_Subset
  <2>5. IsFiniteSet(P!Jumps(X, K) \cap P!Jumps(X, T))
    BY <2>4, FS_Intersection
  <2>6. Cardinality(P!Jumps(X, K \cup T)) =
           Cardinality(P!Jumps(X, K)) + Cardinality(P!Jumps(X, T)) - Cardinality(P!Jumps(X, K) \cap P!Jumps(X, T))
    BY <2>1, <2>4, FS_Union
  <2>7. /\ Cardinality(P!Jumps(X, K)) \in Nat /\ Cardinality(P!Jumps(X, T)) \in Nat
        /\ Cardinality(P!Jumps(X, r.add)) \in Nat /\ Cardinality(P!Jumps(X, K) \cap P!Jumps(X, T)) \in Nat
    BY <2>4, <2>5, FS_CardinalityType
  <2>8. Cardinality(P!Jumps(X, K)) + Cardinality(P!Jumps(X, r.add)) <= DiffMaxCount
    BY <1>2 DEF Planned
  <2> HIDE DEF K
  <2> QED BY <2>2, <2>6, <2>7, <2>8
<1>3. ASSUME P!Twice(K \cup T) PROVE P!Twice(X)
  <2>1. PICK p \in K \cup T, q \in K \cup T :
          p # q /\ p.src = "recommended" /\ q.src = "recommended" /\ p.params = q.params /\ p.params.lit = "int"
    BY <1>3 DEF P!Twice
  <2>2. K \subseteq X
    BY DEF Keeps
  <2>3. CASE p \in K /\ q \in K
    BY <2>1, <2>2, <2>3 DEF P!Twice
  <2>4. ASSUME NEW h \in K, NEW k \in T, h.src = "recommended", k.src = "recommended", h.params = k.params,
               h.params.lit = "int"
        PROVE  FALSE
    <3>1. f[k] \in r.add /\ f[k].src = "recommended" /\ f[k].params = h.params
      BY <1>1, <2>4
    <3> QED BY <2>4, <3>1 DEF Planned
  <2>5. CASE p \in T /\ q \in T
    <3>1. f[p] \in r.add /\ f[p].src = "recommended" /\ f[q] \in r.add /\ f[q].src = "recommended" /\ f[p].params = f[q].params
      BY <1>1, <2>1, <2>5
    <3>2. f[p].tag = f[q].tag
      BY <3>1 DEF Planned
    <3>3. f[p] = f[q]
      BY <3>1, <3>2 DEF PlanRow
    <3> QED BY <1>1, <2>1, <2>5, <3>3
  <2> HIDE DEF K
  <2> QED BY <2>1, <2>3, <2>4, <2>5
<1> QED BY <1>2, <1>3

\* A Rollback that nobody overtook commits its target, under some new ids.
LEMMA RestoredAlike ==
    ASSUME NEW X, NEW Y, NEW r, NEW T, Restores(r, X, Y), Alike(T, r.add),
           \A h, k \in Y : h.id = k.id => h = k, \A h \in Y, k \in T : h.id # k.id
    PROVE  Alike(Keeps(X, r.remove) \cup T, Y)
<1> DEFINE Row(h) == P!NewRow(h.src, h.params, h.id)
<1>1. PICK f \in [T -> r.add] : /\ \A x, y \in T : f[x] = f[y] => x = y
                                /\ \A y \in r.add : \E x \in T : f[x] = y
                                /\ \A x \in T : f[x].src = x.src /\ f[x].params = x.params
  BY DEF Alike
<1>2. Keeps(X, r.remove) = X \cap Y /\ r.add = {Row(h) : h \in Y \ X}
  BY Zenon DEF Restores
<1>3. \A h : Row(h).src = h.src /\ Row(h).params = h.params /\ Row(h).tag = h.id
  BY DEF P!NewRow
<1> HIDE DEF Row
<1>4. \A h, k \in Y : Row(h) = Row(k) => h = k
  BY <1>3
<1> DEFINE Z == (X \cap Y) \cup T
           Old(x) == CHOOSE h \in Y \ X : Row(h) = f[x]
           g == [x \in Z |-> IF x \in T THEN Old(x) ELSE x]
<1>5. \A x \in T : Old(x) \in Y \ X /\ Row(Old(x)) = f[x]
  BY <1>1, <1>2
<1>6. \A x \in T : x \notin Y
  OBVIOUS
<1> HIDE DEF Old
<1>7. g \in [Z -> Y]
  BY <1>5
<1>8. (\A x \in T : g[x] = Old(x)) /\ \A x \in X \cap Y : g[x] = x
  BY <1>6
<1> HIDE DEF g
<1>9. ASSUME NEW x \in Z, NEW y \in Z, g[x] = g[y] PROVE x = y
  <2>1. CASE x \in T /\ y \in T
    BY <1>1, <1>5, <1>8, <1>9, <2>1
  <2>2. CASE x \notin T /\ y \notin T
    BY <1>8, <1>9, <2>2
  <2>3. CASE x \in T /\ y \notin T
    BY <1>5, <1>8, <1>9, <2>3
  <2>4. CASE x \notin T /\ y \in T
    BY <1>5, <1>8, <1>9, <2>4
  <2> QED BY <2>1, <2>2, <2>3, <2>4
<1>10. ASSUME NEW y \in Y PROVE \E x \in Z : g[x] = y
  <2>1. CASE y \in X
    BY <1>8, <2>1
  <2>2. CASE y \notin X
    <3>1. Row(y) \in r.add
      BY <1>2, <2>2
    <3>2. PICK x \in T : f[x] = Row(y)
      BY <1>1, <3>1
    <3>3. Old(x) = y
      BY <1>4, <1>5, <3>2
    <3> QED BY <1>8, <3>3
  <2> QED BY <2>1, <2>2
<1>11. ASSUME NEW x \in Z PROVE g[x].src = x.src /\ g[x].params = x.params
  <2>1. CASE x \in T
    BY <1>1, <1>3, <1>5, <1>8, <2>1
  <2>2. CASE x \notin T
    BY <1>8, <2>2
  <2> QED BY <2>1, <2>2
<1>12. Alike(Z, Y)
  <2> HIDE DEF Z
  <2> QED BY <1>7, <1>9, <1>10, <1>11 DEF Alike
<1> QED BY <1>2, <1>12

-----------------------------------------------------------------------------
(* The steps of publishers.                                                *)

LEMMA ReleaseFacts ==
    ASSUME ParamInv
    PROVE  /\ P!Latest \in Nat /\ nextId \in Nat /\ Library(profiles, P!Latest, nextId)
           /\ \A v : P!Eff(v) \subseteq profiles
           /\ \A v : IsFiniteSet(ShownAt(v)) /\ ShownAt(v) \subseteq P!Shown(profiles)
           /\ \A h, k \in P!Shown(profiles) : h.id = k.id => h = k
<1>1. P!Latest \in Nat /\ nextId \in Nat /\ Library(profiles, P!Latest, nextId)
  BY LatestNat DEF ParamInv, LibraryOK
<1>2. \A v : P!Eff(v) \subseteq profiles
  BY DEF P!Eff, P!EffectiveAt
<1>3. \A E \in SUBSET profiles : IsFiniteSet(P!Shown(E)) /\ \A h, k \in P!Shown(E) : h.id = k.id => h = k
  <2> SUFFICES ASSUME NEW E \in SUBSET profiles
               PROVE  IsFiniteSet(P!Shown(E)) /\ \A h, k \in P!Shown(E) : h.id = k.id => h = k
    OBVIOUS
  <2> QED BY <1>1, ShownSame
<1>4. \A E \in SUBSET profiles : P!Shown(E) \subseteq P!Shown(profiles)
  BY DEF P!Shown
<1> QED BY <1>1, <1>2, <1>3, <1>4 DEF ShownAt

\* Of a step that commits nothing only its own request has to be looked at.
LEMMA PubStep ==
    ASSUME ParamInv, SoundInv, UNCHANGED <<profiles, releases>>, NEW w \in Publishers, NEW f, pub' = [pub EXCEPT ![w] = f],
           PlanFollows(f)
    PROVE  SoundInv'
<1>1. P!Latest' = P!Latest /\ \A v : ShownAt(v)' = ShownAt(v)
  BY DEF P!Latest, ShownAt, P!Eff
<1>2. \A v : P!Fresh(v)' = P!Fresh(v)
  BY DEF P!Fresh
<1>3. ReleasesFollow'
  BY <1>1, <1>2 DEF SoundInv, ReleasesFollow
<1>4. ASSUME NEW r, PlanFollows(r) PROVE PlanFollows(r)'
  BY <1>1, <1>4 DEF PlanFollows
<1>5. ASSUME NEW v \in Publishers PROVE PlanFollows(pub[v])'
  <2>1. pub'[v] = f \/ pub'[v] = pub[v]
    BY DEF ParamInv, PlansOK
  <2> QED BY <1>4, <2>1 DEF SoundInv
<1> QED BY <1>3, <1>5 DEF SoundInv

LEMMA IdleFollows == ASSUME P!Latest \in Nat PROVE PlanFollows(P!IdlePub)
BY DEF PlanFollows, P!IdlePub

\* Publish: the violations that were counted are the powers that will jump.
LEMMA PublishSound ==
    ASSUME P!ParamConstants, ParamInv, SoundInv, NEW w \in Publishers, P!Publish(w)
    PROVE  SoundInv'
<1>1. PICK ask \in Asks :
        LET old == P!EffectiveAt(profiles, P!Latest)
            remove == {p \in old : ask.drop /\ \A q \in old : q.id <= p.id}
            add == {P!OfficialRow(x) : x \in {ask.power} \ {0}}
            forced == P!Cardinality(P!DiffValidate(old, (old \ remove) \cup add)) > DiffMaxCount
        IN P!Pub(w, [P!IdlePub EXCEPT !.pc = "recos", !.base = P!Latest, !.remove = {p.id : p \in remove},
                       !.add = add, !.pct = ask.pct, !.forced = forced,
                       !.known = {P!CanonicalHash(p.params) : p \in {q \in old \ remove : q.src = "recommended"}}])
  BY Zenon DEF P!Publish
<1> DEFINE old == P!EffectiveAt(profiles, P!Latest)
           drop == {p \in old : ask.drop /\ \A q \in old : q.id <= p.id}
           remove == {p.id : p \in drop}
           add == {P!OfficialRow(x) : x \in {ask.power} \ {0}}
           far == P!DiffValidate(old, (old \ drop) \cup add)
           forced == P!Cardinality(far) > DiffMaxCount
           known == {P!CanonicalHash(p.params) : p \in {q \in old \ drop : q.src = "recommended"}}
           f == [P!IdlePub EXCEPT !.pc = "recos", !.base = P!Latest, !.remove = remove,
                   !.add = add, !.pct = ask.pct, !.forced = forced, !.known = known]
           X == ShownAt(P!Latest)
           S(p) == [id |-> p.id, src |-> p.src, params |-> p.params]
<1>2. pub' = [pub EXCEPT ![w] = f] /\ UNCHANGED <<profiles, releases>>
  BY <1>1, Zenon DEF P!Publish, P!Pub, P!library
<1>3. /\ P!Latest \in Nat /\ nextId \in Nat /\ Library(profiles, P!Latest, nextId)
      /\ old \subseteq profiles /\ profiles \subseteq Profile /\ IsFiniteSet(old)
  <2>1. P!Latest \in Nat /\ nextId \in Nat /\ Library(profiles, P!Latest, nextId)
    BY ReleaseFacts
  <2>2. old \subseteq profiles
    BY DEF P!EffectiveAt
  <2> QED BY <2>1, <2>2, FS_Subset DEF Library
<1>4. add \subseteq {P!OfficialRow(ask.power)} /\ ask.power \in Nat
  BY DEF P!ParamConstants
<1>5. \A a \in add : a.src = "official" /\ a \in PlanRow
  BY <1>4 DEF P!OfficialRow, P!NewRow, PlanRow, Srcs, Params
<1>6. IsFiniteSet(add)
  BY <1>4, FS_Singleton, FS_Subset
<1>7. X = P!Shown(old)
  BY DEF ShownAt, P!Eff
<1>8. Keeps(X, remove) = P!Shown(old \ drop)
  <2>1. \A E : P!Shown(E) = {S(p) : p \in E}
    BY Zenon DEF P!Shown
  <2>2. \A p \in old : p.id \notin remove <=> p \notin drop
    BY <1>3 DEF Library
  <2>3. \A p : S(p).id = p.id
    OBVIOUS
  <2> HIDE DEF S, old, drop, remove, X
  <2>4. \A p \in old : S(p).id \notin remove <=> p \notin drop
    BY <2>2, <2>3
  <2> QED BY <1>7, <2>1, <2>4 DEF Keeps
<1>9. Cardinality(P!Jumps(X, Keeps(X, remove))) = Cardinality(P!Jumps(old, old \ drop))
  BY <1>3, <1>7, <1>8, ShownSame
<1>10. P!Jumps(X, add) = P!Jumps(old, add)
  <2>1. \A E : P!Shown(E) = {S(p) : p \in E}
    BY Zenon DEF P!Shown
  <2>2. \A p : S(p).id = p.id /\ S(p).src = p.src /\ S(p).params = p.params
    OBVIOUS
  <2> HIDE DEF S, old, add, X
  <2>3. P!OldByKey(X, "official") = {S(p) : p \in P!OldByKey(old, "official")}
    BY <1>7, <2>1, <2>2 DEF P!OldByKey
  <2>4. \A n : (\E o \in P!OldByKey(X, "official") : P!Far(o.params.power, n.params.power))
                 <=> \E o \in P!OldByKey(old, "official") : P!Far(o.params.power, n.params.power)
    BY <2>2, <2>3
  <2> QED BY <2>4 DEF P!Jumps
<1> HIDE DEF drop, add
<1>11. P!Jumps(old, old \ drop) \cup P!Jumps(old, add) \subseteq far
  BY DEF P!Jumps, P!DiffValidate
<1>12. P!Jumps(old, old \ drop) \cap P!Jumps(old, add) = {}
  <2>1. \A p \in profiles, a \in add : p # a
    <3> SUFFICES ASSUME NEW p \in profiles, NEW a \in add, p = a PROVE FALSE
      OBVIOUS
    <3>1. p \in Profile /\ a \in PlanRow
      BY <1>3, <1>5
    <3>2. "id" \in DOMAIN p /\ "id" \notin DOMAIN a
      BY <3>1 DEF Profile, PlanRow
    <3> QED BY <3>2
  <2>2. P!Jumps(old, old \ drop) \subseteq profiles /\ P!Jumps(old, add) \subseteq add
    BY <1>3 DEF P!Jumps
  <2> QED BY <2>1, <2>2
<1>13. IsFiniteSet(far)
  <2>1. IsFiniteSet(old \cup add)
    BY <1>3, <1>6, FS_Union
  <2>2. far \subseteq old \cup add
    BY DEF P!DiffValidate
  <2> QED BY <2>1, <2>2, FS_Subset
<1> HIDE DEF old, far, X, remove, known
<1>14. ~forced => Cardinality(P!Jumps(X, Keeps(X, remove))) + Cardinality(P!Jumps(X, add)) <= DiffMaxCount
  <2> DEFINE Stay == P!Jumps(old, old \ drop)
             Come == P!Jumps(old, add)
  <2>1. IsFiniteSet(Stay) /\ IsFiniteSet(Come) /\ IsFiniteSet(Stay \cup Come) /\ Cardinality(Stay \cup Come) <= Cardinality(far)
    BY <1>11, <1>13, FS_Subset
  <2>2. Cardinality(Stay \cup Come) = Cardinality(Stay) + Cardinality(Come) - Cardinality(Stay \cap Come)
    BY <2>1, FS_Union
  <2>3. Cardinality(Stay \cap Come) = 0
    BY <1>12, FS_EmptySet
  <2>4. Cardinality(Stay) \in Nat /\ Cardinality(Come) \in Nat /\ Cardinality(far) \in Nat
    BY <1>13, <2>1, FS_CardinalityType
  <2>5. P!Cardinality(far) = Cardinality(far) /\ DiffMaxCount \in Nat
    BY SameParamCardinality DEF P!ParamConstants
  <2>6. Cardinality(Stay) + Cardinality(Come) <= Cardinality(far)
    <3> HIDE DEF Stay, Come
    <3> QED BY <2>1, <2>2, <2>3, <2>4
  <2>7. ~forced => Cardinality(Stay) + Cardinality(Come) <= DiffMaxCount
    <3> HIDE DEF Stay, Come
    <3> QED BY <2>4, <2>5, <2>6
  <2> QED BY <1>9, <1>10, <2>7
<1>15. \A h \in Keeps(X, remove) : h.src = "recommended" => P!CanonicalHash(h.params) \in known
  <2>1. \A h \in P!Shown(old \ drop) : \E p \in old \ drop : h.src = p.src /\ h.params = p.params
    BY DEF P!Shown
  <2> QED BY <1>8, <2>1 DEF known
<1> HIDE DEF forced
<1>16. /\ f.pc = "recos" /\ f.base = P!Latest /\ f.remove = remove /\ f.add = add /\ f.forced = forced
       /\ f.known = known /\ f.to = 0
  BY DEF P!IdlePub
<1> HIDE DEF f
<1>17. Planned(f, X)
  BY <1>5, <1>14, <1>15, <1>16 DEF Planned
<1>18. PlanFollows(f)
  BY <1>3, <1>16, <1>17 DEF PlanFollows, X
<1> QED BY <1>2, <1>18, PubStep

\* The recommendations that join are none of those that stay.
LEMMA MergeRecosSound ==
    ASSUME P!ParamConstants, ParamInv, SoundInv, NEW w \in Publishers, P!MergeRecos(w)
    PROVE  SoundInv'
<1> DEFINE new == {x \in Recommendations : reco[x] = "published" /\ P!ParamsHash(x) \notin pub[w].known}
           rows == {P!NewRow("recommended", x, 0) : x \in new}
           r == pub[w]
           f == [r EXCEPT !.pc = "lock", !.known = {}, !.add = @ \cup rows]
           X == ShownAt(r.base)
<1>1. pub' = [pub EXCEPT ![w] = f] /\ UNCHANGED <<profiles, releases>> /\ r.pc = "recos"
  BY DEF P!MergeRecos, P!Pub, P!library, P!At
<1>2. \A a \in rows : /\ a.src = "recommended" /\ a.tag = 0 /\ a.params \in new
  BY DEF P!NewRow
<1>3. \A p \in new : p.lit = "int" => P!CanonicalHash(p) \notin r.known
  BY DEF P!CanonicalHash, P!ParamsHash
<1>4. P!Jumps(X, r.add \cup rows) = P!Jumps(X, r.add)
  BY <1>2 DEF P!Jumps
<1> HIDE DEF rows, new
<1>5. /\ f.pc = "lock" /\ f.base = r.base /\ f.remove = r.remove /\ f.add = r.add \cup rows /\ f.forced = r.forced
      /\ f.to = r.to
  BY DEF ParamInv, PlansOK, PubRec
<1> HIDE DEF f
<1>6. PlanFollows(r)
  BY DEF SoundInv
<1>7. ASSUME Planned(r, X) PROVE Planned(f, X)
  <2>1. ~f.forced => Cardinality(P!Jumps(X, Keeps(X, f.remove))) + Cardinality(P!Jumps(X, f.add)) <= DiffMaxCount
    BY <1>4, <1>5, <1>7 DEF Planned
  <2>2. \A a \in f.add : a.src = "recommended" => a \in rows
    BY <1>1, <1>5, <1>7 DEF Planned
  <2>3. ASSUME NEW h \in Keeps(X, f.remove), h.src = "recommended", NEW a \in f.add, a.src = "recommended",
               a.params = h.params, h.params.lit = "int"
        PROVE  FALSE
    <3>1. P!CanonicalHash(h.params) \in r.known
      BY <1>1, <1>5, <1>7, <2>3 DEF Planned
    <3>2. h.params \in new
      BY <1>2, <2>2, <2>3
    <3> QED BY <1>3, <2>3, <3>1, <3>2
  <2> QED BY <1>2, <1>5, <2>1, <2>2, <2>3 DEF Planned
<1>8. PlanFollows(f)
  BY <1>1, <1>5, <1>6, <1>7 DEF PlanFollows
<1> QED BY <1>1, <1>8, PubStep

\* A Rollback's plan leads to its target.
LEMMA RollbackSound ==
    ASSUME P!ParamConstants, ParamInv, SoundInv, NEW w \in Publishers, P!Rollback(w) \/ P!PlanRollback(w)
    PROVE  SoundInv'
<1>1. UNCHANGED <<profiles, releases>>
  BY DEF P!Rollback, P!PlanRollback, P!library
<1>2. P!Latest \in Nat /\ nextId \in Nat /\ Library(profiles, P!Latest, nextId)
  BY ReleaseFacts
<1>3. CASE P!Rollback(w)
  <2>1. PICK to \in 1 .. P!Latest :
           pub' = [pub EXCEPT ![w] = [P!IdlePub EXCEPT !.pc = "plan", !.base = P!Latest, !.to = to]]
    BY <1>3 DEF P!Rollback, P!Pub
  <2> DEFINE f == [P!IdlePub EXCEPT !.pc = "plan", !.base = P!Latest, !.to = to]
  <2>2. f.pc = "plan" /\ f.base = P!Latest /\ f.to = to
    BY DEF P!IdlePub
  <2> HIDE DEF f
  <2>3. PlanFollows(f)
    BY <1>2, <2>1, <2>2 DEF PlanFollows
  <2>4. pub' = [pub EXCEPT ![w] = f]
    BY <2>1 DEF f
  <2> QED BY <1>1, <2>3, <2>4, PubStep
<1>4. CASE P!PlanRollback(w)
  <2> DEFINE r == pub[w]
             present == P!EffectiveAt(profiles, r.base)
             then == P!EffectiveAt(profiles, r.to)
             remove == {p.id : p \in present \ then}
             add == {P!NewRow(p.src, p.params, p.id) : p \in then \ present}
             f == [r EXCEPT !.pc = "lock", !.remove = remove, !.add = add]
             X == ShownAt(r.base)
             Y == ShownAt(r.to)
             S(p) == [id |-> p.id, src |-> p.src, params |-> p.params]
             Row(h) == P!NewRow(h.src, h.params, h.id)
  <2>1. pub' = [pub EXCEPT ![w] = f] /\ r.pc = "plan"
    BY <1>4 DEF P!PlanRollback, P!RollbackPlan, P!Pub, P!At
  <2>2. present \subseteq profiles /\ then \subseteq profiles
    BY DEF P!EffectiveAt
  <2>3. X = {S(p) : p \in present} /\ Y = {S(p) : p \in then}
    BY Zenon DEF ShownAt, P!Shown, P!Eff
  <2>4. \A p \in profiles : S(p).id = p.id /\ S(p).src = p.src /\ S(p).params = p.params
    OBVIOUS
  <2>5. \A p \in profiles : Row(S(p)) = Row(p)
    BY <2>4
  <2> HIDE DEF S
  <2>6. \A p, q \in profiles : p.id = q.id => p = q
    BY <1>2 DEF Library
  <2>7. \A p, q \in profiles : S(p) = S(q) <=> p = q
    BY <2>4, <2>6
  <2> HIDE DEF present, then
  <2>8. \A p \in present : p.id \notin remove <=> p \in then
    BY <2>2, <2>6
  <2> HIDE DEF X, Y
  <2>9. Keeps(X, remove) = X \cap Y
    <3>1. ASSUME NEW h \in X PROVE h.id \notin remove <=> h \in Y
      <4>1. PICK p \in present : h = S(p)
        BY <2>3
      <4>2. h.id = p.id /\ (h \in Y <=> p \in then)
        BY <2>2, <2>3, <2>4, <2>7, <4>1
      <4> QED BY <2>8, <4>2
    <3> HIDE DEF remove
    <3> QED BY <3>1 DEF Keeps
  <2>10. add = {Row(h) : h \in Y \ X}
    <3>1. Y \ X = {S(p) : p \in then \ present}
      BY <2>2, <2>3, <2>7
    <3>2. \A p \in then \ present : Row(S(p)) = Row(p)
      BY <2>2, <2>5
    <3>3. add = {Row(p) : p \in then \ present}
      BY Zenon
    <3> HIDE DEF Row, add
    <3> QED BY <3>1, <3>2, <3>3
  <2> HIDE DEF add, remove
  <2>11. f.pc = "lock" /\ f.base = r.base /\ f.to = r.to /\ f.add = add /\ f.remove = remove
    BY DEF ParamInv, PlansOK, PubRec
  <2> HIDE DEF f
  <2>12. Restores(f, X, Y)
    BY <2>9, <2>10, <2>11 DEF Restores
  <2>13. PlanFollows(r)
    BY DEF SoundInv
  <2>14. PlanFollows(f)
    BY <2>1, <2>11, <2>12, <2>13 DEF PlanFollows, X, Y
  <2> QED BY <1>1, <2>1, <2>14, PubStep
<1> QED BY <1>3, <1>4

\* A request that fails is gone, and one that lost its session commits nothing.
LEMMA PubFailsSound ==
    ASSUME ParamInv, SoundInv, NEW w \in Publishers, P!LoseSession(w) \/ P!Fails(w) \/ P!WriteSnapshot(w)
    PROVE  SoundInv'
<1>1. UNCHANGED <<profiles, releases>> /\ P!Latest \in Nat
  BY ReleaseFacts DEF P!LoseSession, P!Fails, P!WriteSnapshot, P!library
<1>2. PlanFollows(pub[w]) /\ pub[w] \in PubRec
  BY DEF SoundInv, ParamInv, PlansOK
<1>3. CASE P!LoseSession(w)
  <2> DEFINE f == [pub[w] EXCEPT !.live = FALSE]
  <2>1. pub' = [pub EXCEPT ![w] = f] /\ pub[w].pc \in {"snap", "commit"}
    BY <1>3 DEF P!LoseSession, P!Pub, P!Holds
  <2>2. f.pc = pub[w].pc /\ f.base = pub[w].base /\ f.to = pub[w].to /\ f.live = FALSE
    BY <1>2 DEF PubRec
  <2> HIDE DEF f
  <2>3. PlanFollows(f)
    BY <1>2, <2>1, <2>2 DEF PlanFollows
  <2> QED BY <1>1, <2>1, <2>3, PubStep
<1>4. CASE P!Fails(w)
  <2>1. pub' = [pub EXCEPT ![w] = P!IdlePub]
    BY <1>4 DEF P!Fails, P!Pub
  <2> QED BY <1>1, <2>1, IdleFollows, PubStep
<1>5. CASE P!WriteSnapshot(w)
  <2> DEFINE f == [pub[w] EXCEPT !.pc = "commit"]
  <2>1. pub' = [pub EXCEPT ![w] = f] /\ pub[w].pc = "snap"
    BY <1>5 DEF P!WriteSnapshot, P!Pub, P!At
  <2>2. /\ f.pc = "commit" /\ f.base = pub[w].base /\ f.to = pub[w].to /\ f.live = pub[w].live
        /\ f.forced = pub[w].forced /\ f.snap = pub[w].snap
    BY <1>2 DEF PubRec
  <2> HIDE DEF f
  <2>3. PlanFollows(f)
    BY <1>2, <2>1, <2>2 DEF PlanFollows, Asked
  <2> QED BY <1>1, <2>1, <2>3, PubStep
<1> QED BY <1>3, <1>4, <1>5

\* The transaction: unless it was overtaken, what it will commit is its plan.
LEMMA BeginTxSound ==
    ASSUME P!ParamConstants, ParamInv, ParamInv', SoundInv, NEW w \in Publishers, P!BeginTx(w)
    PROVE  SoundInv'
<1> DEFINE r == pub[w]
           ver == P!Latest + 1
           rows == P!Rows(r.add, ver)
           snap == P!Shown(P!EffectiveAt(P!Applied(profiles, r.remove, ver, rows), ver))
           f == [r EXCEPT !.pc = "snap", !.ver = ver, !.add = {}, !.rows = rows, !.snap = snap]
           X == ShownAt(P!Latest)
           T == P!Shown(rows)
<1>1. /\ r.pc = "lock" /\ UNCHANGED <<profiles, releases>>
      /\ \/ pub' = [pub EXCEPT ![w] = P!IdlePub]
         \/ /\ ~\E p \in profiles : p.id \in r.remove /\ p.removed # 0
            /\ nextId' = nextId + P!Cardinality(rows)
            /\ pub' = [pub EXCEPT ![w] = f]
  BY DEF P!BeginTx, P!Pub, P!At
<1>2. /\ P!Latest \in Nat /\ nextId \in Nat /\ Library(profiles, P!Latest, nextId) /\ DiffMaxCount \in Nat
      /\ r \in PubRec /\ IsFiniteSet(r.add) /\ r.add \subseteq PlanRow /\ PlanFollows(r)
  BY ReleaseFacts DEF ParamInv, PlansOK, PubRec, SoundInv, P!ParamConstants
<1>3. CASE pub' = [pub EXCEPT ![w] = P!IdlePub]
  BY <1>1, <1>2, <1>3, IdleFollows, PubStep
<1>4. CASE /\ ~\E p \in profiles : p.id \in r.remove /\ p.removed # 0
           /\ nextId' = nextId + P!Cardinality(rows)
           /\ pub' = [pub EXCEPT ![w] = f]
  <2>1. Alike(T, r.add)
    BY <1>2, RowsAlike
  <2>2. /\ rows \subseteq Profile /\ IsFiniteSet(rows) /\ Cardinality(rows) = Cardinality(r.add)
        /\ \A q \in rows : q.added = ver /\ q.removed = 0 /\ nextId <= q.id /\ q.id < nextId + Cardinality(r.add)
        /\ \A q, t \in rows : q.id = t.id => q = t
    BY <1>2, RowsNumbered
  <2>3. NewRows(rows, profiles, ver, nextId + Cardinality(r.add))
    <3>1. \A q \in rows, p \in profiles : q.id # p.id
      <4> SUFFICES ASSUME NEW q \in rows, NEW p \in profiles, q.id = p.id PROVE FALSE
        OBVIOUS
      <4>1. p.id \in Nat /\ p.id < nextId /\ nextId <= q.id
        BY <1>2, <2>2 DEF Library, Profile
      <4> QED BY <1>2, <4>1
    <3> QED BY <2>2, <3>1 DEF NewRows
  <2>4. /\ snap = Keeps(X, r.remove) \cup T
        /\ \A h \in P!Shown(profiles), k \in T : h.id # k.id
    <3>1. \A p \in profiles : p.id \in r.remove => p.removed = 0
      BY <1>4
    <3>2. X = P!Shown(P!EffectiveAt(profiles, P!Latest))
      BY DEF ShownAt, P!Eff
    <3> HIDE DEF rows, X, r
    <3>3. /\ P!Shown(P!EffectiveAt(P!Applied(profiles, r.remove, P!Latest + 1, rows), P!Latest + 1))
                = Keeps(P!Shown(P!EffectiveAt(profiles, P!Latest)), r.remove) \cup P!Shown(rows)
          /\ \A h \in P!Shown(profiles), k \in P!Shown(rows) : h.id # k.id
      <4>1. PICK L \in Nat, later \in Nat : L = P!Latest /\ later = nextId + Cardinality(r.add)
        BY <1>2, FS_CardinalityType
      <4>2. Library(profiles, L, nextId) /\ NewRows(rows, profiles, L + 1, later) /\ nextId \in Nat
        BY <1>2, <2>3, <4>1
      <4>3. /\ P!Shown(P!EffectiveAt(P!Applied(profiles, r.remove, L + 1, rows), L + 1))
                  = Keeps(P!Shown(P!EffectiveAt(profiles, L)), r.remove) \cup P!Shown(rows)
            /\ \A h \in P!Shown(profiles), k \in P!Shown(rows) : h.id # k.id
        BY <3>1, <4>2, SnapShows
      <4> QED BY <4>1, <4>3
    <3> QED BY <3>2, <3>3
  <2> HIDE DEF rows, T
  <2>5. /\ f.pc = "snap" /\ f.base = r.base /\ f.to = r.to /\ f.forced = r.forced /\ f.live = r.live
        /\ f.snap = snap
    <3> HIDE DEF snap, ver
    <3> QED BY <1>2 DEF PubRec
  <2> HIDE DEF f, snap
  <2>6. IsFiniteSet(X)
    BY ReleaseFacts
  <2>7. ASSUME r.base = P!Latest, r.to = 0 PROVE Asked(f, X)
    <3>1. Planned(r, X)
      BY <1>1, <1>2, <2>7 DEF PlanFollows
    <3> HIDE DEF r, X
    <3>2. /\ ~r.forced => Cardinality(P!Jumps(X, Keeps(X, r.remove) \cup T)) <= DiffMaxCount
          /\ P!Twice(Keeps(X, r.remove) \cup T) => P!Twice(X)
      BY <1>1, <1>2, <2>1, <2>6, <3>1, PlannedAsked
    <3> QED BY <2>4, <2>5, <3>2 DEF Asked
  <2>8. ASSUME r.base = P!Latest, r.to # 0 PROVE Alike(f.snap, ShownAt(r.to))
    <3> DEFINE Y == ShownAt(r.to)
    <3>1. Restores(r, X, Y)
      BY <1>1, <1>2, <2>8 DEF PlanFollows
    <3>2. (\A h, k \in Y : h.id = k.id => h = k) /\ \A h \in Y, k \in T : h.id # k.id
      <4>1. Y \subseteq P!Shown(profiles)
        BY ReleaseFacts
      <4> QED BY <2>4, <4>1, ReleaseFacts
    <3> HIDE DEF Y, X, r
    <3>3. Alike(Keeps(X, r.remove) \cup T, Y)
      BY <2>1, <3>1, <3>2, RestoredAlike
    <3> QED BY <2>4, <2>5, <3>3 DEF Y
  <2>9. PlanFollows(f)
    BY <1>1, <1>2, <2>5, <2>7, <2>8 DEF PlanFollows
  <2> QED BY <1>1, <1>4, <2>9, PubStep
<1> QED BY <1>1, <1>3, <1>4

\* COMMIT: the other plans are overtaken now.
LEMMA CommitSound ==
    ASSUME P!ParamConstants, ParamInv, SoundInv, NEW w \in Publishers, P!Commit(w)
    PROVE  SoundInv'
<1>0. PICK r \in PubRec, L \in Nat : r = pub[w] /\ L = P!Latest
  BY ReleaseFacts DEF ParamInv, PlansOK
<1>1. pub' = [pub EXCEPT ![w] = P!IdlePub] /\ r.pc = "commit"
  BY <1>0 DEF P!Commit, P!Pub, P!At
<1>2. /\ L \in Nat /\ L = Len(releases) /\ nextId \in Nat /\ Library(profiles, L, nextId)
      /\ releases \in Seq(ReleaseRec) /\ r \in PubRec /\ PlanFollows(r)
  BY <1>0, ReleaseFacts, LatestNat DEF ParamInv, LibraryOK, PlansOK, SoundInv
<1>3. CASE ~r.live
  <2>1. UNCHANGED <<profiles, releases>>
    BY <1>0, <1>3 DEF P!Commit
  <2> QED BY <1>0, <1>1, <2>1, IdleFollows, PubStep
<1>4. CASE r.live
  <2>1. /\ r.ver = L + 1 /\ NewRows(r.rows, profiles, L + 1, nextId)
        /\ \A p \in profiles : p.id \in r.remove => p.removed = 0
        /\ r.snap = P!Shown(P!EffectiveAt(P!Applied(profiles, r.remove, L + 1, r.rows), L + 1))
    BY <1>0, <1>1, <1>4 DEF ParamInv, TxSound, P!Holds
  <2>2. profiles' = P!Applied(profiles, r.remove, L + 1, r.rows) /\ releases' = Append(releases, P!Release(w))
    BY <1>0, <1>4, <2>1 DEF P!Commit
  <2>3. /\ P!Latest' = L + 1
        /\ \A v \in 1 .. L : releases'[v] = releases[v]
        /\ releases'[L + 1].base = r.base /\ releases'[L + 1].to = r.to /\ releases'[L + 1].forced = r.forced
    <3>1. releases' \in Seq({P!Release(w)} \cup ReleaseRec) /\ Len(releases') = L + 1
      BY <1>2, <2>2
    <3>2. releases'[L + 1] = P!Release(w) /\ \A v \in 1 .. L : releases'[v] = releases[v]
      BY <1>2, <2>2
    <3> QED BY <1>0, <3>1, <3>2 DEF P!Latest, P!Release
  <2>4. ShownAt(L + 1)' = r.snap /\ \A v \in 0 .. L : ShownAt(v)' = ShownAt(v)
    <3>1. \A v : ShownAt(v)' = P!Shown(P!EffectiveAt(profiles', v)) /\ ShownAt(v) = P!Shown(P!EffectiveAt(profiles, v))
      BY DEF ShownAt, P!Eff
    <3>2. ASSUME NEW v \in 0 .. L PROVE P!Shown(P!EffectiveAt(profiles', v)) = P!Shown(P!EffectiveAt(profiles, v))
      BY <1>2, <2>1, <2>2, ShownStays
    <3>3. ShownAt(L + 1)' = r.snap
      BY <2>1, <2>2, <3>1
    <3> QED BY <3>1, <3>2, <3>3
  <2>5. /\ \A v \in 1 .. L : P!Fresh(v)' <=> P!Fresh(v)
        /\ P!Fresh(L + 1)' <=> r.base = L
    BY <1>2, <2>3 DEF P!Fresh
  <2>6. r.base <= L /\ r.to <= r.base /\ r.base \in Nat /\ r.to \in Nat
    BY <1>0, <1>1, <1>2 DEF PlanFollows, PubRec
  <2>7. /\ r.base = L /\ r.to = 0 => Asked(r, ShownAt(L))
        /\ r.base = L /\ r.to # 0 => Alike(r.snap, ShownAt(r.to))
    BY <1>0, <1>1, <1>2, <1>4 DEF PlanFollows
  <2> DEFINE Sound(v) ==
        /\ releases[v].to < v
        /\ P!Fresh(v) /\ releases[v].to # 0 => Alike(ShownAt(v), ShownAt(releases[v].to))
        /\ P!Fresh(v) /\ releases[v].to = 0 /\ ~releases[v].forced =>
             Cardinality(P!Jumps(ShownAt(v - 1), ShownAt(v))) <= DiffMaxCount
        /\ P!Twice(ShownAt(v)) => \E u \in 1 .. v : ~P!Fresh(u)
  <2>8. \A v \in 1 .. L : Sound(v)
    BY <1>0 DEF SoundInv, ReleasesFollow
  <2>9. ASSUME NEW v \in 1 .. L PROVE Sound(v)'
    <3>1. PICK t \in 0 .. L : releases[v].to = t /\ t < v
      <4>1. releases[v].to \in Nat /\ releases[v].to < v
        <5>1. releases[v] \in ReleaseRec
          BY <1>2
        <5> QED BY <2>8, <5>1 DEF ReleaseRec
      <4> QED BY <1>2, <4>1
    <3>2. releases'[v] = releases[v] /\ releases'[v].to = t
      BY <2>3, <3>1
    <3>3. ShownAt(v)' = ShownAt(v) /\ ShownAt(v - 1)' = ShownAt(v - 1) /\ ShownAt(t)' = ShownAt(t)
      <4>1. v \in 0 .. L /\ v - 1 \in 0 .. L
        BY <1>2
      <4> QED BY <2>4, <3>1, <4>1
    <3>4. P!Fresh(v)' <=> P!Fresh(v)
      BY <2>5
    <3>5. (\E u \in 1 .. v : ~P!Fresh(u)) => (\E u \in 1 .. v : ~P!Fresh(u))'
      <4>1. \A u \in 1 .. v : u \in 1 .. L
        BY <1>2
      <4> QED BY <2>5, <4>1
    <3>6. P!Fresh(v) /\ t # 0 => Alike(ShownAt(v), ShownAt(t))
      BY <2>8, <3>1
    <3>7. (P!Fresh(v) /\ releases[v].to # 0 => Alike(ShownAt(v), ShownAt(releases[v].to)))'
      BY <3>2, <3>3, <3>4, <3>6
    <3>8. (P!Fresh(v) /\ releases[v].to = 0 /\ ~releases[v].forced =>
             Cardinality(P!Jumps(ShownAt(v - 1), ShownAt(v))) <= DiffMaxCount)'
      BY <2>8, <3>2, <3>3, <3>4
    <3>9. (P!Twice(ShownAt(v)) => \E u \in 1 .. v : ~P!Fresh(u))'
      BY <2>8, <3>3, <3>5
    <3> QED BY <3>1, <3>2, <3>7, <3>8, <3>9
  <2>10. Sound(L + 1)'
    <3> DEFINE new == L + 1
    <3>1. new - 1 = L /\ ShownAt(new)' = r.snap /\ ShownAt(L)' = ShownAt(L) /\ ShownAt(r.to)' = ShownAt(r.to)
      BY <1>2, <2>4, <2>6
    <3>2. releases'[new].to = r.to /\ releases'[new].forced = r.forced /\ r.to < new /\ (P!Fresh(new)' <=> r.base = L)
      BY <1>2, <2>3, <2>5, <2>6
    <3>3. ASSUME P!Twice(r.snap) PROVE \E u \in 1 .. new : ~P!Fresh(u)'
      <4>1. CASE r.base # L
        <5>1. new \in 1 .. new
          BY <1>2
        <5> QED BY <3>2, <4>1, <5>1
      <4>2. ASSUME NEW v \in 0 .. L, P!Twice(ShownAt(v)) PROVE \E u \in 1 .. new : ~P!Fresh(u)'
        <5>1. v # 0
          <6>1. \A p \in profiles : 1 <= p.added /\ p.added \in Nat
            BY <1>2 DEF Library, Profile
          <6>2. \A p \in profiles : ~(p.added <= 0)
            BY <6>1
          <6>3. P!Eff(0) = {}
            BY <6>2 DEF P!Eff, P!EffectiveAt, P!IsEffective
          <6>4. ShownAt(0) = {}
            BY <6>3 DEF ShownAt, P!Shown
          <6> QED BY <4>2, <6>4 DEF P!Twice
        <5>2. v \in 1 .. L
          BY <1>2, <5>1
        <5>3. PICK u \in 1 .. v : ~P!Fresh(u)
          BY <2>8, <4>2, <5>2
        <5>4. u \in 1 .. L /\ u \in 1 .. new
          BY <1>2, <5>2, <5>3
        <5> QED BY <2>5, <5>3, <5>4
      <4>3. CASE r.base = L /\ r.to = 0
        <5>1. P!Twice(ShownAt(L)) /\ L \in 0 .. L
          BY <1>2, <2>7, <3>3, <4>3 DEF Asked
        <5> QED BY <4>2, <5>1
      <4>4. CASE r.base = L /\ r.to # 0
        <5>1. P!Twice(ShownAt(r.to))
          <6>1. IsFiniteSet(ShownAt(r.to)) /\ Alike(r.snap, ShownAt(r.to))
            BY <2>7, <4>4, ReleaseFacts
          <6> QED BY <3>3, <6>1, AlikeSame
        <5>2. r.to \in 0 .. L
          BY <1>2, <2>6
        <5> QED BY <4>2, <5>1, <5>2
      <4> QED BY <4>1, <4>3, <4>4
    <3> HIDE DEF new
    <3>4. P!Fresh(new)' /\ releases'[new].to # 0 => Alike(r.snap, ShownAt(r.to))
      BY <2>7, <3>2
    <3>5. P!Fresh(new)' /\ releases'[new].to = 0 /\ ~releases'[new].forced =>
            Cardinality(P!Jumps(ShownAt(L), r.snap)) <= DiffMaxCount
      BY <2>7, <3>2 DEF Asked
    <3>6. ShownAt(r.to)' = ShownAt(r.to) /\ ShownAt(new - 1)' = ShownAt(L)
      BY <3>1
    <3>7. (P!Fresh(new) /\ releases[new].to # 0 => Alike(ShownAt(new), ShownAt(releases[new].to)))'
      BY <3>1, <3>2, <3>4, <3>6
    <3>8. (P!Fresh(new) /\ releases[new].to = 0 /\ ~releases[new].forced =>
             Cardinality(P!Jumps(ShownAt(new - 1), ShownAt(new))) <= DiffMaxCount)'
      BY <3>1, <3>2, <3>5, <3>6
    <3>9. (P!Twice(ShownAt(new)) => \E u \in 1 .. new : ~P!Fresh(u))'
      BY <3>1, <3>3
    <3> QED BY <3>2, <3>7, <3>8, <3>9 DEF new
  <2>11. ReleasesFollow'
    <3> HIDE DEF Sound
    <3>1. \A v \in 1 .. P!Latest' : Sound(v)'
      <4>1. \A v \in 1 .. L + 1 : v \in 1 .. L \/ v = L + 1
        BY <1>2
      <4> QED BY <2>3, <2>9, <2>10, <4>1
    <3> QED BY <3>1 DEF ReleasesFollow, Sound
  <2>12. ASSUME NEW v \in Publishers PROVE PlanFollows(pub[v])'
    <3>1. CASE v = w
      <4>1. pub'[v] = P!IdlePub
        BY <1>1, <3>1 DEF ParamInv, PlansOK
      <4> QED BY <1>2, <2>3, <4>1 DEF PlanFollows, P!IdlePub
    <3>2. CASE v # w
      <4>1. pub'[v] = pub[v] /\ pub[v] \in PubRec /\ PlanFollows(pub[v])
        BY <1>1, <3>2 DEF ParamInv, PlansOK, SoundInv
      <4>2. pub[v].base \in Nat /\ pub[v].to \in Nat
        BY <4>1 DEF PubRec
      <4>3. /\ pub[v].pc # "idle" => pub[v].base <= P!Latest' /\ pub[v].base # P!Latest' /\ pub[v].to <= pub[v].base
            /\ pub[v].pc = "plan" => pub[v].to # 0
            /\ pub[v].pc = "recos" => pub[v].to = 0
        BY <1>0, <1>2, <2>3, <4>1, <4>2 DEF PlanFollows
      <4> QED BY <4>1, <4>3 DEF PlanFollows
    <3> QED BY <3>1, <3>2
  <2> QED BY <2>11, <2>12 DEF SoundInv
<1> QED BY <1>3, <1>4

LEMMA SoundNext == P!ParamConstants /\ ParamInv /\ ParamInv' /\ SoundInv /\ [P!Next]_P!vars => SoundInv'
<1> SUFFICES ASSUME P!ParamConstants, ParamInv, ParamInv', SoundInv, [P!Next]_P!vars PROVE SoundInv'
  OBVIOUS
<1>1. ASSUME NEW w \in Publishers, P!Publish(w) \/ P!Rollback(w) \/ P!Publisher(w) \/ P!LoseSession(w) \/ P!Fails(w)
      PROVE  SoundInv'
  BY <1>1, PublishSound, RollbackSound, MergeRecosSound, BeginTxSound, CommitSound, PubFailsSound
  DEF P!Publisher
<1>2. CASE \/ \E r \in Recommendations : P!RecoMoves(r)
           \/ P!Sync \/ P!SwitchBucket
           \/ UNCHANGED P!vars
  <2>1. UNCHANGED <<profiles, releases, pub>>
    BY <1>2 DEF P!RecoMoves, P!Sync, P!SyncLatest, P!SyncDelta, P!SyncApply, P!SyncFetch, P!SwitchBucket, P!Client,
                P!library, P!vars
  <2>2. P!Latest' = P!Latest /\ \A v : ShownAt(v)' = ShownAt(v)
    BY <2>1 DEF P!Latest, ShownAt, P!Eff
  <2>3. \A v : P!Fresh(v)' = P!Fresh(v)
    BY <2>1 DEF P!Fresh
  <2>4. ReleasesFollow'
    BY <2>1, <2>2, <2>3 DEF SoundInv, ReleasesFollow
  <2>5. \A w \in Publishers : PlanFollows(pub[w])'
    BY <2>1, <2>2 DEF SoundInv, PlanFollows
  <2> QED BY <2>4, <2>5 DEF SoundInv
<1> QED BY <1>1, <1>2 DEF P!Next

\* What follows for the releases themselves
LEMMA SoundReleases ==
    ASSUME ParamInv, SoundInv
    PROVE  ReleaseSound
<1> SUFFICES ASSUME NEW v \in 1 .. P!Latest
             PROVE  /\ P!Fresh(v) /\ releases[v].to # 0 =>
                         /\ P!Content(P!Eff(v)) = P!Content(P!Eff(releases[v].to))
                         /\ P!Cardinality(P!Eff(v)) = P!Cardinality(P!Eff(releases[v].to))
                    /\ P!Fresh(v) /\ releases[v].to = 0 /\ ~releases[v].forced =>
                         P!Cardinality(P!Jumps(P!Eff(v - 1), P!Eff(v))) <= DiffMaxCount
                    /\ P!Twice(P!Eff(v)) => \E u \in 1 .. v : ~P!Fresh(u)
  BY DEF ReleaseSound, P!ReleaseSound
<1>1. \A u, t :
        /\ IsFiniteSet(ShownAt(u)) /\ Cardinality(ShownAt(u)) = Cardinality(P!Eff(u))
        /\ P!Content(ShownAt(u)) = P!Content(P!Eff(u))
        /\ P!Twice(ShownAt(u)) <=> P!Twice(P!Eff(u))
        /\ Cardinality(P!Jumps(ShownAt(t), ShownAt(u))) = Cardinality(P!Jumps(P!Eff(t), P!Eff(u)))
  <2>1. P!Latest \in Nat /\ nextId \in Nat /\ Library(profiles, P!Latest, nextId) /\ \A u : P!Eff(u) \subseteq profiles
    BY ReleaseFacts
  <2> QED BY <2>1, ShownSame DEF ShownAt
<1>2. ASSUME P!Fresh(v), releases[v].to # 0
      PROVE  /\ P!Content(P!Eff(v)) = P!Content(P!Eff(releases[v].to))
             /\ P!Cardinality(P!Eff(v)) = P!Cardinality(P!Eff(releases[v].to))
  <2> DEFINE to == releases[v].to
  <2>1. Alike(ShownAt(v), ShownAt(to)) /\ IsFiniteSet(ShownAt(to))
    BY <1>1, <1>2 DEF SoundInv, ReleasesFollow
  <2> HIDE DEF to
  <2>2. P!Content(ShownAt(v)) = P!Content(ShownAt(to)) /\ Cardinality(ShownAt(v)) = Cardinality(ShownAt(to))
    BY <2>1, AlikeSame
  <2>3. P!Cardinality(P!Eff(v)) = Cardinality(P!Eff(v)) /\ P!Cardinality(P!Eff(to)) = Cardinality(P!Eff(to))
    BY SameParamCardinality
  <2>4. P!Content(P!Eff(v)) = P!Content(P!Eff(to)) /\ P!Cardinality(P!Eff(v)) = P!Cardinality(P!Eff(to))
    BY <1>1, <2>2, <2>3
  <2> QED BY <2>4 DEF to
<1>3. ASSUME P!Fresh(v), releases[v].to = 0, ~releases[v].forced
      PROVE  P!Cardinality(P!Jumps(P!Eff(v - 1), P!Eff(v))) <= DiffMaxCount
  <2>1. Cardinality(P!Jumps(ShownAt(v - 1), ShownAt(v))) <= DiffMaxCount
    BY <1>3 DEF SoundInv, ReleasesFollow
  <2> QED BY <1>1, <2>1, SameParamCardinality
<1>4. P!Twice(P!Eff(v)) => \E u \in 1 .. v : ~P!Fresh(u)
  BY <1>1 DEF SoundInv, ReleasesFollow
<1> QED BY <1>2, <1>3, <1>4

\* Unless another release came between an operator's reads and the transaction,
\* a roll-back restores its target, no more than DiffMaxCount official powers
\* jump without force, and no recommendation is in the library twice (Publish,
\* Rollback, Store.Publish).
THEOREM ReleasesAreAsked == P!Spec => []ReleaseSound
<1>1. P!Init => SoundInv
  <2> SUFFICES ASSUME P!Init PROVE SoundInv
    OBVIOUS
  <2>1. P!Latest = 0 /\ \A w \in Publishers : pub[w] = P!IdlePub
    BY DEF P!Init, P!Latest
  <2> QED BY <2>1, IdleFollows DEF SoundInv, ReleasesFollow
<1>2. ParamInv /\ ParamInv' /\ SoundInv /\ [P!Next]_P!vars => SoundInv'
  BY SoundNext, ServiceConstants
<1>3. ParamInv /\ SoundInv => ReleaseSound
  BY SoundReleases
<1> QED BY <1>1, <1>2, <1>3, ParamInvariant, PTL DEF P!Spec
-----------------------------------------------------------------------------
(* Health. Rounds of several replicas may overlap on a device; what a      *)
(* round has read of it is then old, and dirty says so. A round that is    *)
(* not dirty on a device still goes on from what is stored.                *)

Times == 0 .. MaxNow + 1
Explains(e) == {"levels", "life"} \subseteq DOMAIN e /\ e.life \in Nat

RoundOK(f) ==
    /\ DOMAIN f = DOMAIN H!Idle
    /\ f.pc \in {"idle", "row", "score", "decide", "write", "insert"}
    /\ f.at \in Times /\ f.todo \subseteq H!Devices
    /\ \E S : f.writes \in Seq(S)
    /\ f.pc \in {"decide", "write", "insert"} => f.writes # <<>>
    /\ f.pc \in {"row", "score"} => f.todo # {}
    /\ \A i \in 1 .. Len(f.writes) :
         /\ f.writes[i].d \in H!Devices \ f.todo /\ Explains(f.writes[i].explain)
         /\ \A j \in 1 .. Len(f.writes) : f.writes[i].d = f.writes[j].d => i = j
    /\ f.pc \in {"write", "insert"} /\ f.dec.action = "send" =>
         f.dec.level \notin f.writes[1].explain.levels

\* What a round will store of a device goes on from what is stored.
Follows(new, old) == \/ new.life = old.life /\ new.levels = old.levels
                     \/ new.life = old.life + 1 /\ new.levels = {}
FreshWrites(f) ==
    \A i \in 1 .. Len(f.writes) :
        f.writes[i].d \notin f.dirty /\ (f.pc = "insert" => i # 1) =>
            Follows(f.writes[i].explain, explain[f.writes[i].d])

\* A round about to remind was, unless dirty, past the cooldown.
Cooled(f) ==
    f.pc \in {"write", "insert"} /\ f.dec.action = "send" /\ f.writes[1].d \notin f.dirty =>
        \A i \in H!Sent(f.writes[1].d) : f.at - reminders[i].at >= Cooldown

\* A level that was sent for the module of this life is remembered.
Told(e, n, level) == n < e.life \/ (n = e.life /\ level \in e.levels)
SentIsTold ==
    \A d \in H!Devices \ rewound : \A i \in H!Sent(d) :
        Told(explain[d], reminders[i].life, reminders[i].level)

\* Between WriteHealth and InsertReminder the level is remembered and not yet
\* sent.
Announced(f) ==
    f.pc = "insert" /\ f.dec.action = "send" /\ f.writes[1].d \notin rewound =>
        /\ Told(explain[f.writes[1].d], f.writes[1].explain.life, f.dec.level)
        /\ f.writes[1].d \notin f.dirty =>
             \A i \in H!Sent(f.writes[1].d) :
                ~(reminders[i].life = f.writes[1].explain.life /\ reminders[i].level = f.dec.level)

RoundKeeps(f) == RoundOK(f) /\ FreshWrites(f) /\ Cooled(f) /\ Announced(f)

HealthShapes ==
    /\ now \in Times /\ DOMAIN rnd = Replicas
    /\ DOMAIN explain = H!Devices /\ \A d \in H!Devices : Explains(explain[d])
    /\ \E S : reminders \in Seq(S)
    /\ \A i \in 1 .. Len(reminders) :
         reminders[i].d \in H!Devices /\ reminders[i].at \in Times /\ reminders[i].life \in Nat
HealthInv ==
    /\ HealthShapes /\ (\A r \in Replicas : RoundKeeps(rnd[r]))
    /\ SentIsTold /\ H!DuplicateNeedsOverlap

\* The instances have their own names for Max.
LEMMA SameMax == ASSUME NEW S PROVE H!Max(S) = P!Max(S)
BY Zenon DEF H!Max, P!Max

\* And a least one.
LEMMA Least ==
    ASSUME NEW N \in Nat, NEW S, S \subseteq 0 .. N, S # {}
    PROVE  H!Min(S) \in S
<1> DEFINE T == {N - x : x \in S}
           m == P!Max(T)
<1>1. T \subseteq 0 .. N /\ T # {}
  <2>1. \A x \in S : x \in Int /\ N - x \in 0 .. N
    <3> TAKE x \in S
    <3>1. x \in 0 .. N
      OBVIOUS
    <3> QED BY <3>1
  <2> QED BY <2>1
<1>2. m \in T /\ \A y \in T : m >= y
  BY <1>1, Greatest
<1> HIDE DEF m
<1>3. PICK x \in S : m = N - x
  BY <1>2
<1>4. \A y \in S : x <= y
  <2> SUFFICES ASSUME NEW y \in S PROVE x <= y
    OBVIOUS
  <2>1. m >= N - y
    BY <1>2
  <2>2. x \in 0 .. N /\ y \in 0 .. N
    OBVIOUS
  <2> QED BY <1>3, <2>1, <2>2
<1> QED BY <1>4 DEF H!Min
LEMMA HealthNumbers ==
    ASSUME H!HealthConstants
    PROVE  Cooldown \in Nat /\ MaxNow \in Nat /\ NumDevices \in Nat
BY DEF H!HealthConstants

LEMMA IdleKeeps == ASSUME H!HealthConstants PROVE RoundKeeps(H!Idle)
<1>1. H!Idle.writes = <<>> /\ H!Idle.pc = "idle" /\ H!Idle.at = 0 /\ H!Idle.todo = {}
  BY DEF H!Idle
<1>2. 0 \in Times /\ Len(H!Idle.writes) = 0 /\ H!Idle.writes \in Seq({})
  BY <1>1, HealthNumbers DEF Times
<1> QED BY <1>1, <1>2 DEF RoundKeeps, RoundOK, FreshWrites, Cooled, Announced

LEMMA HealthInit == ASSUME H!HealthConstants, H!Init PROVE HealthInv
<1>1. HealthShapes
  <2>1. \A d \in H!Devices : explain[d] = H!NoExplain
    BY DEF H!Init
  <2>2. Explains(H!NoExplain)
    BY DEF H!NoExplain, Explains
  <2>3. reminders \in Seq({}) /\ Len(reminders) = 0
    BY DEF H!Init
  <2>4. now \in Times
    BY HealthNumbers DEF H!Init, Times
  <2> QED BY <2>1, <2>2, <2>3, <2>4 DEF H!Init, HealthShapes
<1>2. \A r \in Replicas : RoundKeeps(rnd[r])
  BY IdleKeeps DEF H!Init
<1>3. DOMAIN reminders = {}
  BY DEF H!Init
<1>4. SentIsTold /\ H!DuplicateNeedsOverlap
  BY <1>3 DEF SentIsTold, H!Sent, H!DuplicateNeedsOverlap, H!CooldownViolations
<1> QED BY <1>1, <1>2, <1>4 DEF HealthInv

\* Steps of one round that store nothing.
LEMMA RoundOnlyInv ==
    ASSUME HealthInv, NEW r \in Replicas, NEW f, rnd' = [rnd EXCEPT ![r] = f], RoundKeeps(f),
           now' \in Times, UNCHANGED <<explain, reminders, rewound>>
    PROVE  HealthInv'
<1>1. DOMAIN rnd' = Replicas /\ \A q \in Replicas : rnd'[q] = IF q = r THEN f ELSE rnd[q]
  BY DEF HealthInv, HealthShapes
<1>2. \A q \in Replicas : RoundKeeps(rnd'[q])
  BY <1>1 DEF HealthInv
<1>3. ASSUME NEW q \in Replicas PROVE RoundKeeps(rnd[q])'
  <2>1. RoundKeeps(rnd'[q])
    BY <1>2
  <2>2. RoundOK(rnd[q])'
    BY <2>1 DEF RoundKeeps, RoundOK
  <2>3. FreshWrites(rnd[q])'
    BY <2>1 DEF RoundKeeps, FreshWrites
  <2>4. Cooled(rnd[q])'
    BY <2>1 DEF RoundKeeps, Cooled, H!Sent
  <2>5. Announced(rnd[q])'
    BY <2>1 DEF RoundKeeps, Announced, Told, H!Sent
  <2> QED BY <2>2, <2>3, <2>4, <2>5 DEF RoundKeeps
<1>4. HealthShapes'
  BY <1>1 DEF HealthInv, HealthShapes
<1>5. SentIsTold' /\ H!DuplicateNeedsOverlap'
  BY DEF HealthInv, SentIsTold, Told, H!Sent, H!DuplicateNeedsOverlap, H!CooldownViolations
<1> QED BY <1>3, <1>4, <1>5 DEF HealthInv
LEMMA Tails ==
    ASSUME NEW S, NEW s \in Seq(S), s # <<>>, Len(s) # 1
    PROVE  /\ Tail(s) \in Seq(S) /\ Len(Tail(s)) = Len(s) - 1 /\ Tail(s) # <<>>
           /\ \A i \in 1 .. Len(Tail(s)) : i + 1 \in 2 .. Len(s) /\ Tail(s)[i] = s[i + 1]
<1>1. Len(s) \in Nat /\ Len(s) > 1
  BY EmptySeq
<1>2. Tail(s) \in Seq(S) /\ Len(Tail(s)) = Len(s) - 1
  BY HeadTailProperties
<1>3. Tail(s) # <<>>
  BY <1>1, <1>2
<1>4. \A i \in 1 .. Len(Tail(s)) : i + 1 \in 2 .. Len(s)
  BY <1>1, <1>2
<1>5. \A i \in 1 .. Len(Tail(s)) : Tail(s)[i] = s[i + 1]
  BY HeadTailProperties
<1> QED BY <1>2, <1>3, <1>4, <1>5

\* The rest of a round after its first device
LEMMA ThenKeeps ==
    ASSUME H!HealthConstants, NEW r \in Replicas, RoundKeeps(rnd[r]), rnd[r].writes # <<>>,
           \A i \in 2 .. Len(rnd[r].writes) :
             rnd[r].writes[i].d \notin rnd[r].dirty =>
                Follows(rnd[r].writes[i].explain, explain[rnd[r].writes[i].d])
    PROVE  /\ RoundKeeps(H!Then(r)) /\ H!Then(r).pc \in {"idle", "decide"}
           /\ H!Then(r).dirty = rnd[r].dirty \/ H!Then(r).writes = <<>>
           /\ \A i \in 1 .. Len(H!Then(r).writes) :
                /\ i + 1 \in 2 .. Len(rnd[r].writes)
                /\ H!Then(r).writes[i] = rnd[r].writes[i + 1]
<1> DEFINE w == rnd[r].writes
           t == Tail(w)
           f == [rnd[r] EXCEPT !.pc = "decide", !.writes = t, !.dec = H!Idle.dec]
<1>1. PICK S : w \in Seq(S)
  BY DEF RoundKeeps, RoundOK
<1>2. Len(w) \in Nat /\ Len(w) > 0
  BY <1>1, EmptySeq
<1>3. CASE Len(w) = 1
  <2>1. H!Then(r) = H!Idle /\ H!Idle.writes = <<>> /\ H!Idle.pc = "idle" /\ Len(H!Idle.writes) = 0
    BY <1>3 DEF H!Then, H!Idle
  <2> QED BY <2>1, IdleKeeps
<1>4. CASE Len(w) # 1
  <2>1. /\ t \in Seq(S) /\ Len(t) = Len(w) - 1 /\ t # <<>>
        /\ \A i \in 1 .. Len(t) : i + 1 \in 2 .. Len(w) /\ t[i] = w[i + 1]
    <3> HIDE DEF w
    <3> QED BY <1>1, <1>2, <1>4, Tails
  <2>2. H!Then(r) = f
    BY <1>4 DEF H!Then
  <2> HIDE DEF w, t
  <2>3. /\ f.pc = "decide" /\ f.writes = t /\ DOMAIN f = DOMAIN rnd[r] /\ f.at = rnd[r].at
        /\ f.todo = rnd[r].todo /\ f.dirty = rnd[r].dirty /\ f.dec = H!Idle.dec
    BY DEF RoundKeeps, RoundOK, H!Idle
  <2> HIDE DEF f
  <2>4. /\ DOMAIN rnd[r] = DOMAIN H!Idle /\ rnd[r].at \in Times /\ rnd[r].todo \subseteq H!Devices
        /\ \A i \in 1 .. Len(w) :
             /\ w[i].d \in H!Devices \ rnd[r].todo /\ Explains(w[i].explain)
             /\ \A j \in 1 .. Len(w) : w[i].d = w[j].d => i = j
    BY DEF RoundKeeps, RoundOK, w
  <2>5. \A i \in 1 .. Len(t) :
          /\ t[i].d \in H!Devices \ rnd[r].todo /\ Explains(t[i].explain)
          /\ \A j \in 1 .. Len(t) : t[i].d = t[j].d => i = j
    <3> TAKE i \in 1 .. Len(t)
    <3>1. i + 1 \in 1 .. Len(w) /\ t[i] = w[i + 1]
      BY <2>1
    <3>2. ASSUME NEW j \in 1 .. Len(t), t[i].d = t[j].d PROVE i = j
      <4>1. j + 1 \in 1 .. Len(w) /\ t[j] = w[j + 1]
        BY <2>1
      <4>2. i + 1 = j + 1
        BY <2>4, <3>1, <3>2, <4>1
      <4> QED BY <4>2
    <3> QED BY <2>4, <3>1, <3>2
  <2>6. RoundOK(f)
    BY <2>1, <2>3, <2>4, <2>5 DEF RoundOK
  <2>7. FreshWrites(f)
    <3> SUFFICES ASSUME NEW i \in 1 .. Len(t), t[i].d \notin rnd[r].dirty
                 PROVE  Follows(t[i].explain, explain[t[i].d])
      BY <2>3 DEF FreshWrites
    <3>1. i + 1 \in 2 .. Len(w) /\ t[i] = w[i + 1]
      BY <2>1
    <3> QED BY <3>1 DEF w
  <2>8. Cooled(f) /\ Announced(f)
    BY <2>3 DEF Cooled, Announced
  <2>9. RoundKeeps(f)
    BY <2>6, <2>7, <2>8 DEF RoundKeeps
  <2> QED BY <2>1, <2>2, <2>3, <2>9 DEF w
<1> QED BY <1>3, <1>4

LEMMA RoundStartInv ==
    ASSUME H!HealthConstants, HealthInv, NEW r \in Replicas, H!Round(r) \/ H!PartialRound(r)
    PROVE  HealthInv'
<1>1. PICK todo_ \in SUBSET H!Devices :
        /\ todo_ # {}
        /\ rnd' = [rnd EXCEPT ![r] = [H!Idle EXCEPT !.pc = "row", !.at = now, !.seen = tele,
                                                   !.wrk = worked, !.over = over, !.todo = todo_]]
        /\ UNCHANGED <<now, explain, reminders, rewound>>
  <2>1. ASSUME NEW only \in SUBSET H!Devices, H!RoundStart(r, only), UNCHANGED now
        PROVE  \E td \in SUBSET H!Devices :
                  /\ td # {}
                  /\ rnd' = [rnd EXCEPT ![r] = [H!Idle EXCEPT !.pc = "row", !.at = now, !.seen = tele,
                                                   !.wrk = worked, !.over = over, !.todo = td]]
                  /\ UNCHANGED <<now, explain, reminders, rewound>>
    BY <2>1 DEF H!RoundStart, H!Goes, H!tables
  <2>2. CASE H!Round(r)
    BY <2>1, <2>2 DEF H!Round, H!world
  <2>3. CASE H!PartialRound(r)
    BY <2>1, <2>3 DEF H!PartialRound
  <2> QED BY <2>2, <2>3
<1> DEFINE f == [H!Idle EXCEPT !.pc = "row", !.at = now, !.seen = tele, !.wrk = worked, !.over = over,
                              !.todo = todo_]
<1>2. /\ f.pc = "row" /\ f.at = now /\ f.todo = todo_ /\ f.writes = <<>> /\ DOMAIN f = DOMAIN H!Idle
      /\ f.writes \in Seq({}) /\ Len(f.writes) = 0
  BY DEF H!Idle
<1> HIDE DEF f
<1>3. RoundKeeps(f)
  BY <1>1, <1>2 DEF RoundKeeps, RoundOK, FreshWrites, Cooled, Announced, HealthInv, HealthShapes
<1>4. rnd' = [rnd EXCEPT ![r] = f] /\ now' \in Times
  BY <1>1 DEF f, HealthInv, HealthShapes
<1> QED BY <1>1, <1>3, <1>4, RoundOnlyInv

LEMMA ReadRowInv ==
    ASSUME H!HealthConstants, HealthInv, NEW r \in Replicas, H!ReadRow(r)
    PROVE  HealthInv'
<1> DEFINE f == [rnd[r] EXCEPT !.pc = "score", !.row = row[H!Min(rnd[r].todo)]]
<1>1. rnd' = [rnd EXCEPT ![r] = f] /\ rnd[r].pc = "row" /\ UNCHANGED <<now, explain, reminders, rewound>>
  BY DEF H!ReadRow, H!Goes, H!world, H!tables
<1>2. RoundKeeps(rnd[r]) /\ now \in Times
  BY DEF HealthInv, HealthShapes
<1>3. /\ f.pc = "score" /\ f.at = rnd[r].at /\ f.todo = rnd[r].todo /\ f.writes = rnd[r].writes
      /\ DOMAIN f = DOMAIN rnd[r] /\ f.dirty = rnd[r].dirty
  BY <1>2 DEF RoundKeeps, RoundOK, H!Idle
<1> HIDE DEF f
<1>4. RoundKeeps(f)
  BY <1>1, <1>2, <1>3 DEF RoundKeeps, RoundOK, FreshWrites, Cooled, Announced
<1> QED BY <1>1, <1>2, <1>4, RoundOnlyInv
\* What scoreDevice makes of a device goes on from its explanation.
LEMMA UpdateFollows ==
    ASSUME NEW d, NEW prev, NEW e, NEW b, NEW w, NEW ot, NEW sh, Explains(e),
           H!Update(d, prev, e, b, w, ot, sh).kind = "write"
    PROVE  /\ H!Update(d, prev, e, b, w, ot, sh).d = d
           /\ Explains(H!Update(d, prev, e, b, w, ot, sh).explain)
           /\ Follows(H!Update(d, prev, e, b, w, ot, sh).explain, e)
<1> DEFINE u == H!Update(d, prev, e, b, w, ot, sh)
<1>1. u.d = d /\ Explains(u.explain) /\ Follows(u.explain, e)
  <2> DEFINE fresh == H!NewBuckets(e, b)
             model == IF sh.model # "" THEN sh.model ELSE e.model
             read == H!HoursOf(fresh, b)
             swapped == H!DetectSwap(e.model, model,
                            IF e.lastHours = H!Absent THEN read ELSE <<e.lastHours>> \o read)
             chain == IF e.lastHours = H!Absent \/ swapped THEN read ELSE <<e.lastHours>> \o read
             used == (IF swapped THEN 0 ELSE e.used)
                     + H!MapThenSumSet(LAMBDA i : H!Charged(chain[i - 1], chain[i]), 2 .. Len(chain))
             before == IF swapped THEN H!Absent ELSE prev
             health == H!Kept(before, H!Score(used, ot), swapped)
             above == IF before = H!Absent THEN 101 ELSE before
             done == w[H!Max({t \in fresh : b[t] # H!NoHours})]
             since == IF swapped THEN worked[d][e.lastTs] ELSE e.since
             written == [kind |-> "write", d |-> d, swapped |-> swapped, health |-> health, prev |-> above,
                         working |-> sh.working, optout |-> sh.optout,
                         explain |-> [lastTs |-> H!Max(fresh), lastHours |-> read[Len(read)], used |-> used,
                                      model |-> model, levels |-> IF swapped THEN {} ELSE e.levels,
                                      life |-> IF swapped THEN e.life + 1 ELSE e.life, since |-> since,
                                      done |-> done]]
  <2>1. u = CASE fresh = {} -> [kind |-> "unchanged"]
              [] fresh # {} /\ (~sh.ok \/ model = "" \/ read = <<>>) -> [kind |-> "skip"]
              [] OTHER -> written
    BY DEF H!Update
  <2> HIDE DEF u, fresh, model, read, swapped, chain, used, before, health, above, since, done
  <2>2. u = written
    <3>1. u = [kind |-> "unchanged"] \/ u = [kind |-> "skip"] \/ u = written
      BY <2>1
    <3> QED BY <3>1 DEF u
  <2> QED BY <2>2 DEF Explains, Follows
<1> QED BY <1>1

LEMMA ScoreDeviceInv ==
    ASSUME H!HealthConstants, HealthInv, NEW r \in Replicas, H!ScoreDevice(r)
    PROVE  HealthInv'
<1> DEFINE old == rnd[r]
           d == H!Min(old.todo)
           u == H!Update(d, old.row, explain[d], old.seen[d], old.wrk[d], old.over[d], shadow[d])
           w == IF u.kind = "write" THEN Append(old.writes, u) ELSE old.writes
           f == [old EXCEPT !.pc = "row", !.row = H!Absent, !.todo = @ \ {d},
                    !.writes = IF u.kind = "write" THEN Append(@, u) ELSE @,
                    !.skipped = IF u.kind = "skip" THEN @ + 1 ELSE @]
           dropped == f.writes = <<>> \/ H!ShouldFuseBatch(f.skipped, f.skipped + Len(f.writes))
           g == [f EXCEPT !.pc = "decide", !.seen = <<>>, !.wrk = <<>>, !.over = <<>>, !.skipped = 0]
           new == IF f.todo # {} THEN f ELSE IF dropped THEN H!Idle ELSE g
<1>1. rnd' = [rnd EXCEPT ![r] = new] /\ old.pc = "score" /\ UNCHANGED <<now, explain, reminders, rewound>>
  <2>1. H!Goes(r, new)
    BY ZenonT(60) DEF H!ScoreDevice
  <2>2. old.pc = "score" /\ UNCHANGED <<H!world, H!tables, rewound>>
    BY ZenonT(60) DEF H!ScoreDevice
  <2> HIDE DEF old, new
  <2> QED BY <2>1, <2>2 DEF H!Goes, H!world, H!tables
<1>2. RoundKeeps(old) /\ now \in Times
  BY DEF HealthInv, HealthShapes
<1>3. d \in old.todo /\ d \in H!Devices /\ Explains(explain[d])
  <2>1. old.todo \subseteq 0 .. NumDevices /\ old.todo # {}
    <3>1. old.pc = "score" /\ RoundOK(old)
      BY <1>1, <1>2 DEF RoundKeeps
    <3> HIDE DEF old
    <3> QED BY <3>1, HealthNumbers DEF RoundOK, H!Devices
  <2>2. d \in old.todo
    BY <2>1, HealthNumbers, Least
  <2> QED BY <1>2, <2>2 DEF RoundKeeps, RoundOK, HealthInv, HealthShapes
<1> HIDE DEF d, u
<1>4. u.kind = "write" => u.d = d /\ Explains(u.explain) /\ Follows(u.explain, explain[d])
  BY <1>3, UpdateFollows DEF u
<1>5. /\ DOMAIN f = DOMAIN old /\ f.pc = "row" /\ f.at = old.at /\ f.todo = old.todo \ {d}
      /\ f.writes = w /\ f.dirty = old.dirty
      /\ DOMAIN g = DOMAIN old /\ g.pc = "decide" /\ g.at = old.at /\ g.todo = old.todo \ {d}
      /\ g.writes = w /\ g.dirty = old.dirty
  BY <1>2 DEF RoundKeeps, RoundOK, H!Idle
<1> HIDE DEF f, g
<1>6. /\ f.todo = {} => new = H!Idle \/ (new = g /\ w # <<>>)
      /\ f.todo # {} => new = f
  <2> HIDE DEF w
  <2> QED BY <1>5
<1> HIDE DEF dropped
<1>7. /\ \E S : w \in Seq(S)
      /\ \A i \in 1 .. Len(w) :
           /\ w[i].d \in H!Devices \ (old.todo \ {d}) /\ Explains(w[i].explain)
           /\ \A j \in 1 .. Len(w) : w[i].d = w[j].d => i = j
           /\ w[i].d \notin old.dirty => Follows(w[i].explain, explain[w[i].d])
  <2>1. PICK S : old.writes \in Seq(S)
    BY <1>2 DEF RoundKeeps, RoundOK
  <2>2. \A i \in 1 .. Len(old.writes) :
          /\ old.writes[i].d \in H!Devices \ old.todo /\ Explains(old.writes[i].explain)
          /\ \A j \in 1 .. Len(old.writes) : old.writes[i].d = old.writes[j].d => i = j
          /\ old.writes[i].d \notin old.dirty => Follows(old.writes[i].explain, explain[old.writes[i].d])
    BY <1>1, <1>2 DEF RoundKeeps, RoundOK, FreshWrites
  <2>3. CASE u.kind # "write"
    BY <2>1, <2>2, <2>3
  <2>4. CASE u.kind = "write"
    <3>1. w = Append(old.writes, u) /\ Len(old.writes) \in Nat /\ old.writes \in Seq(S \cup {u})
      BY <2>1, <2>4
    <3>2. /\ w \in Seq(S \cup {u}) /\ Len(w) = Len(old.writes) + 1 /\ w[Len(w)] = u
          /\ \A i \in 1 .. Len(old.writes) : w[i] = old.writes[i]
      BY <3>1
    <3> HIDE DEF w
    <3>3. \A i \in 1 .. Len(w) : i \in 1 .. Len(old.writes) \/ i = Len(w)
      BY <3>1, <3>2
    <3>4. \A i \in 1 .. Len(old.writes) : w[i].d # d
      BY <1>3, <2>2, <3>2
    <3> QED BY <1>3, <1>4, <2>2, <2>4, <3>2, <3>3, <3>4
  <2> QED BY <2>3, <2>4
<1> HIDE DEF w
<1>8. RoundKeeps(new)
  <2>1. CASE new = H!Idle
    BY <2>1, IdleKeeps
  <2>2. CASE f.todo # {}
    BY <1>2, <1>5, <1>6, <1>7, <2>2 DEF RoundKeeps, RoundOK, FreshWrites, Cooled, Announced
  <2>3. CASE f.todo = {} /\ new = g /\ w # <<>>
    BY <1>2, <1>5, <1>6, <1>7, <2>3 DEF RoundKeeps, RoundOK, FreshWrites, Cooled, Announced
  <2> QED BY <1>6, <2>1, <2>2, <2>3
<1> HIDE DEF new
<1> QED BY <1>1, <1>2, <1>8, RoundOnlyInv

\* A reminder that DecideReminder lets through is for a level not yet sent and
\* past the cooldown of all that were sent.
LEMMA DecidedToSend ==
    ASSUME H!HealthConstants, HealthShapes, NEW d \in H!Devices, NEW prev, NEW health, NEW levels,
           NEW u, NEW at \in Times,
           H!DecideReminder(prev, health, levels, H!LastSentAt(d), u, at).action = "send"
    PROVE  /\ H!DecideReminder(prev, health, levels, H!LastSentAt(d), u, at).level \notin levels
           /\ \A i \in H!Sent(d) : at - reminders[i].at >= Cooldown
<1> DEFINE crossed == H!Crossed(prev, health, levels)
           last == H!LastSentAt(d)
           dec == H!DecideReminder(prev, health, levels, last, u, at)
<1>1. /\ crossed # {} /\ dec.level = H!Min(crossed)
      /\ ~(last # H!Absent /\ at - last < Cooldown)
  BY DEF H!DecideReminder
<1>2. crossed \subseteq 0 .. 80 /\ crossed \cap levels = {}
  BY DEF H!Crossed, H!Levels
<1> HIDE DEF crossed
<1>3. H!Min(crossed) \in crossed
  BY <1>1, <1>2, Least
<1>4. ASSUME NEW i \in H!Sent(d) PROVE at - reminders[i].at >= Cooldown
  <2> DEFINE T == {reminders[j].at : j \in H!Sent(d)}
  <2>1. T \subseteq 0 .. MaxNow + 1 /\ T # {} /\ reminders[i].at \in T
    BY DEF HealthShapes, H!Sent, Times
  <2>2. last = P!Max(T)
    BY <1>4, SameMax DEF H!LastSentAt
  <2> HIDE DEF T
  <2>3. P!Max(T) \in T /\ \A y \in T : P!Max(T) >= y
    <3>1. MaxNow + 1 \in Nat
      BY HealthNumbers
    <3> QED BY <2>1, <3>1, Greatest
  <2>4. last \in Nat /\ last >= reminders[i].at /\ reminders[i].at \in Nat /\ at \in Nat
    <3>1. \A y \in 0 .. MaxNow + 1 : y \in Nat
      BY HealthNumbers
    <3>2. P!Max(T) \in Nat /\ reminders[i].at \in Nat /\ at \in Nat
      BY <2>1, <2>3, <3>1 DEF Times
    <3>3. P!Max(T) >= reminders[i].at
      BY <2>1, <2>3
    <3> QED BY <2>2, <3>2, <3>3
  <2> HIDE DEF last
  <2> QED BY <1>1, <2>4, HealthNumbers DEF H!Absent
<1> QED BY <1>1, <1>2, <1>3, <1>4

LEMMA CommitDecideInv ==
    ASSUME H!HealthConstants, HealthInv, NEW r \in Replicas, H!CommitDecide(r)
    PROVE  HealthInv'
<1> DEFINE u == Head(rnd[r].writes)
           dec == H!DecideReminder(u.prev, u.health, u.explain.levels, H!LastSentAt(u.d), u, rnd[r].at)
           f == [rnd[r] EXCEPT !.pc = "write", !.dec = dec]
<1>1. rnd' = [rnd EXCEPT ![r] = f] /\ rnd[r].pc = "decide" /\ UNCHANGED <<now, explain, reminders, rewound>>
  BY DEF H!CommitDecide, H!Goes, H!world, H!tables
<1>2. RoundKeeps(rnd[r]) /\ now \in Times /\ HealthShapes
  BY DEF HealthInv, HealthShapes
<1>3. /\ f.pc = "write" /\ f.at = rnd[r].at /\ f.todo = rnd[r].todo /\ f.writes = rnd[r].writes
      /\ DOMAIN f = DOMAIN rnd[r] /\ f.dirty = rnd[r].dirty /\ f.dec = dec
  BY <1>2 DEF RoundKeeps, RoundOK, H!Idle
<1>4. u = rnd[r].writes[1] /\ rnd[r].writes # <<>> /\ 1 \in 1 .. Len(rnd[r].writes)
  <2>1. PICK S : rnd[r].writes \in Seq(S)
    BY <1>2 DEF RoundKeeps, RoundOK
  <2> QED BY <1>1, <1>2, <2>1, EmptySeq DEF RoundKeeps, RoundOK
<1>5. u.d \in H!Devices /\ rnd[r].at \in Times
  BY <1>2, <1>4 DEF RoundKeeps, RoundOK
<1> HIDE DEF u, f
<1>6. dec.action = "send" => dec.level \notin u.explain.levels
                             /\ \A i \in H!Sent(u.d) : rnd[r].at - reminders[i].at >= Cooldown
  BY <1>2, <1>5, DecidedToSend
<1> HIDE DEF dec
<1>7. RoundKeeps(f)
  BY <1>1, <1>2, <1>3, <1>4, <1>6 DEF RoundKeeps, RoundOK, FreshWrites, Cooled, Announced
<1> QED BY <1>1, <1>2, <1>7, RoundOnlyInv DEF f
\* What a statement on device d does to the rounds of the other replicas
LEMMA OthersTouched ==
    ASSUME HealthInv, NEW r \in Replicas, NEW d, NEW f, H!Touches(r, d, f)
    PROVE  /\ DOMAIN rnd' = Replicas /\ rnd'[r] = f
           /\ \A q \in Replicas \ {r} :
                /\ DOMAIN rnd'[q] = DOMAIN rnd[q] /\ rnd'[q].pc = rnd[q].pc /\ rnd'[q].at = rnd[q].at
                /\ rnd'[q].todo = rnd[q].todo /\ rnd'[q].writes = rnd[q].writes
                /\ rnd'[q].dec = rnd[q].dec /\ rnd[q].dirty \subseteq rnd'[q].dirty
                /\ rnd'[q].seen = rnd[q].seen /\ rnd'[q].wrk = rnd[q].wrk
                /\ \A i \in 1 .. Len(rnd[q].writes) : rnd[q].writes[i].d = d => d \in rnd'[q].dirty
<1>1. rnd' = [q \in Replicas |-> IF q = r THEN f ELSE
                IF H!HasRead(q, d) THEN [rnd[q] EXCEPT !.dirty = @ \cup {d}] ELSE rnd[q]]
  BY DEF H!Touches
<1>2. ASSUME NEW q \in Replicas \ {r}
      PROVE  /\ DOMAIN rnd'[q] = DOMAIN rnd[q] /\ rnd'[q].pc = rnd[q].pc /\ rnd'[q].at = rnd[q].at
             /\ rnd'[q].todo = rnd[q].todo /\ rnd'[q].writes = rnd[q].writes
             /\ rnd'[q].dec = rnd[q].dec /\ rnd[q].dirty \subseteq rnd'[q].dirty
             /\ rnd'[q].seen = rnd[q].seen /\ rnd'[q].wrk = rnd[q].wrk
             /\ \A i \in 1 .. Len(rnd[q].writes) : rnd[q].writes[i].d = d => d \in rnd'[q].dirty
  <2>1. rnd'[q] = IF H!HasRead(q, d) THEN [rnd[q] EXCEPT !.dirty = @ \cup {d}] ELSE rnd[q]
    BY <1>1
  <2>2. DOMAIN rnd[q] = DOMAIN H!Idle
    BY DEF HealthInv, RoundKeeps, RoundOK
  <2>3. PICK S : rnd[q].writes \in Seq(S)
    BY DEF HealthInv, RoundKeeps, RoundOK
  <2>4. DOMAIN rnd[q].writes = 1 .. Len(rnd[q].writes)
    BY <2>3
  <2>5. CASE H!HasRead(q, d)
    BY <2>1, <2>2, <2>5 DEF H!Idle
  <2>6. CASE ~H!HasRead(q, d)
    BY <2>1, <2>4, <2>6 DEF H!HasRead
  <2> QED BY <2>5, <2>6
<1> QED BY <1>1, <1>2

\* WriteHealth, whether it succeeds or its answer is lost
LEMMA WrittenInv ==
    ASSUME H!HealthConstants, HealthInv, NEW r \in Replicas, NEW f, rnd[r].pc = "write", H!Written(r, f),
           f = H!Then(r) \/ f = [rnd[r] EXCEPT !.pc = "insert"], UNCHANGED now
    PROVE  HealthInv'
<1> DEFINE old == rnd[r]
           w == rnd[r].writes
           u == w[1]
           D == u.d
<1>1. PICK S : w \in Seq(S)
  BY DEF HealthInv, RoundKeeps, RoundOK
<1>2. RoundKeeps(old) /\ w # <<>> /\ 1 \in 1 .. Len(w) /\ Head(w) = u
  BY <1>1, EmptySeq DEF HealthInv, RoundKeeps, RoundOK
<1>3. /\ D \in H!Devices /\ Explains(u.explain) /\ Explains(explain[D])
      /\ \A i \in 2 .. Len(w) : i \in 1 .. Len(w) /\ w[i].d # D
  <2>1. D \in H!Devices /\ Explains(u.explain)
    BY <1>2 DEF RoundKeeps, RoundOK
  <2>2. \A i \in 2 .. Len(w) : i \in 1 .. Len(w) /\ i # 1
    BY <1>1
  <2>3. \A i \in 2 .. Len(w) : w[i].d # D
    BY <1>2, <2>2 DEF RoundKeeps, RoundOK
  <2> QED BY <2>1, <2>2, <2>3 DEF HealthInv, HealthShapes
<1>4. /\ explain' = [explain EXCEPT ![D] = [u.explain EXCEPT !.levels =
                          IF old.dec.action = "send" THEN @ \cup {old.dec.level} ELSE @]]
      /\ rewound' = IF D \in old.dirty THEN rewound \cup {D} ELSE rewound
      /\ H!Touches(r, D, f) /\ UNCHANGED reminders
  BY <1>2 DEF H!Written
<1> HIDE DEF D
<1>5. /\ DOMAIN explain' = H!Devices /\ \A d \in H!Devices \ {D} : explain'[d] = explain[d]
      /\ Explains(explain'[D]) /\ explain'[D].life = u.explain.life
      /\ u.explain.levels \subseteq explain'[D].levels
      /\ old.dec.action = "send" => old.dec.level \in explain'[D].levels
  <2>1. /\ DOMAIN explain' = H!Devices /\ \A d \in H!Devices \ {D} : explain'[d] = explain[d]
        /\ explain'[D] = [u.explain EXCEPT !.levels =
                            IF old.dec.action = "send" THEN @ \cup {old.dec.level} ELSE @]
    BY <1>3, <1>4 DEF HealthInv, HealthShapes
  <2>2. {"levels", "life"} \subseteq DOMAIN u.explain /\ u.explain.life \in Nat
    BY <1>3 DEF Explains
  <2> HIDE DEF u, old
  <2>3. /\ DOMAIN explain'[D] = DOMAIN u.explain /\ explain'[D].life = u.explain.life
        /\ explain'[D].levels = IF old.dec.action = "send" THEN u.explain.levels \cup {old.dec.level}
                                ELSE u.explain.levels
    BY <2>1, <2>2
  <2> QED BY <2>1, <2>2, <2>3 DEF Explains
<1>6. D \notin old.dirty => Follows(u.explain, explain[D])
  BY <1>2 DEF RoundKeeps, FreshWrites, D
<1>7. ASSUME NEW d \in H!Devices, d \notin rewound', NEW n \in Nat, NEW level, Told(explain[d], n, level)
      PROVE  Told(explain'[d], n, level)
  <2>1. CASE d # D
    BY <1>5, <1>7, <2>1 DEF Told
  <2>2. CASE d = D
    <3>1. Follows(u.explain, explain[D])
      BY <1>4, <1>6, <1>7, <2>2
    <3> HIDE DEF u
    <3> QED BY <1>3, <1>5, <1>7, <2>2, <3>1 DEF Told, Follows, Explains
  <2> QED BY <2>1, <2>2
<1>8. \A d : H!Sent(d)' = H!Sent(d)
  BY <1>4 DEF H!Sent
<1>9. SentIsTold'
  <2> SUFFICES ASSUME NEW d \in H!Devices, d \notin rewound', NEW i \in H!Sent(d)
               PROVE  Told(explain'[d], reminders[i].life, reminders[i].level)
    BY <1>4, <1>8 DEF SentIsTold
  <2>1. d \notin rewound /\ reminders[i].life \in Nat
    BY <1>4 DEF H!Sent, HealthInv, HealthShapes
  <2>2. Told(explain[d], reminders[i].life, reminders[i].level)
    BY <2>1 DEF HealthInv, SentIsTold
  <2> HIDE DEF D
  <2>3. reminders' = reminders
    BY <1>4
  <2> QED BY <1>7, <2>1, <2>2, <2>3 DEF Told
<1>10. ASSUME NEW q \in Replicas, q # r PROVE RoundKeeps(rnd[q])'
  <2> DEFINE g == rnd'[q]
             x == rnd[q].writes
  <2>1. RoundKeeps(rnd[q])
    BY DEF HealthInv
  <2>2. /\ DOMAIN g = DOMAIN rnd[q] /\ g.pc = rnd[q].pc /\ g.at = rnd[q].at /\ g.todo = rnd[q].todo
        /\ g.writes = x /\ g.dec = rnd[q].dec /\ rnd[q].dirty \subseteq g.dirty
        /\ \A i \in 1 .. Len(x) : x[i].d = D => D \in g.dirty
    BY <1>4, <1>10, OthersTouched
  <2>3. RoundOK(g)
    BY <2>1, <2>2 DEF RoundKeeps, RoundOK
  <2>4. FreshWrites(rnd[q])'
    <3> SUFFICES ASSUME NEW i \in 1 .. Len(x), x[i].d \notin g.dirty, g.pc = "insert" => i # 1
                 PROVE  Follows(x[i].explain, explain'[x[i].d])
      BY <2>2 DEF FreshWrites
    <3>1. x[i].d # D /\ x[i].d \in H!Devices /\ x[i].d \notin rnd[q].dirty
      BY <2>1, <2>2 DEF RoundKeeps, RoundOK
    <3>2. Follows(x[i].explain, explain[x[i].d])
      BY <2>1, <2>2, <3>1 DEF RoundKeeps, FreshWrites
    <3> QED BY <1>5, <3>1, <3>2
  <2>5. Cooled(rnd[q])'
    BY <1>4, <1>8, <2>1, <2>2 DEF RoundKeeps, Cooled
  <2>6. Announced(rnd[q])'
    <3> SUFFICES ASSUME g.pc = "insert", g.dec.action = "send", x[1].d \notin rewound'
                 PROVE  /\ Told(explain'[x[1].d], x[1].explain.life, g.dec.level)
                        /\ x[1].d \notin g.dirty => \A i \in H!Sent(x[1].d) :
                             ~(reminders[i].life = x[1].explain.life /\ reminders[i].level = g.dec.level)
      BY <1>4, <1>8, <2>2 DEF Announced, Told
    <3>1. 1 \in 1 .. Len(x)
      <4>1. PICK T : x \in Seq(T)
        BY <2>1 DEF RoundKeeps, RoundOK
      <4> QED BY <2>1, <2>2, <4>1, EmptySeq DEF RoundKeeps, RoundOK
    <3>2. x[1].d \in H!Devices /\ x[1].explain.life \in Nat /\ x[1].d \notin rewound
      BY <1>4, <2>1, <3>1 DEF RoundKeeps, RoundOK, Explains
    <3>3. /\ Told(explain[x[1].d], x[1].explain.life, rnd[q].dec.level)
          /\ x[1].d \notin rnd[q].dirty => \A i \in H!Sent(x[1].d) :
               ~(reminders[i].life = x[1].explain.life /\ reminders[i].level = rnd[q].dec.level)
      BY <2>1, <2>2, <3>2 DEF RoundKeeps, Announced
    <3>4. Told(explain'[x[1].d], x[1].explain.life, rnd[q].dec.level)
      BY <1>7, <2>2, <3>2, <3>3 DEF Told
    <3> QED BY <2>2, <3>3, <3>4 DEF Told
  <2>7. RoundOK(rnd[q])'
    BY <2>3 DEF RoundOK
  <2> QED BY <2>4, <2>5, <2>6, <2>7 DEF RoundKeeps
<1>11. rnd'[r] = f
  BY <1>4, OthersTouched
<1>12. ASSUME f = H!Then(r) PROVE RoundKeeps(rnd[r])'
  <2>1. \A i \in 2 .. Len(w) : w[i].d \notin old.dirty => Follows(w[i].explain, explain[w[i].d])
    BY <1>2, <1>3 DEF RoundKeeps, FreshWrites
  <2>2. /\ RoundKeeps(f) /\ f.pc \in {"idle", "decide"}
        /\ \A i \in 1 .. Len(f.writes) : i + 1 \in 2 .. Len(w) /\ f.writes[i] = w[i + 1]
    BY <1>2, <1>12, <2>1, ThenKeeps
  <2>3. \A i \in 1 .. Len(f.writes) : f.writes[i].d \in H!Devices /\ f.writes[i].d # D
    BY <1>3, <2>2 DEF RoundKeeps, RoundOK
  <2>4. FreshWrites(rnd[r])'
    BY <1>5, <1>11, <2>2, <2>3 DEF RoundKeeps, FreshWrites
  <2>5. RoundOK(rnd[r])' /\ Cooled(rnd[r])' /\ Announced(rnd[r])'
    BY <1>11, <2>2 DEF RoundKeeps, RoundOK, Cooled, Announced
  <2> QED BY <2>4, <2>5 DEF RoundKeeps
<1>13. ASSUME f = [rnd[r] EXCEPT !.pc = "insert"] PROVE RoundKeeps(rnd[r])'
  <2>1. /\ DOMAIN f = DOMAIN old /\ f.pc = "insert" /\ f.at = old.at /\ f.todo = old.todo
        /\ f.writes = w /\ f.dec = old.dec /\ f.dirty = old.dirty
    BY <1>2, <1>13 DEF RoundKeeps, RoundOK, H!Idle
  <2>2. RoundOK(rnd[r])'
    BY <1>2, <1>11, <2>1 DEF RoundKeeps, RoundOK
  <2>3. FreshWrites(rnd[r])'
    <3> SUFFICES ASSUME NEW i \in 1 .. Len(w), w[i].d \notin old.dirty, i # 1
                 PROVE  Follows(w[i].explain, explain'[w[i].d])
      BY <1>11, <2>1 DEF FreshWrites
    <3>1. w[i].d # D /\ w[i].d \in H!Devices
      BY <1>2, <1>3 DEF RoundKeeps, RoundOK, D
    <3>2. Follows(w[i].explain, explain[w[i].d])
      BY <1>2 DEF RoundKeeps, FreshWrites
    <3> QED BY <1>5, <3>1, <3>2
  <2>4. reminders' = reminders
    BY <1>4
  <2>5. Cooled(rnd[r])'
    BY <1>2, <1>8, <1>11, <2>1, <2>4 DEF RoundKeeps, Cooled
  <2>6. Announced(rnd[r])'
    <3> SUFFICES ASSUME old.dec.action = "send", D \notin rewound'
                 PROVE  /\ Told(explain'[D], u.explain.life, old.dec.level)
                        /\ D \notin old.dirty => \A i \in H!Sent(D) :
                             ~(reminders[i].life = u.explain.life /\ reminders[i].level = old.dec.level)
      BY <1>8, <1>11, <2>1, <2>4 DEF Announced, Told, D
    <3>1. Told(explain'[D], u.explain.life, old.dec.level)
      BY <1>5 DEF Told
    <3>2. D \notin old.dirty /\ D \notin rewound
      BY <1>4
    <3>3. old.dec.level \notin u.explain.levels
      BY <1>2 DEF RoundKeeps, RoundOK
    <3>4. ASSUME NEW i \in H!Sent(D), reminders[i].life = u.explain.life, reminders[i].level = old.dec.level
          PROVE  FALSE
      <4>1. Told(explain[D], u.explain.life, old.dec.level)
        BY <1>3, <3>2, <3>4 DEF HealthInv, SentIsTold
      <4> QED BY <1>3, <1>6, <3>2, <3>3, <4>1 DEF Told, Follows, Explains
    <3> QED BY <3>1, <3>4
  <2> QED BY <2>2, <2>3, <2>5, <2>6 DEF RoundKeeps
<1>14. HealthShapes'
  <2>1. DOMAIN rnd' = Replicas
    BY <1>4, OthersTouched
  <2> QED BY <1>4, <1>5, <2>1 DEF HealthInv, HealthShapes
<1>15. H!DuplicateNeedsOverlap'
  <2>1. rewound \subseteq rewound'
    BY <1>4
  <2> QED BY <1>4, <1>8, <2>1 DEF HealthInv, H!DuplicateNeedsOverlap, H!CooldownViolations
<1>16. \A q \in Replicas : RoundKeeps(rnd[q])'
  BY <1>10, <1>12, <1>13
<1> QED BY <1>9, <1>14, <1>15, <1>16 DEF HealthInv

\* InsertReminder: the one step that adds a reminder
LEMMA InsertReminderInv ==
    ASSUME H!HealthConstants, HealthInv, NEW r \in Replicas, H!InsertReminder(r)
    PROVE  HealthInv'
<1> DEFINE old == rnd[r]
           w == rnd[r].writes
           u == w[1]
           D == u.d
           n == Len(reminders) + 1
           f == H!Then(r)
           m == [d |-> D, level |-> old.dec.level, action |-> old.dec.action, at |-> old.at,
                 life |-> u.explain.life, blind |-> D \in old.dirty]
<1>1. PICK S : w \in Seq(S)
  BY DEF HealthInv, RoundKeeps, RoundOK
<1>2. old.pc = "insert" /\ RoundKeeps(old) /\ w # <<>> /\ 1 \in 1 .. Len(w) /\ Head(w) = u
  BY <1>1, EmptySeq DEF HealthInv, RoundKeeps, RoundOK, H!InsertReminder
<1>3. /\ D \in H!Devices /\ Explains(u.explain) /\ old.at \in Times
  BY <1>2 DEF RoundKeeps, RoundOK
<1>4. /\ reminders' = Append(reminders, m)
      /\ H!Touches(r, D, f) /\ UNCHANGED <<now, explain, rewound>>
  BY <1>2 DEF H!InsertReminder, H!world
<1>5. /\ \E T : reminders' \in Seq(T)
      /\ Len(reminders) \in Nat /\ n \in Nat /\ Len(reminders') = n
      /\ DOMAIN reminders = 1 .. Len(reminders) /\ DOMAIN reminders' = 1 .. n /\ reminders'[n] = m
      /\ \A i \in 1 .. Len(reminders) : reminders'[i] = reminders[i] /\ i \in 1 .. n /\ i # n
      /\ \A i \in 1 .. n : i \in 1 .. Len(reminders) \/ i = n
  <2>1. PICK T : reminders \in Seq(T)
    BY DEF HealthInv, HealthShapes
  <2> HIDE DEF m
  <2>2. reminders \in Seq(T \cup {m}) /\ Len(reminders) \in Nat
    BY <2>1
  <2>3. reminders' \in Seq(T \cup {m}) /\ Len(reminders') = n
    BY <1>4, <2>2
  <2> QED BY <1>4, <2>2, <2>3
<1>6. m.d = D /\ m.level = old.dec.level /\ m.action = old.dec.action /\ m.at = old.at
      /\ m.life = u.explain.life /\ (m.blind <=> D \in old.dirty)
  OBVIOUS
<1> HIDE DEF n, m, D, f
<1>7. \A d : H!Sent(d) = {i \in 1 .. Len(reminders) : reminders[i].d = d /\ reminders[i].action = "send"}
  BY <1>5 DEF H!Sent
<1>8. HealthShapes'
  <2>1. DOMAIN rnd' = Replicas
    BY <1>4, OthersTouched
  <2>2. \A i \in 1 .. n : reminders'[i].d \in H!Devices /\ reminders'[i].at \in Times /\ reminders'[i].life \in Nat
    BY <1>3, <1>5, <1>6 DEF HealthInv, HealthShapes, Explains
  <2> QED BY <1>4, <1>5, <2>1, <2>2 DEF HealthInv, HealthShapes
<1>9. SentIsTold'
  <2> SUFFICES ASSUME NEW d \in H!Devices, d \notin rewound, NEW i \in 1 .. n,
                      reminders'[i].d = d, reminders'[i].action = "send"
               PROVE  Told(explain[d], reminders'[i].life, reminders'[i].level)
    BY <1>4, <1>5 DEF SentIsTold, H!Sent
  <2>1. CASE i \in 1 .. Len(reminders)
    BY <1>5, <1>7, <2>1 DEF HealthInv, SentIsTold
  <2>2. CASE i = n
    BY <1>2, <1>5, <1>6, <2>2 DEF RoundKeeps, Announced, D
  <2> QED BY <1>5, <2>1, <2>2
<1>10. ASSUME NEW q \in Replicas, q # r PROVE RoundKeeps(rnd[q])'
  <2> DEFINE g == rnd'[q]
             x == rnd[q].writes
  <2>1. RoundKeeps(rnd[q])
    BY DEF HealthInv
  <2>2. /\ DOMAIN g = DOMAIN rnd[q] /\ g.pc = rnd[q].pc /\ g.at = rnd[q].at /\ g.todo = rnd[q].todo
        /\ g.writes = x /\ g.dec = rnd[q].dec /\ rnd[q].dirty \subseteq g.dirty
        /\ \A i \in 1 .. Len(x) : x[i].d = D => D \in g.dirty
    BY <1>4, <1>10, OthersTouched
  <2>3. RoundOK(rnd[q])'
    BY <2>1, <2>2 DEF RoundKeeps, RoundOK
  <2>4. FreshWrites(rnd[q])'
    BY <1>4, <2>1, <2>2 DEF RoundKeeps, FreshWrites
  <2>5. g.pc \in {"write", "insert"} => 1 \in 1 .. Len(x)
    <3>1. PICK T : x \in Seq(T)
      BY <2>1 DEF RoundKeeps, RoundOK
    <3> QED BY <2>1, <2>2, <3>1, EmptySeq DEF RoundKeeps, RoundOK
  <2>6. ASSUME g.pc \in {"write", "insert"}, x[1].d \notin g.dirty
        PROVE  /\ x[1].d \notin rnd[q].dirty
               /\ \A i \in 1 .. n : reminders'[i].d = x[1].d =>
                    i \in 1 .. Len(reminders) /\ reminders'[i] = reminders[i]
    <3>1. x[1].d # D /\ x[1].d \notin rnd[q].dirty
      BY <2>2, <2>5, <2>6
    <3> QED BY <1>5, <1>6, <3>1
  <2>7. Cooled(rnd[q])'
    <3> SUFFICES ASSUME g.pc \in {"write", "insert"}, g.dec.action = "send", x[1].d \notin g.dirty,
                        NEW i \in 1 .. n, reminders'[i].d = x[1].d, reminders'[i].action = "send"
                 PROVE  g.at - reminders'[i].at >= Cooldown
      BY <1>5, <2>2 DEF Cooled, H!Sent
    <3> QED BY <1>7, <2>1, <2>2, <2>6 DEF RoundKeeps, Cooled
  <2>8. Announced(rnd[q])'
    <3> SUFFICES ASSUME g.pc = "insert", g.dec.action = "send", x[1].d \notin rewound
                 PROVE  /\ Told(explain[x[1].d], x[1].explain.life, g.dec.level)
                        /\ x[1].d \notin g.dirty =>
                             \A i \in 1 .. n : reminders'[i].d = x[1].d /\ reminders'[i].action = "send" =>
                                ~(reminders'[i].life = x[1].explain.life /\ reminders'[i].level = g.dec.level)
      BY <1>4, <1>5, <2>2 DEF Announced, H!Sent
    <3> QED BY <1>7, <2>1, <2>2, <2>6 DEF RoundKeeps, Announced
  <2> QED BY <2>3, <2>4, <2>7, <2>8 DEF RoundKeeps
<1>11. RoundKeeps(rnd[r])'
  <2>1. rnd'[r] = f
    BY <1>4, OthersTouched
  <2>2. \A i \in 2 .. Len(w) : w[i].d \notin old.dirty => Follows(w[i].explain, explain[w[i].d])
    <3>1. \A i \in 2 .. Len(w) : i \in 1 .. Len(w) /\ i # 1
      BY <1>1
    <3> QED BY <1>2, <3>1 DEF RoundKeeps, FreshWrites
  <2>3. RoundKeeps(f) /\ f.pc \in {"idle", "decide"}
    BY <1>2, <2>2, ThenKeeps DEF f
  <2> QED BY <1>4, <2>1, <2>3 DEF RoundKeeps, RoundOK, FreshWrites, Cooled, Announced
<1>12. \A i \in 1 .. Len(reminders) : reminders'[i] = reminders[i]
  BY <1>5
<1>13. ASSUME NEW i \in 1 .. Len(reminders), reminders[i].d = D, reminders[i].action = "send",
              old.dec.action = "send", D \notin old.dirty
       PROVE  /\ old.at - reminders[i].at >= Cooldown
              /\ D \notin rewound => ~(reminders[i].life = m.life /\ reminders[i].level = m.level)
  <2>1. i \in H!Sent(D)
    BY <1>7, <1>13
  <2>2. old.at - reminders[i].at >= Cooldown
    BY <1>2, <1>13, <2>1 DEF RoundKeeps, Cooled, D
  <2>3. D \notin rewound => ~(reminders[i].life = u.explain.life /\ reminders[i].level = old.dec.level)
    BY <1>2, <1>13, <2>1 DEF RoundKeeps, Announced, D
  <2> QED BY <1>6, <2>2, <2>3
<1>14. \A v \in H!CooldownViolations' : reminders'[H!Max({v[1], v[2]})].blind
  <2> SUFFICES ASSUME NEW v \in H!CooldownViolations' PROVE reminders'[H!Max({v[1], v[2]})].blind
    OBVIOUS
  <2> DEFINE i == v[1]
             j == v[2]
  <2>1. /\ v = <<i, j>> /\ i \in 1 .. n /\ j \in 1 .. n /\ i # j /\ reminders'[i].d = reminders'[j].d
        /\ reminders'[i].action = "send" /\ reminders'[j].action = "send"
        /\ reminders'[j].at - reminders'[i].at \in 0 .. Cooldown - 1
        /\ reminders'[i].at = reminders'[j].at => i < j
        /\ ~\E k \in 1 .. n : /\ reminders'[k].d = reminders'[i].d /\ reminders'[k].action = "send"
                              /\ reminders'[i].at < reminders'[k].at /\ reminders'[k].at < reminders'[j].at
    BY <1>5 DEF H!CooldownViolations, H!Sent
  <2> HIDE DEF i, j
  <2>2. CASE i \in 1 .. Len(reminders) /\ j \in 1 .. Len(reminders)
    <3>1. v \in H!CooldownViolations
      <4>1. reminders'[i] = reminders[i] /\ reminders'[j] = reminders[j]
        BY <1>12, <2>2
      <4>2. ~\E k \in 1 .. Len(reminders) :
               /\ reminders[k].d = reminders[i].d /\ reminders[k].action = "send"
               /\ reminders[i].at < reminders[k].at /\ reminders[k].at < reminders[j].at
        BY <1>5, <1>12, <2>1, <4>1
      <4>3. v[1] = i /\ v[2] = j /\ v \in (DOMAIN reminders) \X (DOMAIN reminders)
        BY <1>5, <2>1, <2>2 DEF i, j
      <4>4. {i, j} \subseteq H!Sent(reminders[i].d)
        BY <1>7, <2>1, <2>2, <4>1
      <4>5. ~\E k \in H!Sent(reminders[i].d) :
               reminders[i].at < reminders[k].at /\ reminders[k].at < reminders[j].at
        BY <1>7, <4>2
      <4> QED BY <2>1, <4>1, <4>3, <4>4, <4>5 DEF H!CooldownViolations
    <3>2. reminders[H!Max({i, j})].blind
      BY <3>1 DEF HealthInv, H!DuplicateNeedsOverlap, i, j
    <3>3. H!Max({i, j}) \in 1 .. Len(reminders)
      <4>1. {i, j} \subseteq 0 .. Len(reminders) /\ {i, j} # {}
        BY <2>2
      <4>2. H!Max({i, j}) \in {i, j}
        BY <1>5, <4>1, SameMax, Greatest
      <4> QED BY <2>2, <4>2
    <3> QED BY <1>12, <3>2, <3>3 DEF i, j
  <2>3. CASE i = n \/ j = n
    <3>1. H!Max({i, j}) = n
      <4>1. {i, j} \subseteq 0 .. n /\ {i, j} # {} /\ n \in {i, j}
        BY <1>5, <2>1, <2>3
      <4>2. H!Max({i, j}) \in 0 .. n /\ H!Max({i, j}) >= n
        BY <1>5, <4>1, SameMax, Greatest
      <4> QED BY <1>5, <4>2
    <3>2. ASSUME D \notin old.dirty PROVE FALSE
      <4>1. CASE i = n
        <5>1. j \in 1 .. Len(reminders) /\ reminders[j].d = D /\ reminders[j].action = "send"
          BY <1>5, <1>6, <1>12, <2>1, <4>1
        <5>2. old.dec.action = "send" /\ reminders'[i].at = old.at /\ reminders'[j].at = reminders[j].at
          BY <1>5, <1>6, <1>12, <2>1, <4>1, <5>1
        <5>3. old.at - reminders[j].at >= Cooldown /\ reminders[j].at - old.at \in 0 .. Cooldown - 1
          BY <1>13, <2>1, <3>2, <5>1, <5>2
        <5>4. old.at \in Int /\ reminders[j].at \in Int /\ Cooldown \in Nat
          BY <1>3, <5>1, HealthNumbers DEF HealthInv, HealthShapes, Times
        <5> QED BY <5>3, <5>4
      <4>2. CASE j = n
        <5>1. i \in 1 .. Len(reminders) /\ reminders[i].d = D /\ reminders[i].action = "send"
          BY <1>5, <1>6, <1>12, <2>1, <4>2
        <5>2. old.dec.action = "send" /\ reminders'[j].at = old.at /\ reminders'[i].at = reminders[i].at
          BY <1>5, <1>6, <1>12, <2>1, <4>2, <5>1
        <5>3. old.at - reminders[i].at >= Cooldown /\ old.at - reminders[i].at \in 0 .. Cooldown - 1
          BY <1>13, <2>1, <3>2, <5>1, <5>2
        <5>4. old.at \in Int /\ reminders[i].at \in Int /\ Cooldown \in Nat
          BY <1>3, <5>1, HealthNumbers DEF HealthInv, HealthShapes, Times
        <5> QED BY <5>3, <5>4
      <4> QED BY <2>3, <4>1, <4>2
    <3> QED BY <1>5, <1>6, <3>1, <3>2 DEF i, j
  <2> QED BY <1>5, <2>1, <2>2, <2>3
<1>15. \A i, j \in 1 .. n :
         /\ i < j /\ reminders'[i].d = reminders'[j].d
         /\ reminders'[i].action = "send" /\ reminders'[j].action = "send"
         /\ reminders'[i].level = reminders'[j].level /\ reminders'[i].life = reminders'[j].life
         => reminders'[j].blind \/ reminders'[j].d \in rewound
  <2> TAKE i, j \in 1 .. n
  <2>1. CASE j \in 1 .. Len(reminders)
    <3>1. i < j => i \in 1 .. Len(reminders)
      BY <1>5, <2>1
    <3> QED BY <1>5, <1>7, <1>12, <2>1, <3>1 DEF HealthInv, H!DuplicateNeedsOverlap
  <2>2. CASE j = n
    <3>1. i < j => i \in 1 .. Len(reminders)
      BY <1>5, <2>2
    <3> QED BY <1>5, <1>6, <1>12, <1>13, <2>2, <3>1
  <2> QED BY <1>5, <2>1, <2>2
<1>16. H!DuplicateNeedsOverlap'
  BY <1>4, <1>5, <1>14, <1>15 DEF H!DuplicateNeedsOverlap, H!Sent
<1> QED BY <1>8, <1>9, <1>10, <1>11, <1>16 DEF HealthInv
\* A statement that fails, an aborted round
LEMMA FailsInv ==
    ASSUME H!HealthConstants, HealthInv, NEW r \in Replicas, H!StatementFails(r) \/ H!RoundAborts(r)
    PROVE  HealthInv'
<1>1. RoundKeeps(rnd[r]) /\ now \in Times
  BY DEF HealthInv, HealthShapes
<1>2. CASE H!RoundAborts(r)
  <2>1. rnd' = [rnd EXCEPT ![r] = H!Idle] /\ UNCHANGED <<now, explain, reminders, rewound>>
    BY <1>2 DEF H!RoundAborts, H!Goes, H!world, H!tables
  <2> QED BY <1>1, <2>1, IdleKeeps, RoundOnlyInv
<1>3. CASE H!StatementFails(r)
  <2>1. CASE rnd[r].pc = "write" /\ H!Written(r, H!Then(r))
    <3>1. UNCHANGED now
      BY <1>3 DEF H!StatementFails, H!world
    <3> QED BY <2>1, <3>1, WrittenInv
  <2>2. CASE /\ rnd[r].pc \in {"decide", "write", "insert"} /\ H!Goes(r, H!Then(r))
             /\ UNCHANGED <<H!tables, rewound>>
    <3>1. UNCHANGED <<now, explain, reminders, rewound>>
      BY <1>3, <2>2 DEF H!StatementFails, H!world, H!tables
    <3>2. PICK S : rnd[r].writes \in Seq(S)
      BY <1>1 DEF RoundKeeps, RoundOK
    <3>3. /\ rnd[r].writes # <<>>
          /\ \A i \in 2 .. Len(rnd[r].writes) : i \in 1 .. Len(rnd[r].writes) /\ i # 1
      BY <1>1, <2>2, <3>2 DEF RoundKeeps, RoundOK
    <3>4. \A i \in 2 .. Len(rnd[r].writes) : rnd[r].writes[i].d \notin rnd[r].dirty =>
             Follows(rnd[r].writes[i].explain, explain[rnd[r].writes[i].d])
      BY <1>1, <3>3 DEF RoundKeeps, FreshWrites
    <3>5. RoundKeeps(H!Then(r))
      BY <1>1, <3>3, <3>4, ThenKeeps
    <3> QED BY <1>1, <2>2, <3>1, <3>5, RoundOnlyInv DEF H!Goes
  <2> QED BY <1>3, <2>1, <2>2 DEF H!StatementFails
<1> QED BY <1>2, <1>3

LEMMA WriteHealthInv ==
    ASSUME H!HealthConstants, HealthInv, NEW r \in Replicas, H!WriteHealth(r)
    PROVE  HealthInv'
<1> DEFINE f == IF rnd[r].dec.action = "none" THEN H!Then(r) ELSE [rnd[r] EXCEPT !.pc = "insert"]
<1>1. rnd[r].pc = "write" /\ H!Written(r, f) /\ UNCHANGED now
  BY DEF H!WriteHealth, H!world
<1>2. f = H!Then(r) \/ f = [rnd[r] EXCEPT !.pc = "insert"]
  OBVIOUS
<1> HIDE DEF f
<1> QED BY <1>1, <1>2, WrittenInv

LEMMA WorldInv ==
    ASSUME H!HealthConstants, HealthInv, H!World \/ UNCHANGED H!vars
    PROVE  HealthInv'
<1>1. now' \in Times
  <2>1. now \in Times
    BY DEF HealthInv, HealthShapes
  <2>2. CASE H!World
    <3>1. now' = now \/ (now < MaxNow /\ now' = now + 1)
      BY <2>2 DEF H!World, H!Tick, H!Upset, H!Work, H!ReportModel
    <3> QED BY <2>1, <3>1, HealthNumbers DEF Times
  <2>3. CASE UNCHANGED H!vars
    BY <2>1, <2>3 DEF H!vars, H!world
  <2> QED BY <2>2, <2>3
<1>2. UNCHANGED <<explain, reminders, rnd, rewound>>
  BY DEF H!World, H!tables, H!vars
<1>3. HealthShapes' /\ SentIsTold' /\ H!DuplicateNeedsOverlap'
  BY <1>1, <1>2 DEF HealthInv, HealthShapes, SentIsTold, H!Sent, H!DuplicateNeedsOverlap, H!CooldownViolations
<1>4. \A r \in Replicas : RoundKeeps(rnd[r])'
  BY <1>2 DEF HealthInv, RoundKeeps, RoundOK, FreshWrites, Cooled, Announced, H!Sent
<1> QED BY <1>3, <1>4 DEF HealthInv

\* Whatever rounds overlap, are retried or are aborted, and on whatever replica
THEOREM HealthInvariant == H!Spec => []HealthInv
<1>1. H!Init => HealthInv
  BY HealthInit, ServiceConstants
<1>2. HealthInv /\ [H!Next]_H!vars => HealthInv'
  <2> SUFFICES ASSUME HealthInv, [H!Next]_H!vars PROVE HealthInv'
    OBVIOUS
  <2>1. CASE H!World \/ UNCHANGED H!vars
    BY <2>1, WorldInv, ServiceConstants
  <2>2. ASSUME NEW r \in Replicas,
               H!RoundStep(r) \/ H!PartialRound(r) \/ H!StatementFails(r) \/ H!RoundAborts(r)
        PROVE  HealthInv'
    BY <2>2, RoundStartInv, ReadRowInv, ScoreDeviceInv, CommitDecideInv, WriteHealthInv,
       InsertReminderInv, FailsInv, ServiceConstants DEF H!RoundStep
  <2> QED BY <2>1, <2>2 DEF H!Next
<1> QED BY <1>1, <1>2, PTL DEF H!Spec

\* DecideReminder and LastSentAt against rounds of other replicas: two reminders
\* of a device within the cooldown, or of one level and one module, are due to a
\* round that another one has overtaken on that device, for any number of
\* replicas, devices, hours and failed statements.
THEOREM NoSecondReminder == H!Spec => []DuplicateNeedsOverlap
<1>1. HealthInv => DuplicateNeedsOverlap
  BY DEF HealthInv, DuplicateNeedsOverlap
<1> QED BY <1>1, HealthInvariant, PTL

-----------------------------------------------------------------------------
(* Health, the hours charged. The hours worked that the model remembers    *)
(* beside the counter say why nothing is charged twice: along the buckets  *)
(* a round has read the counter grows only with hours worked, so a charge  *)
(* stays below the hours worked between the first bucket it counts and the *)
(* last; and a bucket no charge has counted yet (Uncounted) shows at least *)
(* the hours worked of that charge, in whatever state a round has read it. *)

\* Among sets of subsets of a finite set one is minimal.
LEMMA MinimalSubset ==
    ASSUME NEW S, IsFiniteSet(S), NEW B, B \subseteq SUBSET S, B # {}
    PROVE  \E m \in B : \A y \in B : y \subseteq m => y = m
<1>1. B \subseteq FiniteSubsetsOf(S)
  BY FS_Subset DEF FiniteSubsetsOf
<1>2. PICK m \in B : \A y \in B : ~(<<y, m>> \in StrictSubsetOrdering(S))
  BY <1>1, FS_StrictSubsetOrderingWellFounded, WFMin, Zenon
<1> QED BY <1>2 DEF StrictSubsetOrdering

\* WeightedHours charges an hour for each bucket above the one before.
LEMMA SumCounts ==
    ASSUME NEW S, IsFiniteSet(S), NEW c, \A i \in S : c[i - 1] \in Int /\ c[i] \in Int
    PROVE  H!MapThenSumSet(LAMBDA i : H!Charged(c[i - 1], c[i]), S) = Cardinality({i \in S : c[i] > c[i - 1]})
<1> DEFINE x(s) == CHOOSE i \in s : TRUE
           Inc(i) == H!Charged(c[i - 1], c[i])
           Step(f) == [s \in SUBSET S |-> IF s = {} THEN 0 ELSE Inc(x(s)) + f[s \ {x(s)}]]
           sum == CHOOSE f : f = Step(f)
           up(s) == {i \in s : c[i] > c[i - 1]}
           count == [s \in SUBSET S |-> Cardinality(up(s))]
<1>1. H!MapThenSumSet(LAMBDA i : H!Charged(c[i - 1], c[i]), S) = sum[S]
  BY Zenon DEF H!MapThenSumSet, H!MapThenFoldSet
<1>2. \A s : s # {} => x(s) \in s
  OBVIOUS
<1>3. \A i \in S : Inc(i) = IF c[i] > c[i - 1] THEN 1 ELSE 0
  BY DEF H!Charged
<1> HIDE DEF x, Inc, up
<1>4. ASSUME NEW s \in SUBSET S, s # {}
      PROVE  /\ Cardinality(up(s)) = Inc(x(s)) + Cardinality(up(s \ {x(s)}))
             /\ s \ {x(s)} \in SUBSET S
  <2> DEFINE i == x(s)
  <2>1. i \in s
    BY <1>2, <1>4
  <2> HIDE DEF i
  <2>2. IsFiniteSet(up(s)) /\ Cardinality(up(s)) \in Nat
    <3>1. up(s) \subseteq S
      BY DEF up
    <3> QED BY <3>1, FS_Subset, FS_CardinalityType
  <2>3. CASE c[i] > c[i - 1]
    <3>1. up(s \ {i}) = up(s) \ {i} /\ i \in up(s)
      BY <2>1, <2>3 DEF up
    <3>2. Cardinality(up(s) \ {i}) = Cardinality(up(s)) - 1
      BY <2>2, <3>1, FS_RemoveElement
    <3>3. Cardinality(up(s \ {i})) = Cardinality(up(s)) - 1
      BY <3>1, <3>2, Zenon
    <3>4. Inc(i) = 1
      BY <1>3, <2>1, <2>3
    <3> QED BY <2>2, <3>3, <3>4 DEF i
  <2>4. CASE ~(c[i] > c[i - 1])
    <3>1. up(s \ {i}) = up(s)
      BY <2>1, <2>4 DEF up
    <3>2. Cardinality(up(s \ {i})) = Cardinality(up(s))
      BY <3>1, Zenon
    <3>3. Inc(i) = 0
      BY <1>3, <2>1, <2>4
    <3> QED BY <2>2, <3>2, <3>3 DEF i
  <2> QED BY <2>3, <2>4
<1>5. Cardinality(up({})) = 0
  <2>1. up({}) = {}
    BY DEF up
  <2> QED BY <2>1, FS_EmptySet
<1>6. sum = Step(sum)
  <2>1. ASSUME NEW s \in SUBSET S PROVE count[s] = Step(count)[s]
    BY <1>4, <1>5
  <2>2. count = Step(count)
    BY <2>1
  <2> HIDE DEF Step, count
  <2> QED BY <2>2
<1> HIDE DEF sum
<1> DEFINE wrong == {s \in SUBSET S : sum[s] # Cardinality(up(s))}
<1>7. wrong = {}
  <2>1. SUFFICES ASSUME wrong # {} PROVE FALSE
    OBVIOUS
  <2> HIDE DEF wrong
  <2>2. wrong \subseteq SUBSET S
    BY DEF wrong
  <2>3. PICK m \in wrong : \A y \in wrong : y \subseteq m => y = m
    BY <2>1, <2>2, MinimalSubset
  <2>4. m \in SUBSET S /\ sum[m] # Cardinality(up(m))
    BY <2>3 DEF wrong
  <2>5. m # {}
    BY <1>5, <1>6, <2>4
  <2> DEFINE r == m \ {x(m)}
  <2>6. r \in SUBSET S /\ r # m /\ r \subseteq m
    BY <1>2, <2>4, <2>5
  <2>7. sum[r] = Cardinality(up(r))
    BY <2>3, <2>6 DEF wrong
  <2>8. sum[m] = Inc(x(m)) + sum[r]
    BY <1>6, <2>4, <2>5
  <2> QED BY <1>4, <2>4, <2>5, <2>7, <2>8
<1>8. sum[S] = Cardinality(up(S))
  BY <1>7 DEF wrong
<1> QED BY <1>1, <1>8 DEF up

\* The hours that scoreDevice charges for counters in order.
TotalCharge(c) == H!MapThenSumSet(LAMBDA i : H!Charged(c[i - 1], c[i]), 2 .. Len(c))

\* A charge stays below the growth of whatever grows with the counter.
LEMMA ChargeBound ==
    ASSUME NEW c, Len(c) \in Nat \ {0}, NEW v, \A i \in 1 .. Len(c) : c[i] \in Int /\ v[i] \in Int,
           \A i, j \in 1 .. Len(c) : i <= j => v[i] <= v[j],
           \A i \in 2 .. Len(c) : c[i] > c[i - 1] => v[i] > v[i - 1]
    PROVE  TotalCharge(c) \in Nat /\ TotalCharge(c) <= v[Len(c)] - v[1]
<1> DEFINE n == Len(c)
           up == {i \in 2 .. n : c[i] > c[i - 1]}
           grown == v[1] + 1 .. v[n]
           f == [i \in up |-> v[i]]
<1>1. n \in Nat \ {0} /\ \A i \in 2 .. n : i \in 1 .. n /\ i - 1 \in 1 .. n
  OBVIOUS
<1>2. IsFiniteSet(2 .. n)
  BY <1>1, FS_Interval
<1>3. TotalCharge(c) = Cardinality(up)
  BY <1>1, <1>2, SumCounts DEF TotalCharge
<1>4. /\ \A i \in 1 .. n : c[i] \in Int /\ v[i] \in Int
      /\ \A i, j \in 1 .. n : i <= j => v[i] <= v[j]
      /\ \A i \in 2 .. n : c[i] > c[i - 1] => v[i] > v[i - 1]
  OBVIOUS
<1> HIDE DEF n
<1>5. v[1] \in Int /\ v[n] \in Int /\ v[1] <= v[n]
  BY <1>1, <1>4
<1>6. ASSUME NEW i \in up PROVE f[i] \in grown
  <2>1. i \in 2 .. n /\ i - 1 \in 1 .. n /\ i \in 1 .. n /\ v[i] > v[i - 1]
    BY <1>1, <1>4
  <2>2. v[1] <= v[i - 1] /\ v[i] <= v[n] /\ v[i] \in Int /\ v[i - 1] \in Int
    BY <1>1, <1>4, <2>1
  <2> QED BY <1>5, <2>1, <2>2
<1>7. ASSUME NEW i \in up, NEW j \in up, i < j PROVE f[i] < f[j]
  <2>1. i \in 1 .. n /\ j \in 1 .. n /\ j - 1 \in 1 .. n /\ i <= j - 1 /\ v[j] > v[j - 1]
    BY <1>1, <1>4, <1>7
  <2>2. v[i] <= v[j - 1] /\ v[i] \in Int /\ v[j] \in Int /\ v[j - 1] \in Int
    BY <1>4, <2>1
  <2> QED BY <2>1, <2>2
<1>8. f \in Injection(up, grown)
  <2>1. f \in [up -> grown]
    BY <1>6
  <2>2. \A i, j \in up : f[i] = f[j] => i = j
    <3> SUFFICES ASSUME NEW i \in up, NEW j \in up, i # j PROVE f[i] # f[j]
      OBVIOUS
    <3>1. i < j \/ j < i
      BY <1>1
    <3>2. f[i] \in Int /\ f[j] \in Int
      BY <1>5, <1>6
    <3> HIDE DEF f, up
    <3> QED BY <1>7, <3>1, <3>2
  <2> HIDE DEF f, up, grown
  <2> QED BY <2>1, <2>2 DEF Injection, IsInjective
<1>9. IsFiniteSet(grown) /\ Cardinality(grown) = v[n] - v[1]
  <2> DEFINE lo == v[1] + 1
             hi == v[n]
  <2>1. lo \in Int /\ hi \in Int /\ lo <= hi + 1
    BY <1>5
  <2> HIDE DEF lo, hi
  <2>2. IsFiniteSet(lo .. hi) /\ Cardinality(lo .. hi) = IF lo > hi THEN 0 ELSE hi - lo + 1
    BY <2>1, FS_Interval, Zenon
  <2> DEFINE k == Cardinality(lo .. hi)
  <2>3. k = hi - lo + 1
    <3>1. k = IF lo > hi THEN 0 ELSE hi - lo + 1
      BY <2>2
    <3> HIDE DEF k
    <3> QED BY <2>1, <3>1
  <2> QED BY <1>5, <2>2, <2>3 DEF lo, hi
<1>10. IsFiniteSet(up) /\ Cardinality(up) <= Cardinality(grown)
  <2> HIDE DEF f, up, grown
  <2> QED BY <1>8, <1>9, FS_Injection
<1>11. TotalCharge(c) \in Nat /\ TotalCharge(c) <= v[n] - v[1]
  <2> HIDE DEF up, grown
  <2> QED BY <1>3, <1>9, <1>10, FS_CardinalityType
<1> QED BY <1>11 DEF n

\* The instances have their own names for Cardinality.
LEMMA SameHealthCardinality == ASSUME NEW S PROVE H!Cardinality(S) = Cardinality(S)
BY Zenon DEF H!Cardinality, Cardinality

\* The buckets that carry laser_hours
Carrying(ts, b) == {t \in ts : b[t] # H!NoHours}

\* The places p[1] < p[2] < ... of the buckets that carry laser_hours.
LEMMA HoursInOrder ==
    ASSUME NEW N \in Nat, NEW ts \in SUBSET (0 .. N), NEW b
    PROVE  \E n, p :
             /\ n \in Nat /\ H!HoursOf(ts, b) = [i \in 1 .. n |-> b[p[i]]]
             /\ \A i \in 1 .. n : p[i] \in Carrying(ts, b)
             /\ \A i, j \in 1 .. n : i <= j => p[i] <= p[j]
             /\ \A i \in 2 .. n : p[i - 1] < p[i]
             /\ n > 0 => p[n] = H!Max(Carrying(ts, b))
             /\ n = 0 <=> Carrying(ts, b) = {}
<1> DEFINE v == Carrying(ts, b)
           n == Cardinality(v)
           below(t) == {u \in v : u <= t}
           rank == [t \in v |-> Cardinality(below(t))]
           p == [i \in 1 .. n |-> CHOOSE t \in v : rank[t] = i]
<1>0. v \subseteq 0 .. N
  BY DEF Carrying
<1> HIDE DEF v
<1>1. IsFiniteSet(v) /\ n \in Nat /\ \A t \in v : t \in Int
  <2>1. IsFiniteSet(0 .. N)
    BY FS_Interval
  <2>2. v \subseteq 0 .. N
    BY <1>0
  <2> HIDE DEF n
  <2>3. IsFiniteSet(v)
    BY <2>1, <2>2, FS_Subset
  <2> QED BY <2>2, <2>3, FS_CardinalityType DEF n
<1> HIDE DEF n
<1>2. ASSUME NEW t \in v
      PROVE  /\ t \in below(t) /\ IsFiniteSet(below(t)) /\ rank[t] = Cardinality(below(t))
             /\ rank[t] \in 1 .. n
  <2>1. t \in below(t) /\ below(t) \subseteq v
    BY <1>1
  <2> HIDE DEF below
  <2>2. IsFiniteSet(below(t)) /\ Cardinality(below(t)) <= n /\ Cardinality(below(t)) \in Nat
    BY <1>1, <2>1, FS_Subset, FS_CardinalityType DEF n
  <2>3. Cardinality(below(t)) # 0
    BY <2>1, <2>2, FS_EmptySet
  <2> QED BY <1>1, <2>1, <2>2, <2>3
<1>3. ASSUME NEW t \in v, NEW u \in v, t < u PROVE rank[t] < rank[u]
  <2>1. below(t) \subseteq below(u) /\ u \in below(u) /\ u \notin below(t)
    BY <1>1, <1>3
  <2> HIDE DEF below, rank
  <2>2. /\ rank[t] = Cardinality(below(t)) /\ rank[u] = Cardinality(below(u)) /\ IsFiniteSet(below(u))
        /\ rank[t] \in 1 .. n /\ rank[u] \in 1 .. n
    BY <1>2
  <2>3. Cardinality(below(t)) <= Cardinality(below(u)) /\ Cardinality(below(t)) # Cardinality(below(u))
    BY <2>1, <2>2, FS_Subset
  <2> QED BY <2>2, <2>3
<1>4. \A i \in 1 .. n : \E t \in v : rank[t] = i
  <2>1. rank \in [v -> 1 .. n]
    BY <1>2
  <2> HIDE DEF rank
  <2>2. \A t, u \in v : rank[t] = rank[u] => t = u
    <3> SUFFICES ASSUME NEW t \in v, NEW u \in v, t # u PROVE rank[t] # rank[u]
      OBVIOUS
    <3>1. t < u \/ u < t
      BY <1>1
    <3>2. rank[t] \in 1 .. n /\ rank[u] \in 1 .. n
      BY <1>2
    <3> QED BY <1>3, <3>1, <3>2
  <2>3. rank \in Injection(v, 1 .. n)
    BY <2>1, <2>2 DEF Injection, IsInjective
  <2>4. IsFiniteSet(1 .. n) /\ Cardinality(1 .. n) = n
    BY <1>1, FS_Interval
  <2>5. rank \in Surjection(v, 1 .. n)
    BY <2>3, <2>4, FS_Injection DEF n
  <2> QED BY <2>5 DEF Surjection
<1>5. \A i \in 1 .. n : p[i] \in v /\ rank[p[i]] = i
  <2> HIDE DEF rank
  <2> QED BY <1>4
<1>6. H!HoursOf(ts, b) = [i \in 1 .. n |-> b[p[i]]]
  <2>1. \A t \in v : rank[t] = H!Cardinality({u \in v : u <= t})
    BY SameHealthCardinality
  <2>2. n = H!Cardinality(v)
    BY SameHealthCardinality DEF n
  <2>3. ASSUME NEW i \in 1 .. n
        PROVE  (CHOOSE t \in v : H!Cardinality({u \in v : u <= t}) = i) = p[i]
    <3> DEFINE q == CHOOSE t \in v : H!Cardinality({u \in v : u <= t}) = i
    <3> HIDE DEF rank
    <3>1. \E t \in v : H!Cardinality({u \in v : u <= t}) = i
      BY <1>4, <2>1
    <3>2. q \in v /\ H!Cardinality({u \in v : u <= q}) = i
      BY <3>1, Zenon
    <3>3. q \in v /\ rank[q] = i
      BY <2>1, <3>2
    <3> HIDE DEF q, p
    <3>4. q = p[i]
      <4>1. p[i] \in v /\ rank[p[i]] = i
        BY <1>5
      <4>2. ~(q < p[i]) /\ ~(p[i] < q)
        BY <1>2, <1>3, <3>3, <4>1
      <4> QED BY <1>1, <3>3, <4>1, <4>2
    <3> QED BY <3>4 DEF q
  <2> DEFINE Ranked(s) == [i \in 1 .. H!Cardinality(s) |->
                              b[CHOOSE t \in s : H!Cardinality({u \in s : u <= t}) = i]]
  <2>4. H!HoursOf(ts, b) = Ranked(v)
    <3>1. H!HoursOf(ts, b) = Ranked({t \in ts : b[t] # H!NoHours})
      BY Zenon DEF H!HoursOf
    <3> HIDE DEF Ranked
    <3> QED BY <3>1, Zenon DEF v, Carrying
  <2> HIDE DEF p
  <2> QED BY <2>2, <2>3, <2>4
<1> HIDE DEF p, rank
<1>7. \A i, j \in 1 .. n : i < j => p[i] < p[j]
  <2> SUFFICES ASSUME NEW i \in 1 .. n, NEW j \in 1 .. n, i < j PROVE p[i] < p[j]
    OBVIOUS
  <2>1. p[i] \in v /\ rank[p[i]] = i /\ p[j] \in v /\ rank[p[j]] = j
    BY <1>5
  <2>2. p[i] # p[j] /\ ~(p[j] < p[i])
    BY <1>3, <2>1
  <2> QED BY <1>1, <2>1, <2>2
<1>8. \A i, j \in 1 .. n : i <= j => p[i] <= p[j]
  <2> SUFFICES ASSUME NEW i \in 1 .. n, NEW j \in 1 .. n, i <= j PROVE p[i] <= p[j]
    OBVIOUS
  <2>1. i = j \/ i < j
    OBVIOUS
  <2>2. p[i] \in Int /\ p[j] \in Int
    BY <1>1, <1>5
  <2> QED BY <1>7, <2>1, <2>2
<1>9. \A i \in 2 .. n : p[i - 1] < p[i]
  <2> SUFFICES ASSUME NEW i \in 2 .. n PROVE p[i - 1] < p[i]
    OBVIOUS
  <2>1. i - 1 \in 1 .. n /\ i \in 1 .. n /\ i - 1 < i
    BY <1>1
  <2> QED BY <1>7, <2>1
<1>10. n = 0 <=> v = {}
  BY <1>1, FS_EmptySet DEF n
<1>11. ASSUME n > 0 PROVE p[n] = H!Max(v)
  <2>1. n \in 1 .. n
    BY <1>1, <1>11
  <2>2. p[n] \in v /\ rank[p[n]] = n
    BY <1>5, <2>1
  <2>3. \A t \in v : p[n] >= t
    <3> SUFFICES ASSUME NEW t \in v, p[n] < t PROVE FALSE
      BY <1>1, <2>2
    <3>1. rank[p[n]] < rank[t] /\ rank[t] \in 1 .. n
      BY <1>2, <1>3, <2>2
    <3> QED BY <1>1, <2>2, <3>1
  <2>4. H!Max(v) \in v /\ \A t \in v : H!Max(v) >= t
    <3>1. v \subseteq 0 .. N /\ v # {}
      BY <1>0, <2>2
    <3> QED BY <3>1, Greatest, SameMax
  <2> QED BY <1>1, <2>2, <2>3, <2>4
<1> QED BY <1>1, <1>5, <1>6, <1>8, <1>9, <1>10, <1>11 DEF v

\* Buckets b of a device and the hours w it had worked when they were read: the
\* counter only grows with hours worked.
Buckets == [1 .. MaxNow -> Nat \cup {H!NoHours, H!NoBucket}]
HoursWorked == [0 .. MaxNow -> Nat]
Grown(b, w) ==
    /\ b \in Buckets /\ w \in HoursWorked
    /\ \A t, u \in 0 .. MaxNow : t <= u => w[t] <= w[u]
    /\ \A t, u \in 1 .. MaxNow : t < u /\ b[t] >= 0 /\ b[u] > b[t] => w[u] > w[t]

\* The buckets b2, w2 were read when b, w had been, or later.
Later(b, w, b2, w2) ==
    /\ \A t \in 0 .. MaxNow : w[t] <= w2[t]
    /\ \A t \in 1 .. MaxNow : b[t] # H!NoBucket => b2[t] # H!NoBucket
    /\ \A t, u \in 1 .. MaxNow : t <= u /\ b[t] >= 0 /\ b2[u] > b[t] => w2[u] > w[t]

\* A device at hour n: its buckets, hours worked and counter.
DeviceOK(b, w, h, n) ==
    /\ Grown(b, w) /\ h \in Nat /\ n \in 1 .. MaxNow
    /\ \A t \in 1 .. MaxNow : b[t] # H!NoBucket => t <= n
    /\ \A t \in 1 .. MaxNow : b[t] >= 0 /\ h > b[t] => w[n] > w[t]
    /\ \A t \in n .. MaxNow : w[t] = w[n]

\* What a round that began at hour at has read of it.
ReadOK(rb, rw, at, b, w, h, n) ==
    /\ Grown(rb, rw) /\ Later(rb, rw, b, w) /\ at \in 1 .. n
    /\ \A t \in 1 .. MaxNow : rb[t] # H!NoBucket => t <= at
    /\ \A t \in 1 .. MaxNow : rb[t] >= 0 /\ h > rb[t] => w[n] > rw[t]
    /\ \A t \in 0 .. at - 1 : rw[t] = w[t]

\* A charge e, and the buckets it has not counted yet.
Uncounted(e, b, w) ==
    \A t \in 1 .. MaxNow : t > e.lastTs /\ b[t] # H!NoBucket =>
        w[t] >= e.done /\ (e.lastHours >= 0 /\ b[t] > e.lastHours => w[t] > e.done)
ChargeOK(e, b, w, h, n) ==
    /\ {"lastTs", "lastHours", "used", "since", "done"} \subseteq DOMAIN e
    /\ e.lastTs \in 0 .. n /\ e.lastHours \in Nat \cup {H!Absent} /\ {e.used, e.since, e.done} \subseteq Int
    /\ e.used <= e.done - e.since /\ e.done <= w[e.lastTs]
    /\ e.lastHours >= 0 /\ h > e.lastHours => w[n] > e.done
    /\ Uncounted(e, b, w)

\* What an hour, a frame or another module makes of a device.
DeviceStep(b, w, h, n, b2, w2, h2, n2) ==
    \/ n2 = n + 1 /\ n2 \in 1 .. MaxNow /\ b2 = b /\ w2 = w /\ h2 = h
    \/ /\ n2 = n /\ h2 = h + 1 /\ b2 = [b EXCEPT ![n] = h + 1]
       /\ w2 = [t \in 0 .. MaxNow |-> IF t >= n THEN w[n] + 1 ELSE w[t]]
    \/ n2 = n /\ h2 = h /\ w2 = w /\ b2 = [b EXCEPT ![n] = h]
    \/ n2 = n /\ h2 = h /\ w2 = w /\ b[n] = H!NoBucket /\ b2 = [b EXCEPT ![n] = H!NoHours]
    \/ n2 = n /\ h2 = 0 /\ w2 = w /\ b2 = b
    \/ n2 = n /\ h2 = h /\ w2 = w /\ b2 = b

\* The numbers in buckets and hours
LEMMA GrownTypes ==
    ASSUME MaxNow \in Nat, NEW b, NEW w, Grown(b, w)
    PROVE  /\ \A t \in 1 .. MaxNow : b[t] \in Int /\ b[t] >= -2
           /\ \A t \in 0 .. MaxNow : w[t] \in Nat
           /\ \A t \in 1 .. MaxNow : t \in 0 .. MaxNow
BY DEF Grown, Buckets, HoursWorked, H!NoHours, H!NoBucket

\* What is read again at once is the same.
LEMMA SameLater == ASSUME MaxNow \in Nat, NEW b, NEW w, Grown(b, w) PROVE Later(b, w, b, w)
<1>1. \A t \in 0 .. MaxNow : w[t] <= w[t]
  BY GrownTypes
<1>2. ASSUME NEW t \in 1 .. MaxNow, NEW u \in 1 .. MaxNow, t <= u, b[t] >= 0, b[u] > b[t] PROVE w[u] > w[t]
  <2>1. b[t] \in Int /\ b[u] \in Int
    BY GrownTypes
  <2>2. t < u
    BY <1>2, <2>1
  <2> QED BY <1>2, <2>2 DEF Grown
<1> QED BY <1>1, <1>2 DEF Later

LEMMA DeviceStays ==
    ASSUME MaxNow \in Nat, NEW b, NEW w, NEW h, NEW n, DeviceOK(b, w, h, n),
           NEW b2, NEW w2, NEW h2, NEW n2, DeviceStep(b, w, h, n, b2, w2, h2, n2)
    PROVE  DeviceOK(b2, w2, h2, n2) /\ Later(b, w, b2, w2) /\ n <= n2 /\ \A t \in 0 .. n - 1 : w2[t] = w[t]
<1>1. n \in 1 .. MaxNow /\ n \in 0 .. MaxNow /\ h \in Nat /\ Grown(b, w) /\ b \in Buckets /\ w \in HoursWorked
  BY DEF DeviceOK, Grown
<1>2. /\ \A t \in 1 .. MaxNow : b[t] \in Int /\ b[t] >= -2
      /\ \A t \in 0 .. MaxNow : w[t] \in Nat
      /\ \A t \in 1 .. MaxNow : t \in 0 .. MaxNow
  BY <1>1, GrownTypes
<1>3. /\ \A t, u \in 0 .. MaxNow : t <= u => w[t] <= w[u]
      /\ \A t, u \in 1 .. MaxNow : t < u /\ b[t] >= 0 /\ b[u] > b[t] => w[u] > w[t]
      /\ \A t \in 1 .. MaxNow : b[t] # -2 => t <= n
      /\ \A t \in 1 .. MaxNow : b[t] >= 0 /\ h > b[t] => w[n] > w[t]
      /\ \A t \in n .. MaxNow : w[t] = w[n]
  BY DEF DeviceOK, Grown, H!NoBucket
<1>4. Later(b, w, b, w)
  BY <1>1, SameLater
<1>5. CASE n2 = n + 1 /\ n2 \in 1 .. MaxNow /\ b2 = b /\ w2 = w /\ h2 = h
  <2>1. n2 \in n .. MaxNow /\ \A t \in n2 .. MaxNow : t \in n .. MaxNow
    BY <1>1, <1>5
  <2>2. w[n2] = w[n] /\ \A t \in n2 .. MaxNow : w[t] = w[n2]
    BY <1>3, <2>1
  <2>3. \A t \in 1 .. MaxNow : b[t] # -2 => t <= n2
    BY <1>1, <1>3, <1>5
  <2> QED BY <1>1, <1>3, <1>4, <1>5, <2>2, <2>3 DEF DeviceOK, H!NoBucket
\* A frame with the counter c of hour n, before which worked[n] was w[n].
<1>6. ASSUME NEW c \in Nat, NEW m \in HoursWorked, b2 = [b EXCEPT ![n] = c], n2 = n, h2 = c,
             \A t \in 0 .. MaxNow : w[t] <= m[t] /\ (t < n => m[t] = w[t]) /\ (t >= n => m[t] = m[n]), w2 = m,
             \A t \in 1 .. MaxNow : b[t] >= 0 /\ c > b[t] => m[n] > w[t]
      PROVE  DeviceOK(b2, w2, h2, n2) /\ Later(b, w, b2, w2) /\ n <= n2 /\ \A t \in 0 .. n - 1 : w2[t] = w[t]
  <2>1. b2 \in Buckets /\ \A t \in 1 .. MaxNow : b2[t] = IF t = n THEN c ELSE b[t]
    BY <1>1, <1>6 DEF Buckets
  <2>2. \A t \in 0 .. MaxNow : m[t] \in Nat
    BY DEF HoursWorked
  <2>3. \A t, u \in 0 .. MaxNow : t <= u => m[t] <= m[u]
    <3> SUFFICES ASSUME NEW t \in 0 .. MaxNow, NEW u \in 0 .. MaxNow, t <= u PROVE m[t] <= m[u]
      OBVIOUS
    <3>1. CASE t >= n
      BY <1>1, <1>6, <2>2, <3>1
    <3>2. CASE ~(t >= n)
      <4>1. m[t] = w[t] /\ w[t] <= w[u] /\ w[u] <= m[u]
        BY <1>1, <1>3, <1>6, <3>2
      <4> QED BY <1>2, <2>2, <4>1
    <3> QED BY <3>1, <3>2
  <2>4. \A t \in 1 .. MaxNow : b[t] # -2 => t <= n
    BY <1>3
  <2>5. \A t \in 1 .. MaxNow : t < n => m[t] = w[t]
    BY <1>2, <1>6
  <2>6. \A t, u \in 1 .. MaxNow : t <= u /\ b[t] >= 0 /\ b2[u] > b[t] => m[u] > w[t]
    <3> SUFFICES ASSUME NEW t \in 1 .. MaxNow, NEW u \in 1 .. MaxNow, t <= u, b[t] >= 0, b2[u] > b[t] PROVE m[u] > w[t]
      OBVIOUS
    <3>1. CASE u = n
      BY <1>6, <2>1, <3>1
    <3>2. CASE u # n
      <4>1. b[u] > b[t] /\ t < u
        BY <1>2, <2>1, <3>2
      <4>2. w[u] > w[t] /\ w[u] <= m[u]
        BY <1>2, <1>3, <1>6, <4>1
      <4> QED BY <1>2, <2>2, <4>2
    <3> QED BY <3>1, <3>2
  <2>7. Later(b, w, b2, m)
    <3>1. \A t \in 1 .. MaxNow : b[t] # -2 => b2[t] # -2
      BY <2>1
    <3> QED BY <1>6, <2>6, <3>1 DEF Later, H!NoBucket
  <2>8. \A t, u \in 1 .. MaxNow : t < u /\ b2[t] >= 0 /\ b2[u] > b2[t] => m[u] > m[t]
    <3> SUFFICES ASSUME NEW t \in 1 .. MaxNow, NEW u \in 1 .. MaxNow, t < u, b2[t] >= 0, b2[u] > b2[t] PROVE m[u] > m[t]
      OBVIOUS
    <3>1. u <= n
      BY <1>2, <2>1, <2>4
    <3>2. t < n /\ b2[t] = b[t] /\ m[t] = w[t]
      BY <1>1, <2>1, <2>5, <3>1
    <3> QED BY <2>6, <3>2
  <2>9. \A t \in 1 .. MaxNow : b2[t] >= 0 /\ c > b2[t] => m[n] > m[t]
    <3> SUFFICES ASSUME NEW t \in 1 .. MaxNow, b2[t] >= 0, c > b2[t] PROVE m[n] > m[t]
      OBVIOUS
    <3>1. t # n /\ b2[t] = b[t]
      BY <2>1
    <3>2. t < n /\ m[t] = w[t]
      BY <1>1, <1>2, <2>4, <2>5, <3>1
    <3> QED BY <1>6, <3>1, <3>2
  <2>10. Grown(b2, m)
    BY <2>1, <2>3, <2>8 DEF Grown
  <2>11. (\A t \in 1 .. MaxNow : b2[t] # -2 => t <= n) /\ (\A t \in n .. MaxNow : m[t] = m[n])
    BY <1>1, <1>6, <2>1, <2>4
  <2>12. \A t \in 0 .. n - 1 : m[t] = w[t]
    BY <1>1, <1>6
  <2> QED BY <1>1, <1>6, <2>7, <2>9, <2>10, <2>11, <2>12 DEF DeviceOK, H!NoBucket
<1>7. CASE /\ n2 = n /\ h2 = h + 1 /\ b2 = [b EXCEPT ![n] = h + 1]
           /\ w2 = [t \in 0 .. MaxNow |-> IF t >= n THEN w[n] + 1 ELSE w[t]]
  <2> DEFINE m == [t \in 0 .. MaxNow |-> IF t >= n THEN w[n] + 1 ELSE w[t]]
  <2>1. w[n] \in Nat
    BY <1>1, <1>2
  <2>2. m \in HoursWorked
    BY <1>2, <2>1 DEF HoursWorked
  <2>3. \A t \in 0 .. MaxNow : m[t] = (IF t >= n THEN w[n] + 1 ELSE w[t]) /\ (t >= n => w[t] = w[n])
    BY <1>1, <1>3
  <2> HIDE DEF m
  <2>4. \A t \in 0 .. MaxNow : w[t] <= m[t] /\ (t < n => m[t] = w[t]) /\ (t >= n => m[t] = m[n])
    BY <1>1, <1>2, <2>1, <2>3
  <2>5. \A t \in 1 .. MaxNow : b[t] >= 0 /\ h + 1 > b[t] => m[n] > w[t]
    <3> SUFFICES ASSUME NEW t \in 1 .. MaxNow, b[t] >= 0 PROVE m[n] > w[t]
      OBVIOUS
    <3>1. w[t] <= w[n] /\ w[t] \in Nat
      BY <1>1, <1>2, <1>3
    <3> QED BY <1>1, <2>1, <2>3, <3>1
  <2>6. w2 = m /\ h + 1 \in Nat
    BY <1>1, <1>7 DEF m
  <2> QED BY <1>6, <1>7, <2>2, <2>4, <2>5, <2>6
<1>8. CASE n2 = n /\ h2 = h /\ w2 = w /\ b2 = [b EXCEPT ![n] = h]
  <2>1. \A t \in 0 .. MaxNow : w[t] <= w[t] /\ (t < n => w[t] = w[t]) /\ (t >= n => w[t] = w[n])
    BY <1>1, <1>2, <1>3
  <2> QED BY <1>1, <1>3, <1>6, <1>8, <2>1
<1>9. CASE n2 = n /\ h2 = h /\ w2 = w /\ b[n] = H!NoBucket /\ b2 = [b EXCEPT ![n] = H!NoHours]
  <2>1. b2 \in Buckets /\ \A t \in 1 .. MaxNow : b2[t] = (IF t = n THEN -1 ELSE b[t]) /\ (t = n => b[t] = -2)
    BY <1>1, <1>9 DEF Buckets, H!NoBucket, H!NoHours
  <2>3. \A t, u \in 1 .. MaxNow : t <= u /\ b[t] >= 0 /\ b2[u] > b[t] => w[u] > w[t]
    <3> SUFFICES ASSUME NEW t \in 1 .. MaxNow, NEW u \in 1 .. MaxNow, t <= u, b[t] >= 0, b2[u] > b[t] PROVE w[u] > w[t]
      OBVIOUS
    <3>1. u # n /\ b2[u] = b[u]
      BY <1>2, <2>1
    <3>2. t < u
      BY <1>2, <3>1
    <3> QED BY <1>3, <3>1, <3>2
  <2>2. Grown(b2, w)
    <3>1. \A t, u \in 1 .. MaxNow : t < u /\ b2[t] >= 0 /\ b2[u] > b2[t] => w[u] > w[t]
      BY <2>1, <2>3
    <3> QED BY <1>1, <1>3, <2>1, <3>1 DEF Grown
  <2>4. Later(b, w, b2, w)
    BY <1>2, <2>1, <2>3 DEF Later, H!NoBucket
  <2>5. \A t \in 1 .. MaxNow : b2[t] >= 0 /\ h > b2[t] => w[n] > w[t]
    BY <1>3, <2>1
  <2>6. \A t \in 1 .. MaxNow : b2[t] # -2 => t <= n
    BY <1>1, <1>3, <2>1
  <2> QED BY <1>1, <1>3, <1>9, <2>2, <2>4, <2>5, <2>6 DEF DeviceOK, H!NoBucket
<1>10. CASE n2 = n /\ h2 = 0 /\ w2 = w /\ b2 = b
  <2>1. \A t \in 1 .. MaxNow : b[t] >= 0 /\ 0 > b[t] => w[n] > w[t]
    BY <1>2
  <2> QED BY <1>1, <1>3, <1>4, <1>10, <2>1 DEF DeviceOK, H!NoBucket
<1>11. CASE n2 = n /\ h2 = h /\ w2 = w /\ b2 = b
  BY <1>1, <1>4, <1>11
<1> QED BY <1>5, <1>7, <1>8, <1>9, <1>10, <1>11 DEF DeviceStep

\* A counter x that was read when y hours had been worked stays behind.
LEMMA CounterStays ==
    ASSUME MaxNow \in Nat, NEW b, NEW w, NEW h, NEW n, DeviceOK(b, w, h, n),
           NEW b2, NEW w2, NEW h2, NEW n2, DeviceStep(b, w, h, n, b2, w2, h2, n2),
           NEW x \in Int, NEW y \in Int, y <= w[n], x >= 0 /\ h > x => w[n] > y
    PROVE  /\ y <= w2[n2] /\ (x >= 0 /\ h2 > x => w2[n2] > y)
           /\ \A u \in 1 .. MaxNow : b2[u] = b[u] \/ (w2[u] >= y /\ (x >= 0 /\ b2[u] > x => w2[u] > y))
<1>1. /\ n \in 1 .. MaxNow /\ n \in 0 .. MaxNow /\ h \in Nat /\ w[n] \in Nat /\ DOMAIN b = 1 .. MaxNow
      /\ \A t \in n .. MaxNow : w[t] = w[n]
  BY GrownTypes DEF DeviceOK, Grown, Buckets
<1>2. CASE n2 = n + 1 /\ n2 \in 1 .. MaxNow /\ b2 = b /\ w2 = w /\ h2 = h
  <2>1. n2 \in n .. MaxNow
    BY <1>1, <1>2
  <2> QED BY <1>1, <1>2, <2>1
<1>3. CASE /\ n2 = n /\ h2 = h + 1 /\ b2 = [b EXCEPT ![n] = h + 1]
           /\ w2 = [t \in 0 .. MaxNow |-> IF t >= n THEN w[n] + 1 ELSE w[t]]
  <2>1. w2[n] = w[n] + 1
    BY <1>1, <1>3
  <2>2. \A u \in 1 .. MaxNow : b2[u] = b[u] \/ u = n
    BY <1>1, <1>3
  <2> QED BY <1>1, <1>3, <2>1, <2>2
<1>4. CASE n2 = n /\ h2 = h /\ w2 = w /\ b2 = [b EXCEPT ![n] = h]
  <2>1. \A u \in 1 .. MaxNow : b2[u] = b[u] \/ (u = n /\ b2[u] = h)
    BY <1>1, <1>4
  <2> QED BY <1>1, <1>4, <2>1
<1>5. CASE n2 = n /\ h2 = h /\ w2 = w /\ b[n] = H!NoBucket /\ b2 = [b EXCEPT ![n] = H!NoHours]
  <2>1. \A u \in 1 .. MaxNow : b2[u] = b[u] \/ (u = n /\ b2[u] = -1)
    BY <1>1, <1>5 DEF H!NoHours
  <2> QED BY <1>1, <1>5, <2>1
<1>6. CASE n2 = n /\ h2 = 0 /\ w2 = w /\ b2 = b
  BY <1>6
<1>7. CASE n2 = n /\ h2 = h /\ w2 = w /\ b2 = b
  BY <1>7
<1> QED BY <1>2, <1>3, <1>4, <1>5, <1>6, <1>7 DEF DeviceStep

\* What a round has read stays right while the device goes on.
LEMMA ReadStays ==
    ASSUME MaxNow \in Nat, NEW b, NEW w, NEW h, NEW n, DeviceOK(b, w, h, n),
           NEW b2, NEW w2, NEW h2, NEW n2, DeviceStep(b, w, h, n, b2, w2, h2, n2),
           NEW rb, NEW rw, NEW at, ReadOK(rb, rw, at, b, w, h, n)
    PROVE  ReadOK(rb, rw, at, b2, w2, h2, n2)
<1>1. /\ DeviceOK(b2, w2, h2, n2) /\ Later(b, w, b2, w2) /\ n <= n2
      /\ \A t \in 0 .. n - 1 : w2[t] = w[t]
  BY DeviceStays
<1>2. Grown(b, w) /\ Grown(b2, w2) /\ Grown(rb, rw) /\ n \in 1 .. MaxNow /\ n2 \in 1 .. MaxNow /\ at \in 1 .. n
  BY <1>1 DEF DeviceOK, ReadOK
<1>3. /\ \A t \in 1 .. MaxNow : b[t] \in Int /\ b2[t] \in Int /\ rb[t] \in Int
      /\ \A t \in 0 .. MaxNow : w[t] \in Nat /\ w2[t] \in Nat /\ rw[t] \in Nat
      /\ \A t \in 1 .. MaxNow : t \in 0 .. MaxNow
  BY <1>2, GrownTypes
<1>4. /\ \A t \in 0 .. MaxNow : rw[t] <= w[t] /\ w[t] <= w2[t]
      /\ \A t \in 1 .. MaxNow : rb[t] # H!NoBucket => b2[t] # H!NoBucket
      /\ \A t, u \in 1 .. MaxNow : t <= u /\ rb[t] >= 0 /\ b[u] > rb[t] => w[u] > rw[t]
      /\ \A t \in 1 .. MaxNow : rb[t] # H!NoBucket => t <= at
      /\ \A t \in 1 .. MaxNow : rb[t] >= 0 /\ h > rb[t] => w[n] > rw[t]
      /\ \A t \in 0 .. at - 1 : rw[t] = w[t]
      /\ \A t, u \in 0 .. MaxNow : t <= u => w[t] <= w[u]
  BY <1>1 DEF ReadOK, Later, DeviceOK, Grown
<1>5. ASSUME NEW t \in 1 .. MaxNow, rb[t] >= 0
      PROVE  /\ h2 > rb[t] => w2[n2] > rw[t]
             /\ \A u \in 1 .. MaxNow : b2[u] = b[u] \/ (b2[u] > rb[t] => w2[u] > rw[t])
  <2>1. t <= n /\ rb[t] \in Int /\ rw[t] \in Int
    BY <1>2, <1>3, <1>4, <1>5 DEF H!NoBucket
  <2>2. rw[t] <= w[n] /\ (h > rb[t] => w[n] > rw[t])
    <3>1. rw[t] <= w[t] /\ w[t] <= w[n] /\ w[t] \in Nat /\ w[n] \in Nat
      BY <1>2, <1>3, <1>4, <2>1
    <3> QED BY <1>4, <1>5, <2>1, <3>1
  <2> QED BY <1>5, <2>1, <2>2, CounterStays
<1>6. ASSUME NEW t \in 1 .. MaxNow, NEW u \in 1 .. MaxNow, t <= u, rb[t] >= 0, b2[u] > rb[t] PROVE w2[u] > rw[t]
  <2>1. CASE b2[u] = b[u]
    <3>1. w[u] > rw[t] /\ w[u] <= w2[u]
      BY <1>3, <1>4, <1>6, <2>1
    <3> QED BY <1>3, <3>1
  <2>2. CASE b2[u] # b[u]
    BY <1>5, <1>6, <2>2
  <2> QED BY <2>1, <2>2
<1>7. \A t \in 0 .. MaxNow : rw[t] <= w2[t]
  <2> SUFFICES ASSUME NEW t \in 0 .. MaxNow PROVE rw[t] <= w2[t]
    OBVIOUS
  <2>1. rw[t] \in Nat /\ w[t] \in Nat /\ w2[t] \in Nat /\ rw[t] <= w[t] /\ w[t] <= w2[t]
    BY <1>3, <1>4
  <2> QED BY <2>1
<1>8. Later(rb, rw, b2, w2)
  BY <1>4, <1>6, <1>7 DEF Later
<1>9. at \in 1 .. n2 /\ \A t \in 0 .. at - 1 : rw[t] = w2[t]
  <2>1. \A t \in 0 .. at - 1 : t \in 0 .. n - 1
    BY <1>2
  <2> QED BY <1>1, <1>2, <1>4, <2>1
<1> QED BY <1>2, <1>4, <1>5, <1>8, <1>9 DEF ReadOK

\* So does a charge.
LEMMA ChargeStays ==
    ASSUME MaxNow \in Nat, NEW b, NEW w, NEW h, NEW n, DeviceOK(b, w, h, n),
           NEW b2, NEW w2, NEW h2, NEW n2, DeviceStep(b, w, h, n, b2, w2, h2, n2),
           NEW e, ChargeOK(e, b, w, h, n)
    PROVE  ChargeOK(e, b2, w2, h2, n2)
<1>1. DeviceOK(b2, w2, h2, n2) /\ Later(b, w, b2, w2) /\ n <= n2
  BY DeviceStays
<1>2. Grown(b, w) /\ Grown(b2, w2) /\ n \in 1 .. MaxNow /\ n2 \in 1 .. MaxNow
  BY <1>1 DEF DeviceOK
<1>3. /\ \A t \in 1 .. MaxNow : b[t] \in Int /\ b2[t] \in Int
      /\ \A t \in 0 .. MaxNow : w[t] \in Nat /\ w2[t] \in Nat /\ w[t] <= w2[t]
      /\ \A t \in 1 .. MaxNow : t \in 0 .. MaxNow
      /\ \A t, u \in 0 .. MaxNow : t <= u => w[t] <= w[u]
  BY <1>1, <1>2, GrownTypes DEF Later, DeviceOK, Grown
<1>4. /\ e.lastTs \in 0 .. n /\ e.lastHours \in Int /\ {e.used, e.since, e.done} \subseteq Int
      /\ e.used <= e.done - e.since /\ e.done <= w[e.lastTs]
      /\ e.lastHours >= 0 /\ h > e.lastHours => w[n] > e.done
      /\ Uncounted(e, b, w)
  BY DEF ChargeOK, H!Absent
<1>5. e.lastTs \in 0 .. MaxNow /\ n \in 0 .. MaxNow /\ e.lastTs <= n /\ e.lastTs \in 0 .. n2
  BY <1>1, <1>2, <1>4
<1>6. e.done <= w[n] /\ e.done <= w2[e.lastTs]
  <2>1. w[e.lastTs] <= w[n] /\ w[e.lastTs] <= w2[e.lastTs] /\ w[e.lastTs] \in Nat /\ w[n] \in Nat
        /\ w2[e.lastTs] \in Nat
    BY <1>3, <1>5
  <2> QED BY <1>4, <2>1
<1>7. /\ e.lastHours >= 0 /\ h2 > e.lastHours => w2[n2] > e.done
      /\ \A u \in 1 .. MaxNow : \/ b2[u] = b[u]
                                \/ w2[u] >= e.done /\ (e.lastHours >= 0 /\ b2[u] > e.lastHours => w2[u] > e.done)
  <2> DEFINE x == e.lastHours
             y == e.done
  <2>1. x \in Int /\ y \in Int /\ y <= w[n] /\ (x >= 0 /\ h > x => w[n] > y)
    BY <1>4, <1>6
  <2> HIDE DEF x, y
  <2>2. /\ x >= 0 /\ h2 > x => w2[n2] > y
        /\ \A u \in 1 .. MaxNow : b2[u] = b[u] \/ (w2[u] >= y /\ (x >= 0 /\ b2[u] > x => w2[u] > y))
    BY <2>1, CounterStays
  <2> QED BY <2>2 DEF x, y
<1>8. Uncounted(e, b2, w2)
  <2> SUFFICES ASSUME NEW t \in 1 .. MaxNow, t > e.lastTs, b2[t] # H!NoBucket
               PROVE  w2[t] >= e.done /\ (e.lastHours >= 0 /\ b2[t] > e.lastHours => w2[t] > e.done)
    BY DEF Uncounted
  <2>1. CASE b2[t] = b[t]
    <3>1. /\ w[t] >= e.done /\ (e.lastHours >= 0 /\ b[t] > e.lastHours => w[t] > e.done)
          /\ w[t] \in Nat /\ w2[t] \in Nat /\ w[t] <= w2[t]
      BY <1>3, <1>4, <2>1 DEF Uncounted
    <3> QED BY <1>4, <2>1, <3>1
  <2> QED BY <1>7, <2>1
<1> QED BY <1>4, <1>5, <1>6, <1>7, <1>8 DEF ChargeOK

\* What a round has read bounds what it charges, from its own first bucket on or
\* from the counter x of an earlier round.
LEMMA ReadBound ==
    ASSUME MaxNow \in Nat, NEW rb, NEW rw, Grown(rb, rw), NEW n \in Nat \ {0}, NEW p, NEW read,
           read = [i \in 1 .. n |-> rb[p[i]]], \A i \in 1 .. n : p[i] \in 1 .. MaxNow /\ rb[p[i]] >= 0,
           \A i, j \in 1 .. n : i <= j => p[i] <= p[j], \A i \in 2 .. n : p[i - 1] < p[i]
    PROVE  /\ TotalCharge(read) \in Nat /\ TotalCharge(read) <= rw[p[n]] - rw[p[1]]
           /\ \A x, y \in Int : y <= rw[p[1]] /\ (rb[p[1]] > x => rw[p[1]] > y) =>
                TotalCharge(<<x>> \o read) \in Nat /\ TotalCharge(<<x>> \o read) <= rw[p[n]] - y
<1>1. /\ \A t \in 1 .. MaxNow : rb[t] \in Int /\ t \in 0 .. MaxNow
      /\ \A t \in 0 .. MaxNow : rw[t] \in Nat
      /\ \A t, u \in 0 .. MaxNow : t <= u => rw[t] <= rw[u]
      /\ \A t, u \in 1 .. MaxNow : t < u /\ rb[t] >= 0 /\ rb[u] > rb[t] => rw[u] > rw[t]
  BY GrownTypes DEF Grown
<1>2. Len(read) = n /\ read \in Seq(Int) /\ \A i \in 1 .. n : read[i] = rb[p[i]] /\ read[i] \in Int
  BY <1>1
<1> DEFINE v == [i \in 1 .. n |-> rw[p[i]]]
<1>3. \A i \in 1 .. n : v[i] = rw[p[i]] /\ v[i] \in Int
  BY <1>1
<1>4. \A i, j \in 1 .. n : i <= j => v[i] <= v[j]
  BY <1>1
<1> HIDE DEF v
<1>5. \A i \in 2 .. n : i \in 1 .. n /\ i - 1 \in 1 .. n
  OBVIOUS
<1>6. \A i \in 2 .. n : read[i] > read[i - 1] => v[i] > v[i - 1]
  BY <1>1, <1>2, <1>3, <1>5
<1>7. TotalCharge(read) \in Nat /\ TotalCharge(read) <= rw[p[n]] - rw[p[1]]
  <2>1. TotalCharge(read) \in Nat /\ TotalCharge(read) <= v[n] - v[1]
    BY <1>2, <1>3, <1>4, <1>6, ChargeBound
  <2> QED BY <1>3, <2>1
<1>8. ASSUME NEW x \in Int, NEW y \in Int, y <= rw[p[1]], rb[p[1]] > x => rw[p[1]] > y
      PROVE  TotalCharge(<<x>> \o read) \in Nat /\ TotalCharge(<<x>> \o read) <= rw[p[n]] - y
  <2> DEFINE c == <<x>> \o read
             m == n + 1
             z == [i \in 1 .. m |-> IF i = 1 THEN y ELSE v[i - 1]]
  <2>1. Len(c) = m /\ \A i \in 1 .. m : c[i] = IF i = 1 THEN x ELSE read[i - 1]
    BY <1>2
  <2>2. m \in Nat \ {0} /\ 1 \in 1 .. n /\ n \in 1 .. n /\ \A i \in 1 .. m : i = 1 \/ i - 1 \in 1 .. n
    OBVIOUS
  <2>3. \A i \in 1 .. m : z[i] = IF i = 1 THEN y ELSE v[i - 1]
    OBVIOUS
  <2> HIDE DEF c, z
  <2>4. \A i \in 1 .. m : c[i] \in Int /\ z[i] \in Int
    BY <1>2, <1>3, <2>1, <2>2, <2>3
  <2>5. ASSUME NEW i \in 1 .. m, NEW j \in 1 .. m, i <= j PROVE z[i] <= z[j]
    <3>1. CASE i = 1 /\ j = 1
      BY <2>4, <3>1
    <3>2. CASE i = 1 /\ j # 1
      <4>1. j - 1 \in 1 .. n /\ 1 <= j - 1
        BY <3>2
      <4>2. v[1] <= v[j - 1] /\ y <= v[1]
        BY <1>3, <1>4, <1>8, <2>2, <4>1
      <4> QED BY <1>3, <2>2, <2>3, <3>2, <4>1, <4>2
    <3>3. CASE i # 1
      <4>1. i - 1 \in 1 .. n /\ j - 1 \in 1 .. n /\ i - 1 <= j - 1 /\ j # 1
        BY <2>5, <3>3
      <4> QED BY <1>4, <2>3, <3>3, <4>1
    <3> QED BY <3>1, <3>2, <3>3
  <2>6. ASSUME NEW i \in 2 .. m, c[i] > c[i - 1] PROVE z[i] > z[i - 1]
    <3>1. i \in 1 .. m /\ i - 1 \in 1 .. m /\ i # 1 /\ i - 1 \in 1 .. n
      OBVIOUS
    <3>2. CASE i = 2
      BY <1>2, <1>3, <1>8, <2>1, <2>2, <2>3, <2>6, <3>1, <3>2
    <3>3. CASE i # 2
      <4>1. i - 1 \in 2 .. n /\ i - 1 # 1 /\ i - 1 - 1 \in 1 .. n
        BY <3>3
      <4>2. c[i] = read[i - 1] /\ c[i - 1] = read[i - 1 - 1] /\ z[i] = v[i - 1] /\ z[i - 1] = v[i - 1 - 1]
        BY <2>1, <2>3, <3>1, <4>1
      <4> QED BY <1>6, <2>6, <4>1, <4>2
    <3> QED BY <3>2, <3>3
  <2>7. TotalCharge(c) \in Nat /\ TotalCharge(c) <= z[m] - z[1]
    <3> HIDE DEF m
    <3> QED BY <2>1, <2>2, <2>4, <2>5, <2>6, ChargeBound
  <2>8. z[m] = rw[p[n]] /\ z[1] = y
    BY <1>3, <2>2, <2>3
  <2> QED BY <2>7, <2>8 DEF c
<1> QED BY <1>7, <1>8

\* scoreDevice: what a device is charged stays below the hours it worked, however
\* old the buckets are that the round has read.
LEMMA UpdateCharges ==
    ASSUME MaxNow \in Nat, NEW d, NEW prev, NEW e, NEW rb, NEW rw, NEW ot, NEW sh, NEW at, NEW b, NEW h, NEW n,
           DeviceOK(b, worked[d], h, n), ReadOK(rb, rw, at, b, worked[d], h, n),
           ChargeOK(e, b, worked[d], h, n), Uncounted(e, rb, rw),
           H!Update(d, prev, e, rb, rw, ot, sh).kind = "write"
    PROVE  /\ ChargeOK(H!Update(d, prev, e, rb, rw, ot, sh).explain, b, worked[d], h, n)
           /\ \A b2, w2 : Grown(b2, w2) /\ (Later(b2, w2, rb, rw) \/ Later(rb, rw, b2, w2)) =>
                Uncounted(H!Update(d, prev, e, rb, rw, ot, sh).explain, b2, w2)
<1> DEFINE fresh == H!NewBuckets(e, rb)
           v == Carrying(fresh, rb)
           model == IF sh.model # "" THEN sh.model ELSE e.model
           read == H!HoursOf(fresh, rb)
           swapped == H!DetectSwap(e.model, model,
                          IF e.lastHours = H!Absent THEN read ELSE <<e.lastHours>> \o read)
           chain == IF e.lastHours = H!Absent \/ swapped THEN read ELSE <<e.lastHours>> \o read
           used == (IF swapped THEN 0 ELSE e.used) + TotalCharge(chain)
           before == IF swapped THEN H!Absent ELSE prev
           health == H!Kept(before, H!Score(used, ot), swapped)
           above == IF before = H!Absent THEN 101 ELSE before
           since == IF swapped THEN worked[d][e.lastTs] ELSE e.since
           m == [lastTs |-> H!Max(fresh), lastHours |-> read[Len(read)], used |-> used,
                 model |-> model, levels |-> IF swapped THEN {} ELSE e.levels,
                 life |-> IF swapped THEN e.life + 1 ELSE e.life, since |-> since,
                 done |-> rw[H!Max(v)]]
           written == [kind |-> "write", d |-> d, swapped |-> swapped, health |-> health, prev |-> above,
                       working |-> sh.working, optout |-> sh.optout, explain |-> m]
           u == H!Update(d, prev, e, rb, rw, ot, sh)
           w == worked[d]
<1>1. u = written /\ fresh # {} /\ read # <<>>
  <2>1. u = CASE fresh = {} -> [kind |-> "unchanged"]
              [] fresh # {} /\ (~sh.ok \/ model = "" \/ read = <<>>) -> [kind |-> "skip"]
              [] OTHER -> written
    BY DEF H!Update, TotalCharge, Carrying
  <2>2. u.kind = "write"
    OBVIOUS
  <2> HIDE DEF u, fresh, v, model, read, swapped, chain, used, before, health, above, since, m
  <2>3. CASE fresh = {}
    BY <2>1, <2>2, <2>3
  <2>4. CASE fresh # {} /\ (~sh.ok \/ model = "" \/ read = <<>>)
    BY <2>1, <2>2, <2>4
  <2>5. CASE fresh # {} /\ ~(~sh.ok \/ model = "" \/ read = <<>>)
    BY <2>1, <2>5
  <2> QED BY <2>3, <2>4, <2>5
<1>2. u.explain = m
  <2> HIDE DEF m, swapped, health, above, u
  <2> QED BY <1>1
<1>3. m.lastTs = H!Max(fresh) /\ m.lastHours = read[Len(read)] /\ m.used = used /\ m.since = since
      /\ m.done = rw[H!Max(v)] /\ {"lastTs", "lastHours", "used", "since", "done"} \subseteq DOMAIN m
  <2> HIDE DEF fresh, v, model, read, swapped, used, since
  <2> QED OBVIOUS
<1> HIDE DEF u, m, written, health, above, before, swapped, model
<1>4. /\ \A t \in 1 .. MaxNow : rb[t] \in Int /\ rb[t] >= -2 /\ t \in 0 .. MaxNow
      /\ \A t \in 0 .. MaxNow : rw[t] \in Nat /\ w[t] \in Nat
      /\ \A t, u_ \in 0 .. MaxNow : t <= u_ => rw[t] <= rw[u_]
      /\ \A t, u_ \in 0 .. MaxNow : t <= u_ => w[t] <= w[u_]
      /\ Grown(rb, rw) /\ DOMAIN rb = 1 .. MaxNow
  BY GrownTypes DEF ReadOK, DeviceOK, Grown, Buckets
<1>5. /\ Later(rb, rw, b, w) /\ at \in 1 .. n /\ n \in 1 .. MaxNow /\ Grown(b, w)
      /\ \A t \in 1 .. MaxNow : rb[t] # -2 => t <= at
      /\ \A t \in 1 .. MaxNow : rb[t] >= 0 /\ h > rb[t] => w[n] > rw[t]
      /\ \A t \in 0 .. at - 1 : rw[t] = w[t]
      /\ \A t \in 0 .. MaxNow : rw[t] <= w[t]
  BY DEF ReadOK, DeviceOK, H!NoBucket, Later
<1>6. /\ e.lastTs \in 0 .. n /\ e.lastHours \in Int /\ e.lastHours >= -1 /\ {e.used, e.since, e.done} \subseteq Int
      /\ e.used <= e.done - e.since /\ e.done <= w[e.lastTs]
      /\ \A t \in 1 .. MaxNow : t > e.lastTs /\ rb[t] # -2 =>
           rw[t] >= e.done /\ (e.lastHours >= 0 /\ rb[t] > e.lastHours => rw[t] > e.done)
  BY DEF ChargeOK, H!Absent, H!NoBucket, Uncounted
<1>7. fresh = {t \in 1 .. MaxNow : rb[t] # -2 /\ t > e.lastTs}
  BY <1>4 DEF H!NewBuckets, H!NoBucket
<1>8. fresh \in SUBSET (0 .. MaxNow)
      /\ \A t \in v : t \in 1 .. MaxNow /\ t \in fresh /\ rb[t] >= 0
  BY <1>4, <1>7 DEF H!NoHours, Carrying
<1>9. PICK k, p :
         /\ k \in Nat /\ read = [i \in 1 .. k |-> rb[p[i]]]
         /\ \A i \in 1 .. k : p[i] \in v
         /\ \A i, j \in 1 .. k : i <= j => p[i] <= p[j]
         /\ \A i \in 2 .. k : p[i - 1] < p[i]
         /\ k > 0 => p[k] = H!Max(v)
         /\ k = 0 <=> v = {}
  <2> HIDE DEF fresh
  <2> QED BY <1>8, HoursInOrder
<1> DEFINE last == H!Max(v)
           first == p[1]
           top == H!Max(fresh)
<1>10. k \in Nat \ {0}
  <2>0. k \in Nat
    BY <1>9
  <2> SUFFICES ASSUME k = 0 PROVE FALSE
    BY <2>0
  <2>1. read = <<>>
    <3>1. read = [i \in 1 .. 0 |-> rb[p[i]]]
      <4> HIDE DEF read
      <4> QED BY <1>9
    <3>2. [i \in 1 .. 0 |-> rb[p[i]]] = <<>>
      OBVIOUS
    <3> HIDE DEF read
    <3> QED BY <3>1, <3>2
  <2> QED BY <1>1, <2>1
<1>11. last \in v /\ first \in v /\ p[k] = last /\ first <= last /\ Len(read) = k /\ read[k] = rb[last]
  <2>1. 1 \in 1 .. k /\ k \in 1 .. k /\ 1 <= k
    BY <1>10
  <2> HIDE DEF v, read
  <2> QED BY <1>9, <1>10, <2>1
<1>12. top \in fresh /\ \A t \in fresh : t <= top
  <2>1. fresh \subseteq 0 .. MaxNow
    BY <1>7
  <2> HIDE DEF fresh
  <2> QED BY <1>1, <2>1, Greatest, SameMax
<1> HIDE DEF fresh, v, last, first, top, read
<1>13. \A t \in fresh : t \in 1 .. MaxNow /\ rb[t] # -2 /\ t > e.lastTs /\ t <= at
  BY <1>5, <1>7
<1>14. last <= top /\ top \in 1 .. MaxNow /\ last \in 1 .. MaxNow /\ first \in 1 .. MaxNow /\ top <= n
  <2>1. last \in fresh /\ first \in fresh /\ top \in fresh
    BY <1>8, <1>11, <1>12
  <2>2. last <= top /\ top \in 1 .. MaxNow /\ last \in 1 .. MaxNow /\ first \in 1 .. MaxNow /\ top <= at
    BY <1>12, <1>13, <2>1
  <2> QED BY <1>5, <2>2
<1> HIDE DEF w
\* The charge.
<1>15. used \in Int /\ since \in Int /\ used <= rw[last] - since
  <2>1. /\ TotalCharge(read) \in Nat /\ TotalCharge(read) <= rw[last] - rw[first]
        /\ \A x, y \in Int : y <= rw[first] /\ (rb[first] > x => rw[first] > y) =>
             TotalCharge(<<x>> \o read) \in Nat /\ TotalCharge(<<x>> \o read) <= rw[last] - y
    <3>1. \A i \in 1 .. k : p[i] \in 1 .. MaxNow /\ rb[p[i]] >= 0
      BY <1>8, <1>9
    <3>2. /\ TotalCharge(read) \in Nat /\ TotalCharge(read) <= rw[p[k]] - rw[p[1]]
          /\ \A x, y \in Int : y <= rw[p[1]] /\ (rb[p[1]] > x => rw[p[1]] > y) =>
               TotalCharge(<<x>> \o read) \in Nat /\ TotalCharge(<<x>> \o read) <= rw[p[k]] - y
      BY <1>4, <1>9, <1>10, <3>1, ReadBound
    <3> QED BY <1>11, <3>2 DEF first
  <2>2. rw[last] \in Nat /\ rw[first] \in Nat /\ rw[first] >= e.done
        /\ (e.lastHours >= 0 /\ rb[first] > e.lastHours => rw[first] > e.done)
    BY <1>4, <1>6, <1>8, <1>11, <1>13, <1>14
  <2>3. CASE swapped
    <3>1. used = TotalCharge(read) /\ since = w[e.lastTs]
      BY <2>1, <2>3 DEF w
    <3>2. e.lastTs < at /\ e.lastTs \in 0 .. at - 1 /\ e.lastTs \in 0 .. MaxNow /\ e.lastTs < first
      BY <1>5, <1>6, <1>8, <1>11, <1>13, <1>14
    <3>3. w[e.lastTs] = rw[e.lastTs] /\ rw[e.lastTs] <= rw[first] /\ rw[e.lastTs] \in Nat
      BY <1>4, <1>5, <1>14, <3>2
    <3> QED BY <2>1, <2>2, <3>1, <3>3
  <2>4. CASE ~swapped /\ e.lastHours = H!Absent
    <3>1. used = e.used + TotalCharge(read) /\ since = e.since
      BY <2>4
    <3> HIDE DEF used, since
    <3> QED BY <1>6, <2>1, <2>2, <3>1
  <2>5. CASE ~swapped /\ e.lastHours # H!Absent
    <3>1. used = e.used + TotalCharge(<<e.lastHours>> \o read) /\ since = e.since
      BY <2>5
    <3>2. e.lastHours >= 0
      BY <1>6, <2>5 DEF H!Absent
    <3>3. TotalCharge(<<e.lastHours>> \o read) \in Nat /\ TotalCharge(<<e.lastHours>> \o read) <= rw[last] - e.done
      BY <1>6, <2>1, <2>2, <3>2
    <3> HIDE DEF used, since
    <3> QED BY <1>6, <2>2, <3>1, <3>3
  <2> QED BY <2>3, <2>4, <2>5
<1> HIDE DEF used, since, chain
<1>16. m.lastTs = top /\ m.lastHours = rb[last] /\ m.used = used /\ m.since = since /\ m.done = rw[last]
  BY <1>3, <1>11 DEF last, top
<1>17. rb[last] >= 0 /\ rb[last] \in Int /\ rw[last] \in Nat
  BY <1>4, <1>8, <1>11, <1>14
<1>18. ASSUME NEW b2, NEW w2, Grown(b2, w2), Later(b2, w2, rb, rw) \/ Later(rb, rw, b2, w2)
       PROVE  Uncounted(m, b2, w2)
  <2> SUFFICES ASSUME NEW t \in 1 .. MaxNow, t > top, b2[t] # H!NoBucket
               PROVE  w2[t] >= rw[last] /\ (b2[t] > rb[last] => w2[t] > rw[last])
    BY <1>16 DEF Uncounted
  <2>1. CASE Later(b2, w2, rb, rw)
    <3>1. rb[t] # -2
      BY <2>1 DEF Later, H!NoBucket
    <3>2. t > e.lastTs
      BY <1>6, <1>12, <1>13
    <3> QED BY <1>7, <1>12, <1>14, <3>1, <3>2
  <2>2. CASE Later(rb, rw, b2, w2)
    <3>1. last <= t /\ t \in 0 .. MaxNow /\ last \in 0 .. MaxNow
      BY <1>4, <1>14
    <3>2. rw[last] <= rw[t] /\ rw[t] <= w2[t] /\ rw[t] \in Nat /\ w2[t] \in Nat
      BY <1>4, <1>18, <2>2, <3>1, GrownTypes DEF Later
    <3>3. b2[t] > rb[last] => w2[t] > rw[last]
      BY <1>14, <1>17, <2>2, <3>1 DEF Later
    <3> QED BY <1>17, <3>2, <3>3
  <2> QED BY <1>18, <2>1, <2>2
<1>19. rw[last] <= w[top] /\ (h > rb[last] => w[n] > rw[last])
  <2>1. rw[last] <= w[last] /\ w[last] <= w[top] /\ w[last] \in Nat /\ w[top] \in Nat
    BY <1>4, <1>5, <1>14
  <2> QED BY <1>5, <1>14, <1>17, <2>1
<1>20. ChargeOK(m, b, w, h, n)
  <2>1. Uncounted(m, b, w)
    BY <1>5, <1>18
  <2>2. top \in 0 .. n
    BY <1>5, <1>14
  <2> QED BY <1>3, <1>15, <1>16, <1>17, <1>19, <2>1, <2>2 DEF ChargeOK
<1> QED BY <1>2, <1>18, <1>20 DEF u, w

-----------------------------------------------------------------------------
\* A round that still has the buckets it read.
Reading(f) == f.pc \in {"row", "score"}

\* A charge e of device d is right, whatever has happened since it was computed.
ChargeFits(e, d) ==
    /\ ChargeOK(e, tele[d], worked[d], hours[d], now)
    /\ \A r \in Replicas : Reading(rnd[r]) => Uncounted(e, rnd[r].seen[d], rnd[r].wrk[d])
ReadsFit(f) ==
    Reading(f) => \A d \in H!Devices : ReadOK(f.seen[d], f.wrk[d], f.at, tele[d], worked[d], hours[d], now)
InOrder(f, g) ==
    Reading(f) /\ Reading(g) => \A d \in H!Devices :
        Later(f.seen[d], f.wrk[d], g.seen[d], g.wrk[d]) \/ Later(g.seen[d], g.wrk[d], f.seen[d], f.wrk[d])
WritesFit(f) == \A i \in 1 .. Len(f.writes) : ChargeFits(f.writes[i].explain, f.writes[i].d)

\* The stored charges and those that rounds are about to store
ChargeInv ==
    /\ DOMAIN tele = H!Devices /\ DOMAIN worked = H!Devices /\ DOMAIN hours = H!Devices
    /\ \A d \in H!Devices : DeviceOK(tele[d], worked[d], hours[d], now)
    /\ \A r \in Replicas : ReadsFit(rnd[r]) /\ WritesFit(rnd[r])
    /\ \A q, r \in Replicas : InOrder(rnd[q], rnd[r])
    /\ \A d \in H!Devices : ChargeFits(explain[d], d)

\* At first nothing is charged and nothing was worked.
LEMMA ChargeInit == ASSUME H!HealthConstants, H!Init PROVE ChargeInv
<1>1. MaxNow \in Nat \ {0} /\ 1 \in 1 .. MaxNow /\ now = 1
  <2>1. MaxNow \in Nat \ {0}
    BY DEF H!HealthConstants
  <2>2. now = 1
    BY DEF H!Init
  <2> QED BY <2>1, <2>2
<1>2. \A r \in Replicas : rnd[r].pc = "idle" /\ rnd[r].writes = <<>> /\ Len(rnd[r].writes) = 0
  BY DEF H!Init, H!Idle
<1>3. \A r \in Replicas : ~Reading(rnd[r])
  BY <1>2 DEF Reading
<1>4. ASSUME NEW d \in H!Devices
      PROVE  DeviceOK(tele[d], worked[d], hours[d], now) /\ ChargeFits(explain[d], d)
  <2>1. tele[d] = [t \in 1 .. MaxNow |-> -2] /\ worked[d] = [t \in 0 .. MaxNow |-> 0] /\ hours[d] = 0
    BY DEF H!Init, H!NoBucket
  <2>2. tele[d] \in Buckets /\ worked[d] \in HoursWorked
    BY <2>1 DEF Buckets, HoursWorked, H!NoBucket
  <2>3. /\ \A t \in 1 .. MaxNow : tele[d][t] = -2
        /\ \A t \in 0 .. MaxNow : worked[d][t] = 0
    BY <2>1
  <2>4. Grown(tele[d], worked[d])
    BY <2>2, <2>3 DEF Grown
  <2>5. DeviceOK(tele[d], worked[d], hours[d], now)
    BY <1>1, <2>1, <2>3, <2>4 DEF DeviceOK, H!NoBucket
  <2>6. explain[d] = H!NoExplain
    BY DEF H!Init
  <2> DEFINE e == explain[d]
  <2>7. /\ e.lastTs = 0 /\ e.lastHours = -1 /\ e.used = 0 /\ e.since = 0 /\ e.done = 0
        /\ {"lastTs", "lastHours", "used", "since", "done"} \subseteq DOMAIN e
    <3>1. /\ H!NoExplain.lastTs = 0 /\ H!NoExplain.lastHours = -1 /\ H!NoExplain.used = 0
          /\ H!NoExplain.since = 0 /\ H!NoExplain.done = 0
      BY DEF H!NoExplain, H!Absent
    <3>2. {"lastTs", "lastHours", "used", "since", "done"} \subseteq DOMAIN H!NoExplain
      BY DEF H!NoExplain
    <3> QED BY <2>6, <3>1, <3>2, Zenon
  <2> HIDE DEF e
  <2>8. 0 \in 0 .. now /\ 0 \in 0 .. MaxNow
    BY <1>1
  <2>9. ChargeOK(e, tele[d], worked[d], hours[d], now)
    BY <2>3, <2>7, <2>8 DEF ChargeOK, Uncounted, H!Absent, H!NoBucket
  <2> QED BY <1>3, <2>5, <2>9 DEF ChargeFits, e
<1>5. \A r \in Replicas : ReadsFit(rnd[r]) /\ WritesFit(rnd[r])
  <2>1. \A r \in Replicas : \A i : ~(i \in 1 .. Len(rnd[r].writes))
    BY <1>2
  <2>2. \A r \in Replicas : WritesFit(rnd[r])
    BY <2>1, Zenon DEF WritesFit
  <2> QED BY <1>3, <2>2 DEF ReadsFit
<1>6. \A q, r \in Replicas : InOrder(rnd[q], rnd[r])
  BY <1>3 DEF InOrder
<1> QED BY <1>4, <1>5, <1>6 DEF ChargeInv, H!Init

\* An hour, a frame and a replaced module
LEMMA FrameSteps ==
    ASSUME H!HealthConstants, ChargeInv, NEW d \in H!Devices, NEW c, H!Frame(d, c), UNCHANGED now,
           \/ c = hours[d] + 1 /\ hours' = [hours EXCEPT ![d] = @ + 1]
           \/ c \in {H!NoHours, hours[d]} /\ UNCHANGED hours
    PROVE  /\ DOMAIN tele' = H!Devices /\ DOMAIN worked' = H!Devices /\ DOMAIN hours' = H!Devices
           /\ \A g \in H!Devices :
                DeviceStep(tele[g], worked[g], hours[g], now, tele'[g], worked'[g], hours'[g], now')
<1>1. DOMAIN tele = H!Devices /\ DOMAIN worked = H!Devices /\ DOMAIN hours = H!Devices
      /\ DeviceOK(tele[d], worked[d], hours[d], now)
  BY DEF ChargeInv
<1>2. now \in 1 .. MaxNow /\ hours[d] \in Nat /\ tele[d] \in Buckets /\ worked[d] \in HoursWorked
  BY <1>1 DEF DeviceOK, Grown
<1> DEFINE b == IF c = H!NoHours /\ tele[d][now] # H!NoBucket THEN tele[d][now] ELSE c
           m == [t \in 0 .. MaxNow |-> IF t >= now /\ c > hours[d] THEN worked[d][now] + 1 ELSE worked[d][t]]
<1>3. tele' = [tele EXCEPT ![d] = [tele[d] EXCEPT ![now] = b]] /\ worked' = [worked EXCEPT ![d] = m]
  BY DEF H!Frame
<1> HIDE DEF b, m
<1>4. /\ DOMAIN tele' = H!Devices /\ DOMAIN worked' = H!Devices /\ DOMAIN hours' = H!Devices
      /\ \A g \in H!Devices \ {d} : tele'[g] = tele[g] /\ worked'[g] = worked[g] /\ hours'[g] = hours[g]
      /\ tele'[d] = [tele[d] EXCEPT ![now] = b] /\ worked'[d] = m
  BY <1>1, <1>3
<1>5. DeviceStep(tele[d], worked[d], hours[d], now, tele'[d], worked'[d], hours'[d], now')
  <2>1. CASE c = hours[d] + 1 /\ hours' = [hours EXCEPT ![d] = @ + 1]
    <3>1. b = hours[d] + 1 /\ hours'[d] = hours[d] + 1
      BY <1>1, <1>2, <2>1 DEF b, H!NoHours
    <3>2. m = [t \in 0 .. MaxNow |-> IF t >= now THEN worked[d][now] + 1 ELSE worked[d][t]]
      BY <1>2, <2>1 DEF m
    <3> QED BY <1>4, <3>1, <3>2 DEF DeviceStep
  <2>2. CASE c \in {H!NoHours, hours[d]} /\ UNCHANGED hours
    <3>1. m = worked[d]
      <4>1. ~(c > hours[d])
        BY <1>2, <2>2 DEF H!NoHours
      <4>2. m = [t \in 0 .. MaxNow |-> worked[d][t]]
        BY <4>1 DEF m
      <4> QED BY <1>2, <4>2 DEF HoursWorked
    <3>2. CASE c = hours[d]
      <4>1. b = hours[d]
        BY <1>2, <3>2 DEF b, H!NoHours
      <4> QED BY <1>4, <2>2, <3>1, <4>1 DEF DeviceStep
    <3>3. CASE c = H!NoHours /\ tele[d][now] = H!NoBucket
      <4>1. b = H!NoHours
        BY <3>3 DEF b
      <4> QED BY <1>4, <2>2, <3>1, <3>3, <4>1 DEF DeviceStep
    <3>4. CASE c = H!NoHours /\ tele[d][now] # H!NoBucket
      <4>1. b = tele[d][now]
        BY <3>4 DEF b
      <4>2. tele'[d] = tele[d]
        BY <1>2, <1>4, <4>1 DEF Buckets
      <4> QED BY <1>4, <2>2, <3>1, <4>2 DEF DeviceStep
    <3> QED BY <2>2, <3>2, <3>3, <3>4
  <2> QED BY <2>1, <2>2
<1>6. \A g \in H!Devices \ {d} : DeviceStep(tele[g], worked[g], hours[g], now, tele'[g], worked'[g], hours'[g], now')
  BY <1>4 DEF DeviceStep
<1> QED BY <1>4, <1>5, <1>6

\* Each device takes one of these steps or none.
LEMMA DeviceSteps ==
    ASSUME H!HealthConstants, ChargeInv, H!World \/ UNCHANGED H!vars
    PROVE  /\ DOMAIN tele' = H!Devices /\ DOMAIN worked' = H!Devices /\ DOMAIN hours' = H!Devices
           /\ \A d \in H!Devices :
                DeviceStep(tele[d], worked[d], hours[d], now, tele'[d], worked'[d], hours'[d], now')
<1>1. DOMAIN tele = H!Devices /\ DOMAIN worked = H!Devices /\ DOMAIN hours = H!Devices
  BY DEF ChargeInv
<1>2. CASE UNCHANGED <<now, hours, tele, worked>>
  BY <1>1, <1>2 DEF DeviceStep
<1>3. CASE H!Tick
  <2>1. ASSUME NEW d \in H!Devices PROVE now + 1 \in 1 .. MaxNow
    <3>1. DeviceOK(tele[d], worked[d], hours[d], now)
      BY DEF ChargeInv
    <3> QED BY <1>3, <3>1, HealthNumbers DEF H!Tick, DeviceOK
  <2> QED BY <1>1, <1>3, <2>1 DEF H!Tick, DeviceStep
<1>4. ASSUME NEW d \in H!Devices, H!Work(d) \/ H!ReportModel(d)
      PROVE  /\ DOMAIN tele' = H!Devices /\ DOMAIN worked' = H!Devices /\ DOMAIN hours' = H!Devices
             /\ \A g \in H!Devices :
                  DeviceStep(tele[g], worked[g], hours[g], now, tele'[g], worked'[g], hours'[g], now')
  <2>1. CASE H!Work(d)
    <3>1. H!Frame(d, hours[d] + 1) /\ hours' = [hours EXCEPT ![d] = @ + 1] /\ UNCHANGED now
      BY <2>1 DEF H!Work
    <3> QED BY <3>1, FrameSteps
  <2>2. CASE H!ReportModel(d)
    BY <1>2, <2>2 DEF H!ReportModel
  <2> QED BY <1>4, <2>1, <2>2
<1>5. CASE H!Upset
  <2>1. UNCHANGED now
    BY <1>5 DEF H!Upset
  <2>2. PICK d \in H!Devices :
          \/ \E c \in {H!NoHours, hours[d]} : H!Frame(d, c) /\ UNCHANGED hours
          \/ hours' = [hours EXCEPT ![d] = 0] /\ UNCHANGED <<tele, worked>>
          \/ UNCHANGED <<hours, tele, worked>>
    BY <1>5 DEF H!Upset
  <2>3. CASE \E c \in {H!NoHours, hours[d]} : H!Frame(d, c) /\ UNCHANGED hours
    BY <2>1, <2>3, FrameSteps
  <2>4. CASE hours' = [hours EXCEPT ![d] = 0] /\ UNCHANGED <<tele, worked>>
    <3>1. DOMAIN hours' = H!Devices /\ \A g \in H!Devices : hours'[g] = 0 \/ hours'[g] = hours[g]
      BY <1>1, <2>4
    <3> QED BY <1>1, <2>1, <2>4, <3>1 DEF DeviceStep
  <2>5. CASE UNCHANGED <<hours, tele, worked>>
    BY <1>2, <2>1, <2>5
  <2> QED BY <2>2, <2>3, <2>4, <2>5
<1>6. CASE UNCHANGED H!vars
  BY <1>2, <1>6 DEF H!vars, H!world
<1> QED BY <1>3, <1>4, <1>5, <1>6 DEF H!World

\* The devices go on while rounds hold old readings of them.
LEMMA WorldCharge ==
    ASSUME H!HealthConstants, HealthInv, ChargeInv, H!World \/ UNCHANGED H!vars
    PROVE  ChargeInv'
<1>1. MaxNow \in Nat
  BY HealthNumbers
<1>2. UNCHANGED <<explain, rnd>>
  BY DEF H!World, H!tables, H!vars
<1>3. /\ DOMAIN tele' = H!Devices /\ DOMAIN worked' = H!Devices /\ DOMAIN hours' = H!Devices
      /\ \A d \in H!Devices :
           DeviceStep(tele[d], worked[d], hours[d], now, tele'[d], worked'[d], hours'[d], now')
  BY DeviceSteps
<1>4. \A d \in H!Devices : DeviceOK(tele[d], worked[d], hours[d], now)
  BY DEF ChargeInv
<1>5. ASSUME NEW d \in H!Devices PROVE DeviceOK(tele'[d], worked'[d], hours'[d], now')
  BY <1>1, <1>3, <1>4, DeviceStays
<1>6. ASSUME NEW d \in H!Devices, NEW e, ChargeFits(e, d) PROVE ChargeFits(e, d)'
  <2>1. ChargeOK(e, tele[d], worked[d], hours[d], now)
    BY <1>6 DEF ChargeFits
  <2>2. ChargeOK(e, tele'[d], worked'[d], hours'[d], now')
    BY <1>1, <1>3, <1>4, <2>1, ChargeStays
  <2> QED BY <1>2, <1>6, <2>2 DEF ChargeFits, Reading
<1>7. ASSUME NEW r \in Replicas PROVE ReadsFit(rnd[r])'
  <2> DEFINE f == rnd[r]
  <2> SUFFICES ASSUME Reading(f), NEW d \in H!Devices
               PROVE  ReadOK(f.seen[d], f.wrk[d], f.at, tele'[d], worked'[d], hours'[d], now')
    BY <1>2 DEF ReadsFit, Reading
  <2>1. ReadOK(f.seen[d], f.wrk[d], f.at, tele[d], worked[d], hours[d], now)
    BY DEF ChargeInv, ReadsFit
  <2> HIDE DEF f
  <2> QED BY <1>1, <1>3, <1>4, <2>1, ReadStays
<1>8. ASSUME NEW r \in Replicas PROVE WritesFit(rnd[r])'
  <2>1. \A i \in 1 .. Len(rnd[r].writes) : rnd[r].writes[i].d \in H!Devices
    BY DEF HealthInv, RoundKeeps, RoundOK
  <2>2. \A i \in 1 .. Len(rnd[r].writes) : ChargeFits(rnd[r].writes[i].explain, rnd[r].writes[i].d)
    BY DEF ChargeInv, WritesFit
  <2> DEFINE x == rnd[r].writes
  <2>3. ASSUME NEW i \in 1 .. Len(x) PROVE ChargeFits(x[i].explain, x[i].d)'
    <3> DEFINE e == x[i].explain
               d == x[i].d
    <3>1. d \in H!Devices /\ ChargeFits(e, d) /\ e' = e /\ d' = d
      BY <1>2, <2>1, <2>2
    <3>2. \A y, z : z \in H!Devices /\ ChargeFits(y, z) => ChargeFits(y, z)'
      BY <1>6
    <3> QED BY <1>2, <3>1, <3>2 DEF ChargeFits
  <2> QED BY <1>2, <2>3 DEF WritesFit
<1>9. \A q, r \in Replicas : InOrder(rnd[q], rnd[r])'
  BY <1>2 DEF ChargeInv, InOrder, Reading
<1>10. ASSUME NEW d \in H!Devices PROVE ChargeFits(explain[d], d)'
  <2> DEFINE e == explain[d]
  <2>1. ChargeFits(e, d) /\ e' = e
    BY <1>2 DEF ChargeInv
  <2>2. \A y : ChargeFits(y, d) => ChargeFits(y, d)'
    BY <1>6
  <2> QED BY <1>2, <2>1, <2>2 DEF ChargeFits
<1> QED BY <1>3, <1>5, <1>7, <1>8, <1>9, <1>10 DEF ChargeInv

\* The rounds go on while the devices stand still: a round keeps what it read or
\* reads the devices as they are, and what it stores or is about to store fits.
LEMMA RoundsMove ==
    ASSUME H!HealthConstants, ChargeInv, UNCHANGED <<now, hours, tele, worked>>,
           \A q \in Replicas : Reading(rnd'[q]) =>
              \/ /\ Reading(rnd[q]) /\ rnd'[q].seen = rnd[q].seen /\ rnd'[q].wrk = rnd[q].wrk
                 /\ rnd'[q].at = rnd[q].at
              \/ rnd'[q].seen = tele /\ rnd'[q].wrk = worked /\ rnd'[q].at = now,
           \A d \in H!Devices : ChargeFits(explain'[d], d),
           \A q \in Replicas : WritesFit(rnd'[q])
    PROVE  ChargeInv'
<1> DEFINE Old(q) == /\ Reading(rnd[q]) /\ rnd'[q].seen = rnd[q].seen /\ rnd'[q].wrk = rnd[q].wrk
                     /\ rnd'[q].at = rnd[q].at
           New(q) == rnd'[q].seen = tele /\ rnd'[q].wrk = worked /\ rnd'[q].at = now
<1>1. \A q \in Replicas : Reading(rnd'[q]) => Old(q) \/ New(q)
  OBVIOUS
<1>2. \A d \in H!Devices : DeviceOK(tele[d], worked[d], hours[d], now)
  BY DEF ChargeInv
<1>3. \A d \in H!Devices : Grown(tele[d], worked[d]) /\ Later(tele[d], worked[d], tele[d], worked[d])
  BY <1>2, SameLater, HealthNumbers DEF DeviceOK
<1>4. \A q \in Replicas : ReadsFit(rnd[q])
  BY DEF ChargeInv
<1> DEFINE Fits(e, d) ==
             /\ ChargeOK(e, tele'[d], worked'[d], hours'[d], now')
             /\ \A r \in Replicas : Reading(rnd'[r]) => Uncounted(e, rnd'[r].seen[d], rnd'[r].wrk[d])
<1>5. \A e, d : ChargeFits(e, d) => Fits(e, d)
  <2> SUFFICES ASSUME NEW e, NEW d, ChargeFits(e, d) PROVE Fits(e, d)
    OBVIOUS
  <2>1. Uncounted(e, tele[d], worked[d])
    BY DEF ChargeFits, ChargeOK
  <2>2. ASSUME NEW q \in Replicas, Reading(rnd'[q]) PROVE Uncounted(e, rnd'[q].seen[d], rnd'[q].wrk[d])
    BY <1>1, <2>1, <2>2 DEF ChargeFits
  <2>3. ChargeOK(e, tele'[d], worked'[d], hours'[d], now')
    BY DEF ChargeFits
  <2> QED BY <2>2, <2>3
<1>6. ASSUME NEW d \in H!Devices PROVE ChargeFits(explain[d], d)'
  <2>1. Fits(explain'[d], d)
    <3> HIDE DEF Fits
    <3> QED BY <1>5
  <2> QED BY <2>1 DEF ChargeFits, Reading
<1>7. ASSUME NEW q \in Replicas PROVE WritesFit(rnd[q])'
  <2>1. \A i \in 1 .. Len(rnd'[q].writes) : Fits(rnd'[q].writes[i].explain, rnd'[q].writes[i].d)
    <3> HIDE DEF Fits
    <3> QED BY <1>5 DEF WritesFit
  <2> QED BY <2>1 DEF WritesFit, ChargeFits, Reading
<1>8. ASSUME NEW q \in Replicas PROVE ReadsFit(rnd[q])'
  <2> SUFFICES ASSUME Reading(rnd'[q]), NEW d \in H!Devices
               PROVE  ReadOK(rnd'[q].seen[d], rnd'[q].wrk[d], rnd'[q].at, tele[d], worked[d], hours[d], now)
    BY DEF ReadsFit, Reading
  <2>1. CASE Old(q)
    BY <1>4, <2>1 DEF ReadsFit
  <2>2. CASE New(q)
    <3>1. ReadOK(tele[d], worked[d], now, tele[d], worked[d], hours[d], now)
      <4>1. now \in 1 .. now /\ \A t \in 0 .. now - 1 : worked[d][t] = worked[d][t]
        BY <1>2, HealthNumbers DEF DeviceOK
      <4> QED BY <1>2, <1>3, <4>1 DEF ReadOK, DeviceOK
    <3> QED BY <2>2, <3>1
  <2> QED BY <1>1, <2>1, <2>2
<1>9. ASSUME NEW p \in Replicas, NEW q \in Replicas PROVE InOrder(rnd[p], rnd[q])'
  <2> DEFINE L(f, g, d) == Later(f.seen[d], f.wrk[d], g.seen[d], g.wrk[d])
  <2> SUFFICES ASSUME Reading(rnd'[p]), Reading(rnd'[q]), NEW d \in H!Devices
               PROVE  L(rnd'[p], rnd'[q], d) \/ L(rnd'[q], rnd'[p], d)
    BY DEF InOrder, Reading
  <2>1. CASE Old(p) /\ Old(q)
    <3>1. L(rnd[p], rnd[q], d) \/ L(rnd[q], rnd[p], d)
      BY <2>1 DEF ChargeInv, InOrder
    <3> QED BY <2>1, <3>1
  <2>2. CASE Old(p) /\ New(q)
    <3>1. Later(rnd[p].seen[d], rnd[p].wrk[d], tele[d], worked[d])
      BY <1>4, <2>2 DEF ReadsFit, ReadOK
    <3> QED BY <2>2, <3>1
  <2>3. CASE New(p) /\ Old(q)
    <3>1. Later(rnd[q].seen[d], rnd[q].wrk[d], tele[d], worked[d])
      BY <1>4, <2>3 DEF ReadsFit, ReadOK
    <3> QED BY <2>3, <3>1
  <2>4. CASE New(p) /\ New(q)
    BY <1>3, <2>4
  <2> QED BY <1>1, <2>1, <2>2, <2>3, <2>4
<1> QED BY <1>2, <1>6, <1>7, <1>8, <1>9 DEF ChargeInv

\* A step of one round that stores nothing
LEMMA RoundOnlyCharge ==
    ASSUME H!HealthConstants, HealthInv, ChargeInv, NEW r \in Replicas, NEW f, rnd' = [rnd EXCEPT ![r] = f],
           UNCHANGED <<now, hours, tele, worked, explain>>,
           Reading(f) =>
              \/ Reading(rnd[r]) /\ f.seen = rnd[r].seen /\ f.wrk = rnd[r].wrk /\ f.at = rnd[r].at
              \/ f.seen = tele /\ f.wrk = worked /\ f.at = now,
           WritesFit(f)
    PROVE  ChargeInv'
<1>1. \A q \in Replicas : rnd'[q] = IF q = r THEN f ELSE rnd[q]
  BY DEF HealthInv, HealthShapes
<1>2. \A q \in Replicas : Reading(rnd'[q]) =>
         \/ /\ Reading(rnd[q]) /\ rnd'[q].seen = rnd[q].seen /\ rnd'[q].wrk = rnd[q].wrk
            /\ rnd'[q].at = rnd[q].at
         \/ rnd'[q].seen = tele /\ rnd'[q].wrk = worked /\ rnd'[q].at = now
  BY <1>1
<1>3. \A q \in Replicas : WritesFit(rnd'[q])
  BY <1>1 DEF ChargeInv
<1>4. \A d \in H!Devices : ChargeFits(explain'[d], d)
  BY DEF ChargeInv
<1> QED BY <1>2, <1>3, <1>4, RoundsMove

\* A step of a round that stores what it computed, or an answer, of device d
LEMMA TouchesCharge ==
    ASSUME H!HealthConstants, HealthInv, ChargeInv, NEW r \in Replicas, NEW d, NEW f, H!Touches(r, d, f),
           UNCHANGED <<now, hours, tele, worked>>, ~Reading(f), WritesFit(f),
           \A g \in H!Devices : ChargeFits(explain'[g], g)
    PROVE  ChargeInv'
<1>1. /\ rnd'[r] = f
      /\ \A q \in Replicas \ {r} :
           /\ rnd'[q].pc = rnd[q].pc /\ rnd'[q].at = rnd[q].at /\ rnd'[q].writes = rnd[q].writes
           /\ rnd'[q].seen = rnd[q].seen /\ rnd'[q].wrk = rnd[q].wrk
  BY OthersTouched
<1>2. \A q \in Replicas : Reading(rnd'[q]) =>
         \/ /\ Reading(rnd[q]) /\ rnd'[q].seen = rnd[q].seen /\ rnd'[q].wrk = rnd[q].wrk
            /\ rnd'[q].at = rnd[q].at
         \/ rnd'[q].seen = tele /\ rnd'[q].wrk = worked /\ rnd'[q].at = now
  BY <1>1 DEF Reading
<1>3. \A q \in Replicas : WritesFit(rnd'[q])
  BY <1>1 DEF ChargeInv, WritesFit
<1> QED BY <1>2, <1>3, RoundsMove

\* An idle round holds no reading and no charge.
LEMMA IdleFits == WritesFit(H!Idle) /\ ~Reading(H!Idle)
<1>1. H!Idle.pc = "idle" /\ H!Idle.writes = <<>> /\ Len(H!Idle.writes) = 0
  BY DEF H!Idle
<1>2. \A i : ~(i \in 1 .. Len(H!Idle.writes))
  BY <1>1
<1> QED BY <1>1, <1>2, Zenon DEF WritesFit, Reading

\* The rest of a round after its first device
LEMMA ThenFits ==
    ASSUME H!HealthConstants, HealthInv, ChargeInv, NEW r \in Replicas, rnd[r].writes # <<>>,
           rnd[r].pc \in {"decide", "write", "insert"}
    PROVE  WritesFit(H!Then(r)) /\ ~Reading(H!Then(r))
<1>1. RoundKeeps(rnd[r])
  BY DEF HealthInv
<1>2. PICK S : rnd[r].writes \in Seq(S)
  BY <1>1 DEF RoundKeeps, RoundOK
<1>3. \A i \in 2 .. Len(rnd[r].writes) : i \in 1 .. Len(rnd[r].writes) /\ i # 1
  BY <1>2
<1>4. \A i \in 2 .. Len(rnd[r].writes) : rnd[r].writes[i].d \notin rnd[r].dirty =>
         Follows(rnd[r].writes[i].explain, explain[rnd[r].writes[i].d])
  BY <1>1, <1>3 DEF RoundKeeps, FreshWrites
<1>5. /\ H!Then(r).pc \in {"idle", "decide"}
      /\ \A i \in 1 .. Len(H!Then(r).writes) :
           i + 1 \in 2 .. Len(rnd[r].writes) /\ H!Then(r).writes[i] = rnd[r].writes[i + 1]
  BY <1>1, <1>4, ThenKeeps
<1>6. \A i \in 1 .. Len(rnd[r].writes) : ChargeFits(rnd[r].writes[i].explain, rnd[r].writes[i].d)
  BY DEF ChargeInv, WritesFit
<1>7. WritesFit(H!Then(r))
  BY <1>3, <1>5, <1>6, Zenon DEF WritesFit
<1> QED BY <1>5, <1>7 DEF Reading

\* A round reads every device as it is.
LEMMA RoundStartCharge ==
    ASSUME H!HealthConstants, HealthInv, ChargeInv, NEW r \in Replicas, H!Round(r) \/ H!PartialRound(r)
    PROVE  ChargeInv'
<1>1. PICK td :
        /\ rnd' = [rnd EXCEPT ![r] = [H!Idle EXCEPT !.pc = "row", !.at = now, !.seen = tele,
                                                   !.wrk = worked, !.over = over, !.todo = td]]
        /\ UNCHANGED <<now, hours, tele, worked, explain>>
  <2>1. ASSUME NEW only, H!RoundStart(r, only), UNCHANGED <<now, hours, tele, worked>>
        PROVE  \E td : /\ rnd' = [rnd EXCEPT ![r] = [H!Idle EXCEPT !.pc = "row", !.at = now, !.seen = tele,
                                                            !.wrk = worked, !.over = over, !.todo = td]]
                       /\ UNCHANGED <<now, hours, tele, worked, explain>>
    BY <2>1 DEF H!RoundStart, H!Goes, H!tables
  <2>2. CASE H!Round(r)
    BY <2>1, <2>2 DEF H!Round, H!world
  <2>3. CASE H!PartialRound(r)
    BY <2>1, <2>3 DEF H!PartialRound
  <2> QED BY <2>2, <2>3
<1> DEFINE f == [H!Idle EXCEPT !.pc = "row", !.at = now, !.seen = tele, !.wrk = worked, !.over = over,
                              !.todo = td]
<1>2. f.seen = tele /\ f.wrk = worked /\ f.at = now /\ f.writes = <<>>
  BY DEF H!Idle
<1> HIDE DEF f
<1>3. \A i : ~(i \in 1 .. Len(f.writes))
  <2>1. Len(<<>>) = 0
    OBVIOUS
  <2> QED BY <1>2, <2>1
<1>4. WritesFit(f)
  BY <1>3, Zenon DEF WritesFit
<1> QED BY <1>1, <1>2, <1>4, RoundOnlyCharge DEF f

\* The old score is no charge.
LEMMA ReadRowCharge ==
    ASSUME H!HealthConstants, HealthInv, ChargeInv, NEW r \in Replicas, H!ReadRow(r)
    PROVE  ChargeInv'
<1> DEFINE f == [rnd[r] EXCEPT !.pc = "score", !.row = row[H!Min(rnd[r].todo)]]
<1>1. rnd' = [rnd EXCEPT ![r] = f] /\ rnd[r].pc = "row" /\ UNCHANGED <<now, hours, tele, worked, explain>>
  BY DEF H!ReadRow, H!Goes, H!world, H!tables
<1>2. f.seen = rnd[r].seen /\ f.wrk = rnd[r].wrk /\ f.at = rnd[r].at /\ f.writes = rnd[r].writes
  BY DEF HealthInv, RoundKeeps, RoundOK, H!Idle
<1> HIDE DEF f
<1>3. WritesFit(f)
  BY <1>2 DEF ChargeInv, WritesFit
<1> QED BY <1>1, <1>2, <1>3, RoundOnlyCharge DEF Reading

\* Whether to remind changes no charge.
LEMMA CommitDecideCharge ==
    ASSUME H!HealthConstants, HealthInv, ChargeInv, NEW r \in Replicas, H!CommitDecide(r)
    PROVE  ChargeInv'
<1> DEFINE u == Head(rnd[r].writes)
           dec == H!DecideReminder(u.prev, u.health, u.explain.levels, H!LastSentAt(u.d), u, rnd[r].at)
           f == [rnd[r] EXCEPT !.pc = "write", !.dec = dec]
<1>1. rnd' = [rnd EXCEPT ![r] = f] /\ UNCHANGED <<now, hours, tele, worked, explain>>
  BY DEF H!CommitDecide, H!Goes, H!world, H!tables
<1> HIDE DEF dec
<1>2. f.pc = "write" /\ f.writes = rnd[r].writes
  BY DEF HealthInv, RoundKeeps, RoundOK, H!Idle
<1> HIDE DEF f
<1>3. WritesFit(f) /\ ~Reading(f)
  BY <1>2 DEF ChargeInv, WritesFit, Reading
<1> QED BY <1>1, <1>3, RoundOnlyCharge

\* The next device is one that the round has not scored yet.
LEMMA NextDevice ==
    ASSUME H!HealthConstants, NEW f, RoundOK(f), Reading(f)
    PROVE  H!Min(f.todo) \in f.todo /\ H!Min(f.todo) \in H!Devices
<1>1. f.todo \subseteq 0 .. NumDevices /\ f.todo # {} /\ f.todo \subseteq H!Devices
  BY HealthNumbers DEF RoundOK, Reading, H!Devices
<1>2. H!Min(f.todo) \in f.todo
  BY <1>1, HealthNumbers, Least
<1> QED BY <1>1, <1>2

\* scoreDevice charges the buckets of its reading over the stored charge.
LEMMA ScoreDeviceCharge ==
    ASSUME H!HealthConstants, HealthInv, ChargeInv, NEW r \in Replicas, H!ScoreDevice(r)
    PROVE  ChargeInv'
<1> DEFINE old == rnd[r]
           d == H!Min(old.todo)
           u == H!Update(d, old.row, explain[d], old.seen[d], old.wrk[d], old.over[d], shadow[d])
           w == IF u.kind = "write" THEN Append(old.writes, u) ELSE old.writes
           f == [old EXCEPT !.pc = "row", !.row = H!Absent, !.todo = @ \ {d},
                    !.writes = IF u.kind = "write" THEN Append(@, u) ELSE @,
                    !.skipped = IF u.kind = "skip" THEN @ + 1 ELSE @]
           dropped == f.writes = <<>> \/ H!ShouldFuseBatch(f.skipped, f.skipped + Len(f.writes))
           g == [f EXCEPT !.pc = "decide", !.seen = <<>>, !.wrk = <<>>, !.over = <<>>, !.skipped = 0]
           new == IF f.todo # {} THEN f ELSE IF dropped THEN H!Idle ELSE g
<1>1. rnd' = [rnd EXCEPT ![r] = new] /\ old.pc = "score" /\ UNCHANGED <<now, hours, tele, worked, explain>>
  <2>1. H!Goes(r, new)
    BY ZenonT(60) DEF H!ScoreDevice
  <2>2. old.pc = "score" /\ UNCHANGED <<H!world, H!tables, rewound>>
    BY ZenonT(60) DEF H!ScoreDevice
  <2> HIDE DEF old, new
  <2> QED BY <2>1, <2>2 DEF H!Goes, H!world, H!tables
<1>2. RoundOK(old) /\ Reading(old) /\ ReadsFit(old) /\ WritesFit(old)
  BY <1>1 DEF HealthInv, RoundKeeps, ChargeInv, Reading
<1>3. d \in H!Devices /\ Explains(explain[d])
  <2>1. d \in H!Devices
    BY <1>2, NextDevice
  <2> HIDE DEF d
  <2> QED BY <2>1 DEF HealthInv, HealthShapes
<1> HIDE DEF d, u
<1>4. ASSUME u.kind = "write" PROVE u.d = d /\ ChargeFits(u.explain, d)
  <2>1. u.d = d
    BY <1>3, <1>4, UpdateFollows DEF u
  <2>2. /\ DeviceOK(tele[d], worked[d], hours[d], now)
        /\ ReadOK(old.seen[d], old.wrk[d], old.at, tele[d], worked[d], hours[d], now)
        /\ ChargeFits(explain[d], d) /\ MaxNow \in Nat
    BY <1>2, <1>3, HealthNumbers DEF ChargeInv, ReadsFit
  <2>3. ChargeOK(explain[d], tele[d], worked[d], hours[d], now)
        /\ Uncounted(explain[d], old.seen[d], old.wrk[d])
    BY <1>2, <2>2 DEF ChargeFits
  <2>4. /\ ChargeOK(u.explain, tele[d], worked[d], hours[d], now)
        /\ \A b2, w2 : Grown(b2, w2) /\ (Later(b2, w2, old.seen[d], old.wrk[d])
                                         \/ Later(old.seen[d], old.wrk[d], b2, w2)) =>
             Uncounted(u.explain, b2, w2)
    <3> HIDE DEF old
    <3> QED BY <1>4, <2>2, <2>3, UpdateCharges DEF u
  <2>5. ASSUME NEW q \in Replicas, Reading(rnd[q]) PROVE Uncounted(u.explain, rnd[q].seen[d], rnd[q].wrk[d])
    <3>1. Grown(rnd[q].seen[d], rnd[q].wrk[d])
      BY <1>3, <2>5 DEF ChargeInv, ReadsFit, ReadOK
    <3>2. \/ Later(rnd[q].seen[d], rnd[q].wrk[d], old.seen[d], old.wrk[d])
          \/ Later(old.seen[d], old.wrk[d], rnd[q].seen[d], rnd[q].wrk[d])
      BY <1>2, <1>3, <2>5 DEF ChargeInv, InOrder
    <3> QED BY <2>4, <3>1, <3>2
  <2> QED BY <2>1, <2>4, <2>5 DEF ChargeFits
<1>5. /\ f.pc = "row" /\ f.at = old.at /\ f.seen = old.seen /\ f.wrk = old.wrk /\ f.writes = w
      /\ g.pc = "decide" /\ g.writes = w
  BY <1>2 DEF RoundOK, H!Idle
<1> HIDE DEF f, g, dropped
<1>6. \A i \in 1 .. Len(w) : ChargeFits(w[i].explain, w[i].d)
  <2>1. PICK S : old.writes \in Seq(S)
    BY <1>2 DEF RoundOK
  <2>2. \A i \in 1 .. Len(old.writes) : ChargeFits(old.writes[i].explain, old.writes[i].d)
    BY <1>2 DEF WritesFit
  <2>3. CASE u.kind # "write"
    BY <2>2, <2>3
  <2>4. CASE u.kind = "write"
    <3>1. w = Append(old.writes, u) /\ Len(old.writes) \in Nat /\ old.writes \in Seq(S \cup {u})
      BY <2>1, <2>4
    <3>2. /\ w \in Seq(S \cup {u}) /\ Len(w) = Len(old.writes) + 1 /\ w[Len(w)] = u
          /\ \A i \in 1 .. Len(old.writes) : w[i] = old.writes[i]
      BY <3>1
    <3> HIDE DEF w
    <3>3. \A i \in 1 .. Len(w) : i \in 1 .. Len(old.writes) \/ i = Len(w)
      BY <3>1, <3>2
    <3> QED BY <1>4, <2>2, <2>4, <3>2, <3>3
  <2> QED BY <2>3, <2>4
<1> HIDE DEF w
<1>7. WritesFit(f) /\ WritesFit(g) /\ ~Reading(g)
  BY <1>5, <1>6 DEF WritesFit, Reading
<1>8. WritesFit(new) /\ (Reading(new) => new.seen = old.seen /\ new.wrk = old.wrk /\ new.at = old.at)
  BY <1>5, <1>7, IdleFits
<1> HIDE DEF new
<1> QED BY <1>1, <1>2, <1>8, RoundOnlyCharge

\* WriteHealth, whether it succeeds or its answer is lost
LEMMA WrittenCharge ==
    ASSUME H!HealthConstants, HealthInv, ChargeInv, NEW r \in Replicas, NEW f, rnd[r].pc = "write",
           H!Written(r, f), f = H!Then(r) \/ f = [rnd[r] EXCEPT !.pc = "insert"],
           UNCHANGED <<now, hours, tele, worked>>
    PROVE  ChargeInv'
<1> DEFINE w == rnd[r].writes
           u == w[1]
           D == u.d
           z == IF rnd[r].dec.action = "send" THEN u.explain.levels \cup {rnd[r].dec.level}
                ELSE u.explain.levels
           e == [u.explain EXCEPT !.levels = z]
<1>1. RoundOK(rnd[r])
  BY DEF HealthInv, RoundKeeps
<1>2. w # <<>> /\ 1 \in 1 .. Len(w) /\ Head(w) = u
  <2>1. PICK S : w \in Seq(S)
    BY <1>1 DEF RoundOK
  <2> QED BY <1>1, <2>1, EmptySeq DEF RoundOK
<1>3. D \in H!Devices /\ ChargeFits(u.explain, D)
  BY <1>1, <1>2 DEF RoundOK, ChargeInv, WritesFit
<1>4. explain' = [explain EXCEPT ![D] = e] /\ H!Touches(r, D, f)
  BY <1>2 DEF H!Written
<1> HIDE DEF z
<1>5. {"lastTs", "lastHours", "used", "since", "done"} \subseteq DOMAIN u.explain
  BY <1>3 DEF ChargeFits, ChargeOK
<1>6. /\ e.lastTs = u.explain.lastTs /\ e.lastHours = u.explain.lastHours /\ e.used = u.explain.used
      /\ e.since = u.explain.since /\ e.done = u.explain.done /\ DOMAIN e = DOMAIN u.explain
  <2> DEFINE x == u.explain
  <2> HIDE DEF x
  <2>1. {"lastTs", "lastHours", "used", "since", "done"} \subseteq DOMAIN x
    BY <1>5 DEF x
  <2>2. e = [x EXCEPT !.levels = z]
    BY DEF x
  <2> QED BY <2>1, <2>2 DEF x
<1> HIDE DEF e, u
<1>7. ChargeFits(e, D)
  BY <1>3, <1>6 DEF ChargeFits, ChargeOK, Uncounted
<1> HIDE DEF D
<1>8. \A g \in H!Devices : ChargeFits(explain'[g], g)
  BY <1>3, <1>4, <1>7 DEF ChargeInv, HealthInv, HealthShapes
<1>9. WritesFit(f) /\ ~Reading(f)
  <2>1. CASE f = H!Then(r)
    BY <1>2, <2>1, ThenFits
  <2>2. CASE f = [rnd[r] EXCEPT !.pc = "insert"]
    <3>1. f.pc = "insert" /\ f.writes = w
      BY <1>1, <2>2 DEF RoundOK, H!Idle
    <3> QED BY <3>1 DEF ChargeInv, WritesFit, Reading
  <2> QED BY <2>1, <2>2
<1> QED BY <1>4, <1>8, <1>9, TouchesCharge

\* The transaction that stores the charge
LEMMA WriteHealthCharge ==
    ASSUME H!HealthConstants, HealthInv, ChargeInv, NEW r \in Replicas, H!WriteHealth(r)
    PROVE  ChargeInv'
<1> DEFINE f == IF rnd[r].dec.action = "none" THEN H!Then(r) ELSE [rnd[r] EXCEPT !.pc = "insert"]
<1>1. rnd[r].pc = "write" /\ H!Written(r, f) /\ UNCHANGED <<now, hours, tele, worked>>
  BY DEF H!WriteHealth, H!world
<1>2. f = H!Then(r) \/ f = [rnd[r] EXCEPT !.pc = "insert"]
  OBVIOUS
<1> HIDE DEF f
<1> QED BY <1>1, <1>2, WrittenCharge

\* A reminder changes no charge.
LEMMA InsertReminderCharge ==
    ASSUME H!HealthConstants, HealthInv, ChargeInv, NEW r \in Replicas, H!InsertReminder(r)
    PROVE  ChargeInv'
<1>1. /\ rnd[r].pc = "insert" /\ UNCHANGED <<now, hours, tele, worked, explain>>
      /\ H!Touches(r, Head(rnd[r].writes).d, H!Then(r))
  BY DEF H!InsertReminder, H!world
<1>2. rnd[r].writes # <<>>
  BY <1>1 DEF HealthInv, RoundKeeps, RoundOK
<1>3. WritesFit(H!Then(r)) /\ ~Reading(H!Then(r))
  BY <1>1, <1>2, ThenFits
<1>4. \A d \in H!Devices : ChargeFits(explain'[d], d)
  BY <1>1 DEF ChargeInv
<1> QED BY <1>1, <1>3, <1>4, TouchesCharge

\* A statement that fails, an aborted round
LEMMA FailsCharge ==
    ASSUME H!HealthConstants, HealthInv, ChargeInv, NEW r \in Replicas, H!StatementFails(r) \/ H!RoundAborts(r)
    PROVE  ChargeInv'
<1>1. CASE H!RoundAborts(r)
  <2>1. rnd' = [rnd EXCEPT ![r] = H!Idle] /\ UNCHANGED <<now, hours, tele, worked, explain>>
    BY <1>1 DEF H!RoundAborts, H!Goes, H!world, H!tables
  <2> QED BY <2>1, IdleFits, RoundOnlyCharge
<1>2. CASE H!StatementFails(r)
  <2>1. UNCHANGED <<now, hours, tele, worked>>
    BY <1>2 DEF H!StatementFails, H!world
  <2>2. CASE rnd[r].pc = "write" /\ H!Written(r, H!Then(r))
    BY <2>1, <2>2, WrittenCharge
  <2>3. CASE /\ rnd[r].pc \in {"decide", "write", "insert"} /\ H!Goes(r, H!Then(r))
             /\ UNCHANGED <<H!tables, rewound>>
    <3>1. rnd[r].writes # <<>>
      BY <2>3 DEF HealthInv, RoundKeeps, RoundOK
    <3>2. WritesFit(H!Then(r)) /\ ~Reading(H!Then(r))
      BY <2>3, <3>1, ThenFits
    <3> QED BY <2>1, <2>3, <3>2, RoundOnlyCharge DEF H!Goes, H!tables
  <2> QED BY <1>2, <2>2, <2>3 DEF H!StatementFails
<1> QED BY <1>1, <1>2

\* However the rounds of several replicas overlap
THEOREM ChargeInvariant == H!Spec => []ChargeInv
<1>1. H!Init => ChargeInv
  BY ChargeInit, ServiceConstants
<1>2. HealthInv /\ ChargeInv /\ [H!Next]_H!vars => ChargeInv'
  <2> SUFFICES ASSUME HealthInv, ChargeInv, [H!Next]_H!vars PROVE ChargeInv'
    OBVIOUS
  <2>1. CASE H!World \/ UNCHANGED H!vars
    BY <2>1, WorldCharge, ServiceConstants
  <2>2. ASSUME NEW r \in Replicas,
               H!RoundStep(r) \/ H!PartialRound(r) \/ H!StatementFails(r) \/ H!RoundAborts(r)
        PROVE  ChargeInv'
    BY <2>2, RoundStartCharge, ReadRowCharge, ScoreDeviceCharge, CommitDecideCharge, WriteHealthCharge,
       InsertReminderCharge, FailsCharge, ServiceConstants DEF H!RoundStep
  <2> QED BY <2>1, <2>2 DEF H!Next
<1> QED BY <1>1, <1>2, HealthInvariant, PTL DEF H!Spec

\* RunOnce and scoreDevice: a module is never charged more hours than its device
\* has worked since the charge began, for any number of replicas, devices and
\* hours, whichever rounds overlap, are retried or are aborted half-way.
THEOREM HoursNeverOvercharged == H!Spec => []NeverOvercharged
<1>1. ChargeInv => NeverOvercharged
  <2> SUFFICES ASSUME ChargeInv, NEW d \in H!Devices
               PROVE  explain[d].used <= worked[d][explain[d].lastTs] - explain[d].since
    BY DEF NeverOvercharged, H!NeverOvercharged
  <2> DEFINE e == explain[d]
  <2>1. ChargeOK(e, tele[d], worked[d], hours[d], now) /\ DeviceOK(tele[d], worked[d], hours[d], now)
    BY DEF ChargeInv, ChargeFits
  <2> HIDE DEF e
  <2>2. /\ e.used \in Int /\ e.since \in Int /\ e.done \in Int /\ e.used <= e.done - e.since
        /\ e.done <= worked[d][e.lastTs] /\ e.lastTs \in 0 .. MaxNow
    BY <2>1, HealthNumbers, ServiceConstants DEF ChargeOK, DeviceOK
  <2>3. worked[d][e.lastTs] \in Nat
    BY <2>1, <2>2, GrownTypes, HealthNumbers, ServiceConstants DEF DeviceOK
  <2>4. e.used <= worked[d][e.lastTs] - e.since
    BY <2>2, <2>3
  <2> QED BY <2>4 DEF e
<1> QED BY <1>1, ChargeInvariant, PTL


-----------------------------------------------------------------------------
(* Filter. A round writes the row it has computed over whatever is there   *)
(* by then. That is harmless only because every row a round computes is    *)
(* right by itself: LifeOK says so of the row that is stored, of the one a *)
(* round has read and of the one it is about to write, and the hours that  *)
(* pass, are worked or whose frames come late leave it so.                 *)

\* The instances have their own names for Cardinality.
LEMMA SameFilterCardinality == ASSUME NEW S PROVE F!Cardinality(S) = Cardinality(S)
BY Zenon DEF F!Cardinality, Cardinality

\* The hours of the purifier that a row answers for.
Since(l) == {t \in ran : l.start <= t /\ t <= F!LastHour(l)}

\* What holds of every row that was read or made up, and of the one stored.
LifeOK(l) ==
    /\ DOMAIN l = DOMAIN F!NoLife
    /\ {l.start, l.installed, l.last, l.run, l.volume} \subseteq Int
    /\ l.row /\ l.start = l.installed /\ (l.last = F!NoHour \/ l.last >= l.start)
    /\ l.last = F!NoHour => l.run = 0
    /\ F!LastHour(l) < hour
    /\ \A t \in l.missed : t \in Int /\ t <= F!LastHour(l)
    /\ l.run <= Cardinality(Since(l) \ l.missed)
    /\ l.run >= Cardinality(Since(l) \ (l.missed \cup late))
    /\ l.run <= l.volume /\ l.volume <= 2 * l.run

FilterShapes ==
    /\ hour \in Nat \ {0} /\ ran \subseteq 1 .. hour /\ late \subseteq ran
    /\ purifier.installed \in Int /\ purifier.installed <= hour /\ DOMAIN purifier = {"installed", "high"}
    /\ DOMAIN round = Rounds
FilterRoundOK(q) ==
    /\ DOMAIN q = DOMAIN F!IdleRound
    /\ q.cur \in Nat /\ q.cur <= hour
    /\ q.pc # "idle" => q.cur > 0
    /\ q.pc \in {"query", "write"} => LifeOK(q.life)
    /\ q.pc = "query" => /\ F!LastHour(q.life) < q.cur - 1
                         /\ q.from \in Int /\ F!LastHour(q.life) < q.from /\ q.from <= q.cur
    /\ q.pc = "write" => q.life.last # F!NoHour
FilterInv ==
    /\ FilterShapes
    /\ life.row => LifeOK(life) /\ life.last # F!NoHour
    /\ \A r \in Rounds : FilterRoundOK(round[r])

\* Hours that are counted are finitely many.
LEMMA HoursFinite ==
    ASSUME NEW n \in Nat, NEW S, S \subseteq 1 .. n
    PROVE  IsFiniteSet(S) /\ Cardinality(S) \in Nat /\ \A T \in SUBSET S : Cardinality(T) <= Cardinality(S)
<1>1. IsFiniteSet(1 .. n)
  BY FS_Interval
<1>2. IsFiniteSet(S)
  BY <1>1, FS_Subset
<1> QED BY <1>2, FS_CardinalityType, FS_Subset

\* Disjoint finite sets add up.
LEMMA DisjointUnion ==
    ASSUME NEW S, NEW T, IsFiniteSet(S), IsFiniteSet(T), S \cap T = {}
    PROVE  IsFiniteSet(S \cup T) /\ Cardinality(S \cup T) = Cardinality(S) + Cardinality(T)
<1>1. Cardinality(S \cap T) = 0
  BY FS_EmptySet
<1>2. Cardinality(S) \in Nat /\ Cardinality(T) \in Nat
  BY FS_CardinalityType
<1>3. IsFiniteSet(S \cup T) /\ Cardinality(S \cup T) = Cardinality(S) + Cardinality(T) - Cardinality(S \cap T)
  BY FS_Union
<1> QED BY <1>1, <1>2, <1>3

\* Hours that pass, are worked or whose frames come late leave a row right.
LEMMA LifeStays ==
    ASSUME FilterShapes, FilterShapes', NEW l, LifeOK(l), hour <= hour', ran \subseteq ran', late \subseteq late',
           \A t \in ran' : t \in ran \/ t \in late' \/ t = hour
    PROVE  LifeOK(l)'
<1>1. /\ DOMAIN l = DOMAIN F!NoLife
      /\ {l.start, l.installed, l.last, l.run, l.volume} \subseteq Int
      /\ l.row /\ l.start = l.installed /\ (l.last = F!NoHour \/ l.last >= l.start)
      /\ l.last = F!NoHour => l.run = 0
      /\ F!LastHour(l) < hour
      /\ \A t \in l.missed : t \in Int /\ t <= F!LastHour(l)
      /\ l.run <= l.volume /\ l.volume <= 2 * l.run
  BY DEF LifeOK
<1>2. F!LastHour(l) \in Int /\ hour \in Int /\ hour' \in Nat
  BY <1>1 DEF F!LastHour, FilterShapes
<1>3. Since(l) \ l.missed \subseteq Since(l)' \ l.missed
  BY DEF Since
<1>4. Since(l)' \ (l.missed \cup late') \subseteq Since(l) \ (l.missed \cup late)
  BY <1>1, <1>2 DEF Since
<1>5. Since(l)' \subseteq 1 .. hour' /\ Since(l) \subseteq 1 .. hour /\ hour \in Nat
  BY DEF Since, FilterShapes
<1>6. l.run <= Cardinality(Since(l)' \ l.missed)
  <2>1. /\ Cardinality(Since(l) \ l.missed) <= Cardinality(Since(l)' \ l.missed)
        /\ Cardinality(Since(l) \ l.missed) \in Nat /\ Cardinality(Since(l)' \ l.missed) \in Nat
    BY <1>2, <1>3, <1>5, HoursFinite
  <2> QED BY <1>1, <2>1 DEF LifeOK
<1>7. l.run >= Cardinality(Since(l)' \ (l.missed \cup late'))
  <2>1. /\ Cardinality(Since(l)' \ (l.missed \cup late')) <= Cardinality(Since(l) \ (l.missed \cup late))
        /\ Cardinality(Since(l) \ (l.missed \cup late)) \in Nat
        /\ Cardinality(Since(l)' \ (l.missed \cup late')) \in Nat
    BY <1>2, <1>4, <1>5, HoursFinite
  <2> QED BY <1>1, <2>1 DEF LifeOK
<1> QED BY <1>1, <1>2, <1>6, <1>7 DEF LifeOK, F!LastHour

\* The row that Query computes.
Queried(l, from, cur, high) ==
    [F!FilterSteps(l, F!HourlyQuery(from, cur), high)
        EXCEPT !.last = cur - 1, !.missed = @ \cup F!LastHour(l) + 1 .. from - 1]

\* A round adds the hours between the last charged one and its own, but for
\* those it leaves out.
LEMMA QueryCharges ==
    ASSUME FilterShapes, NEW l, LifeOK(l), NEW from \in Int, NEW cur \in Nat \ {0}, cur <= hour, F!LastHour(l) < cur - 1,
           F!LastHour(l) < from, from <= cur, NEW high
    PROVE  LET m == Queried(l, from, cur, high) IN LifeOK(m) /\ F!LastHour(m) = cur - 1 /\ m.last # F!NoHour
<1> DEFINE m == Queried(l, from, cur, high)
           K == F!LastHour(l)
           hs == F!HourlyQuery(from, cur)
           n == Cardinality(hs)
           made == K + 1 .. from - 1
<1>1. /\ DOMAIN l = DOMAIN F!NoLife
      /\ {l.start, l.installed, l.last, l.run, l.volume} \subseteq Int
      /\ l.row /\ l.start = l.installed /\ (l.last = F!NoHour \/ l.last >= l.start)
      /\ \A t \in l.missed : t \in Int /\ t <= K
      /\ l.run <= l.volume /\ l.volume <= 2 * l.run
  BY DEF LifeOK
<1>2. K \in Int /\ K >= l.start - 1 /\ K < cur - 1 /\ K < from
  BY <1>1 DEF F!LastHour
<1>3. hs \subseteq 1 .. hour /\ hour \in Nat /\ n \in Nat /\ IsFiniteSet(hs)
  BY HoursFinite DEF F!HourlyQuery, FilterShapes
<1>4. n <= n * F!PressureFactor(high) /\ n * F!PressureFactor(high) <= 2 * n /\ n * F!PressureFactor(high) \in Nat
  <2>1. CASE high
    BY <1>3, <2>1 DEF F!PressureFactor
  <2>2. CASE ~high
    BY <1>3, <2>2 DEF F!PressureFactor
  <2> QED BY <2>1, <2>2
<1>5. /\ DOMAIN m = DOMAIN l /\ m.row = l.row /\ m.start = l.start /\ m.installed = l.installed
      /\ m.last = cur - 1 /\ m.missed = l.missed \cup made
      /\ m.run = l.run + n /\ m.volume = l.volume + n * F!PressureFactor(high)
  BY <1>1, SameFilterCardinality DEF Queried, F!FilterSteps, F!NoLife
<1> HIDE DEF m
<1>6. F!LastHour(m) = cur - 1 /\ m.last # F!NoHour
  BY <1>1, <1>2, <1>5 DEF F!LastHour, F!NoHour
<1>7. ASSUME NEW t \in ran
      PROVE  /\ t \in Int
             /\ t \in hs <=> from <= t /\ t <= cur - 1
             /\ t \in Since(l) <=> l.start <= t /\ t <= K
             /\ t \in Since(m) <=> l.start <= t /\ t <= cur - 1
             /\ t \in m.missed <=> t \in l.missed \/ (K < t /\ t < from)
             /\ t \in l.missed => t <= K
  <2>1. t \in Int
    BY DEF FilterShapes
  <2>2. t \in hs <=> from <= t /\ t <= cur - 1
    BY <2>1 DEF F!HourlyQuery
  <2>3. (t \in Since(l) <=> l.start <= t /\ t <= K) /\ (t \in Since(m) <=> l.start <= t /\ t <= cur - 1)
    BY <1>5, <1>6 DEF Since
  <2>4. t \in made <=> K < t /\ t < from
    BY <1>2, <2>1
  <2> QED BY <1>1, <1>5, <2>1, <2>2, <2>3, <2>4
<1>8. Since(l) \subseteq ran /\ Since(m) \subseteq ran /\ hs \subseteq ran
  BY DEF Since, F!HourlyQuery
<1> HIDE DEF K, hs, made
<1>9. ASSUME NEW t \in ran
      PROVE  /\ t \in Since(m) /\ t \notin m.missed <=> (t \in Since(l) /\ t \notin l.missed) \/ t \in hs
             /\ ~(t \in Since(l) /\ t \in hs)
  BY <1>1, <1>2, <1>7
<1> DEFINE old == Since(l) \ l.missed
           new == Since(m) \ m.missed
           oldSure == Since(l) \ (l.missed \cup late)
           newSure == Since(m) \ (m.missed \cup late)
<1>10. new = old \cup hs /\ old \cap hs = {} /\ newSure \subseteq oldSure \cup hs /\ oldSure \cap hs = {}
  <2> DEFINE before == Since(l)
             after == Since(m)
             left == l.missed
             skips == m.missed
  <2>1. before \subseteq ran /\ after \subseteq ran /\ hs \subseteq ran
    BY <1>8
  <2>2. \A t \in ran : (t \in after /\ t \notin skips <=> (t \in before /\ t \notin left) \/ t \in hs) /\ ~(t \in before /\ t \in hs)
    BY <1>9
  <2> HIDE DEF before, after, left, skips
  <2>3. after \ skips = (before \ left) \cup hs
    BY ONLY <2>1, <2>2
  <2>4. (before \ left) \cap hs = {} /\ (before \ (left \cup late)) \cap hs = {}
    BY ONLY <2>1, <2>2
  <2>5. after \ (skips \cup late) \subseteq (before \ (left \cup late)) \cup hs
    BY ONLY <2>1, <2>2
  <2> QED BY <2>3, <2>4, <2>5 DEF before, after, left, skips
<1>11. old \subseteq 1 .. hour /\ oldSure \subseteq 1 .. hour /\ newSure \subseteq 1 .. hour
  BY DEF Since, FilterShapes
<1>12. l.run <= Cardinality(old) /\ l.run >= Cardinality(oldSure)
  BY DEF LifeOK
<1> HIDE DEF old, new, oldSure, newSure
<1>13. /\ IsFiniteSet(old) /\ IsFiniteSet(oldSure) /\ Cardinality(old) \in Nat /\ Cardinality(oldSure) \in Nat
       /\ Cardinality(newSure) \in Nat
  BY <1>3, <1>11, HoursFinite
<1>14. m.run <= Cardinality(new)
  <2>1. Cardinality(old \cup hs) = Cardinality(old) + n
    BY <1>3, <1>10, <1>13, DisjointUnion
  <2> QED BY <1>1, <1>3, <1>5, <1>10, <1>12, <1>13, <2>1
<1>15. m.run >= Cardinality(newSure)
  <2>1. IsFiniteSet(oldSure \cup hs) /\ Cardinality(oldSure \cup hs) = Cardinality(oldSure) + n
    BY <1>3, <1>10, <1>13, DisjointUnion
  <2>2. Cardinality(newSure) <= Cardinality(oldSure \cup hs)
    BY <1>10, <2>1, FS_Subset
  <2> QED BY <1>1, <1>3, <1>5, <1>12, <1>13, <2>1, <2>2
<1>16. \A t \in m.missed : t \in Int /\ t <= cur - 1
  BY <1>1, <1>2, <1>5 DEF made
<1> HIDE DEF n
<1>17. m.last >= m.start /\ cur - 1 < hour /\ cur - 1 \in Int
  BY <1>1, <1>2, <1>3, <1>5
<1>18. m.run <= m.volume /\ m.volume <= 2 * m.run /\ {m.run, m.volume} \subseteq Int
  BY <1>1, <1>3, <1>4, <1>5
<1> QED BY <1>1, <1>5, <1>6, <1>14, <1>15, <1>16, <1>17, <1>18 DEF LifeOK, new, newSure, m

\* old row made up for a purifier that has none.
LEMMA MadeUpOK ==
    ASSUME FilterShapes, NEW cur \in Nat, cur <= hour, ~life.row
    PROVE  LifeOK(F!Life(cur)) \/ F!LastHour(F!Life(cur)) + 1 >= cur
<1> DEFINE l == F!Life(cur)
           at == F!Installed(cur)
<1>1. at \in Int
  BY DEF F!Installed, FilterShapes
<1>2. /\ DOMAIN l = DOMAIN F!NoLife /\ l.row /\ l.start = at /\ l.installed = at /\ l.last = F!NoHour
      /\ l.run = 0 /\ l.volume = 0 /\ l.missed = {}
  BY DEF F!Life, F!NoLife
<1>3. F!LastHour(l) = at - 1
  BY <1>2 DEF F!LastHour
<1> HIDE DEF l, at
<1>4. Since(l) = {}
  <2>1. \A t \in ran : t \in Int
    BY DEF FilterShapes
  <2> QED BY <1>1, <1>2, <1>3, <2>1 DEF Since
<1>5. Cardinality({}) = 0 /\ {} \ l.missed = {} /\ {} \ (l.missed \cup late) = {}
  BY FS_EmptySet
<1>6. ASSUME ~(at >= cur) PROVE LifeOK(l)
  <2>1. at - 1 < hour
    BY <1>1, <1>6 DEF FilterShapes
  <2>2. l.run <= Cardinality(Since(l) \ l.missed) /\ l.run >= Cardinality(Since(l) \ (l.missed \cup late))
    BY <1>2, <1>4, <1>5
  <2> QED BY <1>1, <1>2, <1>3, <2>1, <2>2 DEF LifeOK, F!NoHour
<1> QED BY <1>1, <1>3, <1>6 DEF l

LEMMA FilterInit == F!FilterConstants /\ F!Init => FilterInv
<1> SUFFICES ASSUME F!FilterConstants, F!Init PROVE FilterInv
  OBVIOUS
<1>1. FilterShapes
  BY DEF F!Init, FilterShapes, F!NoHour
<1>2. ~life.row
  BY DEF F!Init, F!NoLife
<1>3. \A r \in Rounds : FilterRoundOK(round[r])
  BY DEF F!Init, FilterRoundOK, F!IdleRound
<1> QED BY <1>1, <1>2, <1>3 DEF FilterInv

\* An idle round holds nothing.
LEMMA IdleRoundOK == ASSUME FilterShapes PROVE FilterRoundOK(F!IdleRound)
BY DEF FilterRoundOK, F!IdleRound, FilterShapes

\* The world and other rounds' steps leave what a round holds right.
LEMMA RoundStays ==
    ASSUME FilterShapes, FilterShapes', NEW q, FilterRoundOK(q), hour <= hour', ran \subseteq ran',
           late \subseteq late', \A t \in ran' : t \in ran \/ t \in late' \/ t = hour
    PROVE  FilterRoundOK(q)'
<1>1. hour \in Nat /\ hour' \in Nat
  BY DEF FilterShapes
<1>2. LifeOK(q.life) => LifeOK(q.life)'
  BY LifeStays
<1> QED BY <1>1, <1>2 DEF FilterRoundOK, F!LastHour

LEMMA FilterWorldInv ==
    ASSUME F!FilterConstants, FilterInv, F!Tick \/ F!Run \/ F!Upset \/ UNCHANGED F!vars
    PROVE  FilterInv'
<1>1. FilterShapes
  BY DEF FilterInv
<1>2. /\ hour <= hour' /\ ran \subseteq ran' /\ late \subseteq late'
      /\ \A t \in ran' : t \in ran \/ t \in late' \/ t = hour
      /\ UNCHANGED <<life, round>>
      /\ FilterShapes'
  <2>1. CASE F!Tick
    BY <1>1, <2>1 DEF F!Tick, FilterShapes
  <2>2. CASE F!Run
    BY <1>1, <2>2 DEF F!Run, FilterShapes
  <2>3. CASE F!Upset
    <3>1. hour' = hour /\ hour \in Nat \ {0} /\ UNCHANGED <<life, round>>
      BY <1>1, <2>3 DEF F!Upset, FilterShapes
    <3>2. CASE UNCHANGED <<ran, late>> /\ purifier' \in {[purifier EXCEPT !.installed = hour], [purifier EXCEPT !.high = ~@]}
      BY <1>1, <3>1, <3>2 DEF FilterShapes
    <3>3. ASSUME NEW t \in 1 .. hour - 1, ran' = ran \cup {t}, late' = late \cup {t}, UNCHANGED purifier
          PROVE  /\ ran \subseteq ran' /\ late \subseteq late' /\ FilterShapes'
                 /\ \A u \in ran' : u \in ran \/ u \in late' \/ u = hour
      BY <1>1, <3>1, <3>3 DEF FilterShapes
    <3> QED BY <2>3, <3>1, <3>2, <3>3 DEF F!Upset
  <2>4. CASE UNCHANGED F!vars
    BY <1>1, <2>4 DEF F!vars, FilterShapes
  <2> QED BY <2>1, <2>2, <2>3, <2>4
<1>3. ASSUME life.row PROVE LifeOK(life)' /\ life.last # F!NoHour
  BY <1>1, <1>2, <1>3, LifeStays DEF FilterInv
<1>4. \A r \in Rounds : FilterRoundOK(round[r])'
  BY <1>1, <1>2, RoundStays DEF FilterInv
<1> QED BY <1>2, <1>3, <1>4 DEF FilterInv

\* A step of one round that leaves the world and the other rounds alone.
LEMMA FilterRoundInv ==
    ASSUME FilterInv, NEW r \in Rounds, NEW q, FilterRoundOK(q), round' = [round EXCEPT ![r] = q],
           UNCHANGED <<hour, ran, late, purifier>>, life' = life \/ (LifeOK(life') /\ life'.last # F!NoHour)
    PROVE  FilterInv'
<1>1. DOMAIN round' = Rounds /\ \A s \in Rounds : round'[s] = IF s = r THEN q ELSE round[s]
  BY DEF FilterInv, FilterShapes
<1>2. FilterShapes'
  BY <1>1 DEF FilterInv, FilterShapes
<1>3. \A s \in Rounds : FilterRoundOK(round'[s])
  BY <1>1 DEF FilterInv
<1>4. \A l : LifeOK(l)' = LifeOK(l)
  BY DEF LifeOK, Since
<1>5. \A s \in Rounds : FilterRoundOK(round[s])'
  BY <1>3, <1>4 DEF FilterRoundOK
<1>6. life'.row => LifeOK(life') /\ life'.last # F!NoHour
  BY DEF FilterInv
<1>7. (life.row => LifeOK(life) /\ life.last # F!NoHour)'
  BY <1>6 DEF LifeOK, Since
<1> QED BY <1>2, <1>5, <1>7 DEF FilterInv

LEMMA FilterStepsInv ==
    ASSUME F!FilterConstants, FilterInv, NEW r \in Rounds,
           F!RunOnce(r) \/ F!RunDevice(r) \/ F!Query(r) \/ F!Upsert(r) \/ F!Fails(r)
    PROVE  FilterInv'
<1> DEFINE q == round[r]
<1>1. FilterShapes /\ FilterRoundOK(q) /\ FilterRoundOK(F!IdleRound)
  BY IdleRoundOK DEF FilterInv
<1>2. CASE F!RunOnce(r)
  <2> DEFINE f == [F!IdleRound EXCEPT !.pc = "device", !.cur = hour]
  <2>1. FilterRoundOK(f)
    BY <1>1 DEF FilterRoundOK, F!IdleRound, FilterShapes
  <2>2. round' = [round EXCEPT ![r] = f] /\ UNCHANGED <<hour, ran, late, purifier, life>>
    BY <1>2 DEF F!RunOnce
  <2> HIDE DEF f
  <2> QED BY <2>1, <2>2, FilterRoundInv
<1>3. CASE F!RunDevice(r)
  <2> DEFINE l == F!Life(q.cur)
             f == [pc |-> "query", cur |-> q.cur, life |-> l, from |-> F!From(l, q.cur), high |-> purifier.high]
             g == IF F!LastHour(l) + 1 >= q.cur THEN F!IdleRound ELSE f
  <2>1. round' = [round EXCEPT ![r] = g] /\ q.pc = "device" /\ UNCHANGED <<hour, ran, late, purifier, life>>
    BY <1>3 DEF F!RunDevice
  <2>2. q.cur \in Nat \ {0} /\ q.cur <= hour
    BY <1>1, <2>1 DEF FilterRoundOK
  <2>3. LifeOK(l) \/ F!LastHour(l) + 1 >= q.cur
    <3>1. CASE life.row
      BY <3>1 DEF FilterInv, F!Life
    <3> QED BY <1>1, <2>2, <3>1, MadeUpOK
  <2> HIDE DEF l
  <2>4. ASSUME ~(F!LastHour(l) + 1 >= q.cur) PROVE FilterRoundOK(f)
    <3> DEFINE K == F!LastHour(l)
    <3>1. LifeOK(l) /\ K \in Int /\ K < q.cur - 1
      BY <2>2, <2>3, <2>4 DEF LifeOK, F!LastHour
    <3> HIDE DEF K
    <3>2. F!From(l, q.cur) \in Int /\ K < F!From(l, q.cur) /\ F!From(l, q.cur) <= q.cur
      BY <2>2, <3>1 DEF F!From, F!FilterConstants, K
    <3> QED BY <2>2, <3>1, <3>2 DEF FilterRoundOK, F!IdleRound, K
  <2> HIDE DEF f
  <2>5. FilterRoundOK(g)
    BY <1>1, <2>4
  <2> HIDE DEF g
  <2> QED BY <2>1, <2>5, FilterRoundInv
<1>4. CASE F!Query(r)
  <2> DEFINE m == Queried(q.life, q.from, q.cur, q.high)
             f == [q EXCEPT !.pc = "write", !.from = 0, !.high = FALSE, !.life = m]
  <2>1. round' = [round EXCEPT ![r] = f] /\ q.pc = "query" /\ UNCHANGED <<hour, ran, late, purifier, life>>
    BY <1>4 DEF F!Query, Queried
  <2>2. LifeOK(m) /\ F!LastHour(m) = q.cur - 1 /\ m.last # F!NoHour
    <3>1. /\ LifeOK(q.life) /\ q.from \in Int /\ q.cur \in Nat \ {0} /\ q.cur <= hour
          /\ F!LastHour(q.life) < q.cur - 1 /\ F!LastHour(q.life) < q.from /\ q.from <= q.cur
      BY <1>1, <2>1 DEF FilterRoundOK, FilterShapes
    <3> HIDE DEF q
    <3> QED BY <1>1, <3>1, QueryCharges DEF m
  <2> HIDE DEF m
  <2>3. FilterRoundOK(f)
    BY <1>1, <2>1, <2>2 DEF FilterRoundOK, F!IdleRound
  <2> HIDE DEF f
  <2> QED BY <2>1, <2>3, FilterRoundInv
<1>5. CASE F!Upsert(r)
  <2>1. /\ round' = [round EXCEPT ![r] = F!IdleRound] /\ UNCHANGED <<hour, ran, late, purifier>>
        /\ LifeOK(life') /\ life'.last # F!NoHour
    BY <1>1, <1>5 DEF F!Upsert, FilterRoundOK
  <2> QED BY <1>1, <2>1, FilterRoundInv
<1>6. CASE F!Fails(r)
  <2>1. round' = [round EXCEPT ![r] = F!IdleRound] /\ UNCHANGED <<hour, ran, late, purifier, life>>
    BY <1>6 DEF F!Fails
  <2> QED BY <1>1, <2>1, FilterRoundInv
<1> QED BY <1>2, <1>3, <1>4, <1>5, <1>6

\* runDevice and FilterLifeUpsert: however rounds overlap, overwrite each other
\* or fail, every row that is stored or held by a round is right.
THEOREM FilterInvariant == F!Spec => []FilterInv
<1>1. F!Init => FilterInv
  BY FilterInit, ServiceConstants
<1>2. FilterInv /\ [F!Next]_F!vars => FilterInv'
  BY FilterWorldInv, FilterStepsInv, ServiceConstants DEF F!Next
<1> QED BY <1>1, <1>2, PTL DEF F!Spec

\* runDevice: filter_life has each hour the purifier ran since the filter was
\* installed exactly once, but for hours made up for too late and frames that came
\* late, for any number of rounds, hours and upsets.
THEOREM HoursChargedOnce == F!Spec => []FilterExact
<1>1. FilterInv => FilterExact
  <2> SUFFICES ASSUME FilterInv, life.row PROVE FilterExact
    BY DEF FilterExact, F!FilterExact
  <2>1. LifeOK(life) /\ F!LastHour(life) = life.last
    BY DEF FilterInv, F!LastHour
  <2> QED BY <2>1, SameFilterCardinality DEF FilterExact, F!FilterExact, LifeOK, Since
<1> QED BY <1>1, FilterInvariant, PTL

-----------------------------------------------------------------------------
(* Reco, what marks add up to. Marks are told apart by their times, so the *)
(* fold that Aggregate is keeps the last word of each device and day,      *)
(* whatever came before; from there on rows, and not their order, count.   *)

\* The last word of each device and day among some rows.
LastOf(rows, s) ==
    {i \in s : \A j \in s :
        rows[j].sn = rows[i].sn /\ rows[j].day = rows[i].day => rows[j].at <= rows[i].at}
LastRows(rows, s) == {rows[i] : i \in LastOf(rows, s)}
\* Rows are told apart by their times.
Timed(rows, s, N) ==
    (\A i \in s : rows[i].at \in 0 .. N) /\ \A i, j \in s : rows[i].at = rows[j].at => i = j
SameDay(rows, i, j) == rows[i].sn = rows[j].sn /\ rows[i].day = rows[j].day

\* The instances have their own names for Max and Cardinality.
LEMMA SameRecoMax == ASSUME NEW S PROVE R!Max(S) = P!Max(S)
BY Zenon DEF R!Max, P!Max
\* The same for Cardinality
LEMMA SameRecoCardinality == ASSUME NEW S PROVE R!Cardinality(S) = Cardinality(S)
BY Zenon DEF R!Cardinality, Cardinality

\* Every row is behind the last word of its device and day.
LEMMA LastExists ==
    ASSUME NEW N \in Nat, NEW rows, NEW s, \A i \in s : rows[i].at \in 0 .. N, NEW j \in s
    PROVE  \E i \in LastOf(rows, s) : SameDay(rows, i, j) /\ rows[j].at <= rows[i].at
<1> DEFINE ats == {rows[i].at : i \in {k \in s : SameDay(rows, k, j)}}
           top == P!Max(ats)
<1>1. ats \subseteq 0 .. N /\ rows[j].at \in ats
  BY DEF SameDay
<1>2. top \in ats /\ \A a \in ats : top >= a
  BY <1>1, Greatest
<1>3. PICK i \in s : SameDay(rows, i, j) /\ top = rows[i].at
  BY <1>2
<1> HIDE DEF top
<1>4. \A k \in s : SameDay(rows, k, j) => rows[k].at \in ats
  OBVIOUS
<1>5. \A k \in s : SameDay(rows, k, j) => rows[k].at <= rows[i].at
  <2> SUFFICES ASSUME NEW k \in s, SameDay(rows, k, j) PROVE rows[k].at <= rows[i].at
    OBVIOUS
  <2>1. top >= rows[k].at /\ rows[k].at \in 0 .. N /\ rows[i].at \in 0 .. N
    BY <1>2, <1>4
  <2> HIDE DEF ats
  <2> QED BY <1>3, <2>1
<1>6. i \in LastOf(rows, s)
  BY <1>3, <1>5 DEF LastOf, SameDay
<1> QED BY <1>3, <1>5, <1>6 DEF SameDay

\* Keep, row by row
LEMMA KeepsLast ==
    ASSUME NEW N \in Nat, NEW rows, NEW s, Timed(rows, s, N), NEW m \in s, NEW t, t = s \ {m}
    PROVE  LastRows(rows, s) = R!Keep(LastRows(rows, t), rows[m])
<1> USE DEF Timed
<1> DEFINE latest == LastRows(rows, t)
           cur == {x \in latest : x.sn = rows[m].sn /\ x.day = rows[m].day}
<1>1. R!Keep(latest, rows[m]) = IF \A x \in cur : rows[m].at > x.at THEN (latest \ cur) \cup {rows[m]} ELSE latest
  BY DEF R!Keep
<1> USE DEF LastRows
<1>2. CASE \A x \in cur : rows[m].at > x.at
  <2>1. m \in LastOf(rows, s)
    <3> SUFFICES ASSUME NEW j \in s, SameDay(rows, j, m) PROVE rows[j].at <= rows[m].at
      BY DEF LastOf, SameDay
    <3>1. CASE j = m
      <4>1. rows[m].at \in 0 .. N
        OBVIOUS
      <4> QED BY <3>1, <4>1
    <3>2. CASE j # m
      <4>1. j \in t /\ \A i \in t : rows[i].at \in 0 .. N
        BY <3>2
      <4>2. PICK i \in LastOf(rows, t) : SameDay(rows, i, j) /\ rows[j].at <= rows[i].at
        BY <4>1, LastExists
      <4>3. rows[i] \in cur
        BY <4>2 DEF SameDay
      <4>4. i \in s
        BY DEF LastOf
      <4>5. rows[m].at > rows[i].at
        BY <1>2, <4>3
      <4>6. rows[m].at \in 0 .. N /\ rows[i].at \in 0 .. N /\ rows[j].at \in 0 .. N
        BY <4>4
      <4> QED BY <4>2, <4>5, <4>6
    <3> QED BY <3>1, <3>2
  <2>2. ASSUME NEW i \in LastOf(rows, s) PROVE i = m \/ (i \in LastOf(rows, t) /\ ~SameDay(rows, i, m))
    <3>1. i \in s /\ \A j \in s : SameDay(rows, j, i) => rows[j].at <= rows[i].at
      BY DEF LastOf, SameDay
    <3>2. ASSUME i # m PROVE i \in LastOf(rows, t)
      BY <3>1, <3>2 DEF LastOf, SameDay
    <3>3. ASSUME SameDay(rows, i, m) PROVE i = m
      <4>1. rows[m].at <= rows[i].at /\ rows[i].at <= rows[m].at
        BY <2>1, <3>1, <3>3 DEF LastOf, SameDay
      <4>2. rows[i].at \in 0 .. N /\ rows[m].at \in 0 .. N
        BY <3>1
      <4>3. rows[i].at = rows[m].at
        BY <4>1, <4>2
      <4> QED BY <3>1, <4>3
    <3> QED BY <3>2, <3>3
  <2>3. ASSUME NEW i \in LastOf(rows, t), ~SameDay(rows, i, m) PROVE i \in LastOf(rows, s)
    BY <2>3 DEF LastOf, SameDay
  <2>4. \A i \in LastOf(rows, t) : rows[i] \in cur <=> SameDay(rows, i, m)
    BY DEF SameDay
  <2>5. {rows[i] : i \in LastOf(rows, s)} = (latest \ cur) \cup {rows[m]}
    <3> DEFINE all == {rows[i] : i \in LastOf(rows, s)}
               kept == (latest \ cur) \cup {rows[m]}
    <3>1. ASSUME NEW y \in all PROVE y \in kept
      <4>1. PICK i \in LastOf(rows, s) : y = rows[i]
        BY <3>1
      <4> QED BY <2>2, <2>4, <4>1
    <3>2. ASSUME NEW y \in kept PROVE y \in all
      <4>1. CASE y = rows[m]
        BY <2>1, <4>1
      <4>2. CASE y \in latest \ cur
        <5>1. PICK i \in LastOf(rows, t) : y = rows[i]
          BY <4>2
        <5> QED BY <2>3, <2>4, <4>2, <5>1
      <4> QED BY <3>2, <4>1, <4>2
    <3> QED BY <3>1, <3>2
  <2> QED BY <1>1, <1>2, <2>5
<1>3. CASE ~ \A x \in cur : rows[m].at > x.at
  <2>1. PICK k \in LastOf(rows, t) : SameDay(rows, k, m) /\ ~(rows[m].at > rows[k].at)
    BY <1>3 DEF SameDay
  <2>2. k \in s /\ k # m /\ rows[m].at < rows[k].at
    <3>1. k \in s /\ k # m
      BY DEF LastOf
    <3>2. rows[k].at \in 0 .. N /\ rows[m].at \in 0 .. N /\ rows[k].at # rows[m].at
      BY <3>1
    <3> QED BY <2>1, <3>1, <3>2
  <2>3. m \notin LastOf(rows, s)
    <3>1. rows[k].at \in 0 .. N /\ rows[m].at \in 0 .. N
      BY <2>2
    <3>2. ~(rows[k].at <= rows[m].at)
      BY <2>2, <3>1
    <3> QED BY <2>1, <2>2, <3>2 DEF LastOf, SameDay
  <2>4. ASSUME NEW i \in LastOf(rows, t) PROVE i \in LastOf(rows, s)
    <3>1. i \in t /\ \A j \in t : SameDay(rows, j, i) => rows[j].at <= rows[i].at
      BY DEF LastOf, SameDay
    <3>2. ASSUME SameDay(rows, m, i) PROVE rows[m].at <= rows[i].at
      <4>1. rows[k].at <= rows[i].at
        BY <2>1, <2>2, <3>1, <3>2 DEF SameDay
      <4>2. rows[k].at \in 0 .. N /\ rows[m].at \in 0 .. N /\ rows[i].at \in 0 .. N
        BY <2>2, <3>1
      <4> QED BY <2>2, <4>1, <4>2
    <3> QED BY <3>1, <3>2 DEF LastOf, SameDay
  <2>5. ASSUME NEW i \in LastOf(rows, s) PROVE i \in LastOf(rows, t)
    BY <2>3 DEF LastOf
  <2>6. LastOf(rows, s) = LastOf(rows, t)
    BY <2>4, <2>5
  <2> QED BY <1>1, <1>3, <2>6
<1> QED BY <1>2, <1>3

\* Aggregate keeps the last word of each device and day, in whatever order the
\* rows come.
LEMMA LatestCollects ==
    ASSUME NEW N \in Nat, NEW n \in Nat, NEW rows, DOMAIN rows = 1 .. n,
           \A i \in 1 .. n : rows[i].at \in 0 .. N,
           \A i, j \in 1 .. n : rows[i].at = rows[j].at => i = j
    PROVE  R!Latest(rows) = LastRows(rows, 1 .. n)
<1> DEFINE S == 1 .. n
           x(s) == R!Max(s)
           Step(f) == [s \in SUBSET S |-> IF s = {} THEN {} ELSE R!Keep(f[s \ {x(s)}], rows[x(s)])]
           iter == CHOOSE f : f = Step(f)
           last == [s \in SUBSET S |-> LastRows(rows, s)]
<1>1. R!Latest(rows) = iter[S]
  BY Zenon DEF R!Latest, R!FoldLeft, R!MapThenFoldSet
<1>2. IsFiniteSet(S) /\ S \subseteq 0 .. n
  BY FS_Interval
<1>0. /\ \A i \in S : rows[i].at \in 0 .. N
      /\ \A i, j \in S : rows[i].at = rows[j].at => i = j
  OBVIOUS
<1> HIDE DEF S
<1>3. \A s \in SUBSET S : s # {} => x(s) \in s /\ s \ {x(s)} \in SUBSET S
  <2> SUFFICES ASSUME NEW s \in SUBSET S, s # {} PROVE x(s) \in s
    OBVIOUS
  <2>1. s \subseteq 0 .. n
    BY <1>2
  <2> QED BY <2>1, Greatest, SameRecoMax
<1> HIDE DEF x
<1>4. ASSUME NEW s \in SUBSET S, s # {}
      PROVE  last[s] = R!Keep(last[s \ {x(s)}], rows[x(s)])
  <2>1. x(s) \in s /\ s \ {x(s)} \in SUBSET S
    BY <1>3, <1>4
  <2>2. Timed(rows, s, N)
    BY <1>0 DEF Timed
  <2> DEFINE m == x(s)
             t == s \ {m}
  <2>4. m \in s /\ t = s \ {m}
    BY <2>1
  <2> HIDE DEF m, t, last
  <2>3. LastRows(rows, s) = R!Keep(LastRows(rows, t), rows[m])
    BY <2>2, <2>4, KeepsLast
  <2> QED BY <2>1, <2>3 DEF m, t, last
<1>5. last[{}] = {}
  BY DEF LastOf, LastRows
<1> HIDE DEF last
<1>6. iter = Step(iter)
  <2>1. last = Step(last)
    <3>1. ASSUME NEW s \in SUBSET S PROVE last[s] = Step(last)[s]
      BY <1>4, <1>5
    <3>2. last = [s \in SUBSET S |-> last[s]]
      BY DEF last
    <3> QED BY <3>1, <3>2
  <2> HIDE DEF Step, last
  <2> QED BY <2>1
<1> HIDE DEF iter
<1> DEFINE wrong == {s \in SUBSET S : iter[s] # last[s]}
<1>7. wrong = {}
  <2>1. SUFFICES ASSUME wrong # {} PROVE FALSE
    OBVIOUS
  <2> HIDE DEF wrong
  <2>2. wrong \subseteq SUBSET S
    BY DEF wrong
  <2>9. IsFiniteSet(S) /\ wrong \subseteq SUBSET S /\ wrong # {}
    BY <1>2, <2>1, <2>2
  <2>3. PICK m \in wrong : \A y \in wrong : y \subseteq m => y = m
    BY <2>9, MinimalSubset
  <2>4. m \in SUBSET S /\ iter[m] # last[m]
    BY <2>3 DEF wrong
  <2>5. m # {}
    BY <1>5, <1>6, <2>4
  <2>6. x(m) \in m /\ m \ {x(m)} \in SUBSET S
    BY <1>3, <2>4, <2>5
  <2> DEFINE q == m \ {x(m)}
  <2>7. iter[q] = last[q]
    BY <2>3, <2>6 DEF wrong
  <2>8. iter[m] = R!Keep(iter[q], rows[x(m)])
    BY <1>6, <2>4, <2>5
  <2> QED BY <1>4, <2>4, <2>5, <2>7, <2>8
<1>8. iter[S] = last[S]
  BY <1>7 DEF wrong
<1>9. last[S] = LastRows(rows, S)
  BY DEF last
<1> QED BY <1>1, <1>8, <1>9 DEF S

\* Marks are appended, today's last.
MarksOK ==
    /\ day \in Nat \ {0}
    /\ marks \in Seq([r : Recos, sn : SNs, day : Nat, good : BOOLEAN, at : Nat])
    /\ \A i \in 1 .. Len(marks) : marks[i].at = i - 1 /\ marks[i].day \in 1 .. day

LEMMA MarkShape ==
    ASSUME MarksOK
    PROVE  /\ Len(marks) \in Nat /\ DOMAIN marks = 1 .. Len(marks) /\ IsFiniteSet(DOMAIN marks)
           /\ \A i \in DOMAIN marks : /\ marks[i].sn \in SNs /\ marks[i].day \in 1 .. day
                                      /\ marks[i].at \in 0 .. Len(marks)
           /\ \A i, j \in DOMAIN marks : marks[i].at = marks[j].at => i = j
<1>1. Len(marks) \in Nat /\ DOMAIN marks = 1 .. Len(marks)
  BY DEF MarksOK
<1>2. IsFiniteSet(1 .. Len(marks))
  BY <1>1, FS_Interval
<1> DEFINE Mark == [r : Recos, sn : SNs, day : Nat, good : BOOLEAN, at : Nat]
<1>3. \A i \in 1 .. Len(marks) : marks[i] \in Mark
  <2>1. marks \in Seq(Mark)
    BY DEF MarksOK
  <2> HIDE DEF Mark
  <2> QED BY <2>1
<1>4. ASSUME NEW i \in 1 .. Len(marks)
      PROVE  marks[i].sn \in SNs /\ marks[i].day \in 1 .. day /\ marks[i].at = i - 1
  BY <1>3 DEF MarksOK
<1>5. \A i \in 1 .. Len(marks) : marks[i].at \in 0 .. Len(marks)
  BY <1>1, <1>4
<1>6. ASSUME NEW i \in 1 .. Len(marks), NEW j \in 1 .. Len(marks), marks[i].at = marks[j].at PROVE i = j
  BY <1>1, <1>4, <1>6
<1> QED BY <1>1, <1>2, <1>4, <1>5, <1>6

\* One to one, elements count alike.
LEMMA SameCount ==
    ASSUME NEW S, NEW T, IsFiniteSet(S), NEW f, \A x \in S : f[x] \in T,
           \A x, y \in S : f[x] = f[y] => x = y, \A y \in T : \E x \in S : y = f[x]
    PROVE  IsFiniteSet(T) /\ Cardinality(T) = Cardinality(S)
<1> DEFINE g == [x \in S |-> f[x]]
<1>1. g \in Bijection(S, T)
  BY DEF Bijection, Injection, Surjection, IsInjective
<1> QED BY <1>1, FS_Bijection DEF ExistsBijection

\* An order of rows goes through each of them once.
LEMMA OrderOfRows ==
    ASSUME NEW rows, IsFiniteSet(rows), NEW order \in R!SetToSeqs(rows)
    PROVE  /\ Cardinality(rows) \in Nat /\ order \in [1 .. Cardinality(rows) -> rows]
           /\ \A j, k \in 1 .. Cardinality(rows) : order[j] = order[k] => j = k
           /\ \A i \in rows : \E k \in 1 .. Cardinality(rows) : order[k] = i
<1> DEFINE n == Cardinality(rows)
<1>1. n \in Nat
  BY FS_CardinalityType
<1>2. /\ order \in [1 .. n -> rows]
      /\ \A j, k \in 1 .. n : order[j] = order[k] => j = k
  BY SameRecoCardinality DEF R!SetToSeqs
<1> HIDE DEF n
<1>3. order \in Injection(1 .. n, rows)
  BY <1>2 DEF Injection, IsInjective
<1>4. IsFiniteSet(1 .. n) /\ Cardinality(1 .. n) = n
  BY <1>1, FS_Interval
<1>5. order \in Surjection(1 .. n, rows)
  BY <1>3, <1>4, FS_Injection DEF n
<1>6. \A i \in rows : \E k \in 1 .. n : order[k] = i
  BY <1>5 DEF Surjection
<1> QED BY <1>1, <1>2, <1>6 DEF n

\* What Aggregate keeps of the rows, in whatever order it reads them
LEMMA LatestOfRead ==
    ASSUME MarksOK, NEW rows \in SUBSET (DOMAIN marks), NEW order \in R!SetToSeqs(rows)
    PROVE  R!Latest(R!RowsOf(order)) = {marks[i] : i \in R!LastWords(rows)}
<1> DEFINE n == Cardinality(rows)
           read == R!RowsOf(order)
<1>1. IsFiniteSet(rows)
  BY MarkShape, FS_Subset
<1>2. /\ n \in Nat /\ order \in [1 .. n -> rows]
      /\ \A j, k \in 1 .. n : order[j] = order[k] => j = k
      /\ \A i \in rows : \E k \in 1 .. n : order[k] = i
  BY <1>1, OrderOfRows
<1> HIDE DEF n
<1>3. DOMAIN read = 1 .. n /\ \A k \in 1 .. n : read[k] = marks[order[k]] /\ order[k] \in rows
  BY <1>2 DEF R!RowsOf
<1> HIDE DEF read
<1>4. /\ Len(marks) \in Nat
      /\ \A k \in 1 .. n : read[k].at \in 0 .. Len(marks)
      /\ \A j, k \in 1 .. n : read[j].at = read[k].at => j = k
  BY <1>2, <1>3, MarkShape
<1>5. R!Latest(read) = LastRows(read, 1 .. n)
  BY <1>2, <1>3, <1>4, LatestCollects
<1>6. \A k \in 1 .. n : k \in LastOf(read, 1 .. n) <=> order[k] \in R!LastWords(rows)
  <2> SUFFICES ASSUME NEW k \in 1 .. n PROVE k \in LastOf(read, 1 .. n) <=> order[k] \in R!LastWords(rows)
    OBVIOUS
  <2>1. ASSUME k \in LastOf(read, 1 .. n) PROVE order[k] \in R!LastWords(rows)
    BY <1>2, <1>3, <2>1 DEF LastOf, R!LastWords
  <2>2. ASSUME order[k] \in R!LastWords(rows) PROVE k \in LastOf(read, 1 .. n)
    BY <1>2, <1>3, <2>2 DEF LastOf, R!LastWords
  <2> QED BY <2>1, <2>2
<1>7. R!LastWords(rows) \subseteq rows /\ LastOf(read, 1 .. n) \subseteq 1 .. n
  BY DEF LastOf, R!LastWords
<1>8. LastRows(read, 1 .. n) = {marks[i] : i \in R!LastWords(rows)}
  BY <1>2, <1>3, <1>6, <1>7 DEF LastRows
<1> QED BY <1>5, <1>8 DEF read

\* Too many marks of one device on one day are too many in any order.
LEMMA FloodOfRead ==
    ASSUME MarksOK, R!RecoConstants, NEW rows \in SUBSET (DOMAIN marks), NEW order \in R!SetToSeqs(rows)
    PROVE  ~R!DeviceFlood(R!RowsOf(order)) <=>
             (MaxPerDeviceDay > 0 => \A s \in SNs, d \in 1 .. day :
                R!Cardinality({i \in rows : marks[i].sn = s /\ marks[i].day = d}) <= MaxPerDeviceDay)
<1> DEFINE n == Cardinality(rows)
           read == R!RowsOf(order)
           Of(s, d) == {i \in rows : marks[i].sn = s /\ marks[i].day = d}
           Read(s, d) == {k \in 1 .. n : read[k].sn = s /\ read[k].day = d}
<1>1. IsFiniteSet(rows)
  BY MarkShape, FS_Subset
<1>2. /\ n \in Nat /\ order \in [1 .. n -> rows]
      /\ \A j, k \in 1 .. n : order[j] = order[k] => j = k
      /\ \A i \in rows : \E k \in 1 .. n : order[k] = i
  BY <1>1, OrderOfRows
<1> HIDE DEF n
<1>3. DOMAIN read = 1 .. n /\ \A k \in 1 .. n : read[k] = marks[order[k]] /\ order[k] \in rows
  BY <1>2 DEF R!RowsOf
<1> HIDE DEF read
<1>4. ASSUME NEW s, NEW d PROVE R!Cardinality(Read(s, d)) = R!Cardinality(Of(s, d)) /\ Cardinality(Of(s, d)) \in Nat
  <2>1. IsFiniteSet(1 .. n)
    BY <1>2, FS_Interval
  <2>2. IsFiniteSet(Read(s, d))
    BY <2>1, FS_Subset
  <2>3. /\ \A k \in Read(s, d) : order[k] \in Of(s, d)
        /\ \A j, k \in Read(s, d) : order[j] = order[k] => j = k
        /\ \A i \in Of(s, d) : \E k \in Read(s, d) : i = order[k]
    BY <1>2, <1>3
  <2> HIDE DEF Read, Of
  <2>4. IsFiniteSet(Of(s, d)) /\ Cardinality(Of(s, d)) = Cardinality(Read(s, d))
    BY <2>2, <2>3, SameCount
  <2> QED BY <2>4, SameRecoCardinality, FS_CardinalityType
<1>5. R!DeviceFlood(read) <=>
        MaxPerDeviceDay > 0 /\ \E k \in 1 .. n : R!Cardinality(Read(read[k].sn, read[k].day)) > MaxPerDeviceDay
  BY <1>3 DEF R!DeviceFlood
<1>6. MaxPerDeviceDay \in Nat
  BY DEF R!RecoConstants
<1>7. ASSUME NEW k \in 1 .. n PROVE read[k].sn \in SNs /\ read[k].day \in 1 .. day
  BY <1>3, MarkShape
<1>8. ASSUME NEW s, NEW d, Of(s, d) # {} PROVE \E k \in 1 .. n : s = read[k].sn /\ d = read[k].day
  BY <1>2, <1>3, <1>8
<1>9. ASSUME NEW s, NEW d, Of(s, d) = {} PROVE R!Cardinality(Of(s, d)) = 0
  BY <1>9, FS_EmptySet, SameRecoCardinality
<1> HIDE DEF Read, Of
<1>10. ASSUME NEW s, NEW d PROVE R!Cardinality(Of(s, d)) \in Nat
  BY <1>4, SameRecoCardinality
<1>11. (\E k \in 1 .. n : R!Cardinality(Read(read[k].sn, read[k].day)) > MaxPerDeviceDay)
         <=> \E s \in SNs, d \in 1 .. day : ~(R!Cardinality(Of(s, d)) <= MaxPerDeviceDay)
  <2>1. ASSUME NEW k \in 1 .. n, R!Cardinality(Read(read[k].sn, read[k].day)) > MaxPerDeviceDay
        PROVE  \E s \in SNs, d \in 1 .. day : ~(R!Cardinality(Of(s, d)) <= MaxPerDeviceDay)
    BY <1>4, <1>6, <1>7, <1>10, <2>1
  <2>2. ASSUME NEW s \in SNs, NEW d \in 1 .. day, ~(R!Cardinality(Of(s, d)) <= MaxPerDeviceDay)
        PROVE  \E k \in 1 .. n : R!Cardinality(Read(read[k].sn, read[k].day)) > MaxPerDeviceDay
    <3>1. Of(s, d) # {}
      BY <1>6, <1>9, <2>2
    <3>2. PICK k \in 1 .. n : s = read[k].sn /\ d = read[k].day
      BY <1>8, <3>1
    <3>3. R!Cardinality(Read(s, d)) > MaxPerDeviceDay
      BY <1>4, <1>6, <1>10, <2>2
    <3> QED BY <3>2, <3>3
  <2> QED BY <2>1, <2>2
<1> QED BY <1>5, <1>11 DEF read, Of

\* The marks of rows count as the rows do.
LEMMA MarksCount ==
    ASSUME MarksOK, NEW T \in SUBSET (DOMAIN marks)
    PROVE  /\ IsFiniteSet(T) /\ R!Cardinality(T) \in Nat
           /\ R!Cardinality({marks[i] : i \in T}) = R!Cardinality(T)
<1> DEFINE image == {marks[i] : i \in T}
<1>1. IsFiniteSet(T)
  BY MarkShape, FS_Subset
<1>2. /\ \A i \in T : marks[i] \in image
      /\ \A i, j \in T : marks[i] = marks[j] => i = j
      /\ \A y \in image : \E i \in T : y = marks[i]
  BY MarkShape
<1> HIDE DEF image
<1>3. Cardinality(image) = Cardinality(T)
  BY <1>1, <1>2, SameCount
<1> QED BY <1>1, <1>3, FS_CardinalityType, SameRecoCardinality DEF image

\* TopShare is the most that any TopN devices have.
LEMMA TopOfWords ==
    ASSUME MarksOK, R!RecoConstants, NEW words \in SUBSET (DOMAIN marks), NEW limit \in Nat
    PROVE  R!TopShare({marks[i] : i \in words}) * 100 <= limit <=>
             \A S \in SUBSET SNs : R!Cardinality(S) <= TopN =>
               R!Cardinality({i \in words : marks[i].sn \in S}) * 100 <= limit
<1> DEFINE latest == {marks[i] : i \in words}
           sns == {x.sn : x \in latest}
           of(S) == R!Cardinality({x \in latest : x.sn \in S})
           few == {T \in SUBSET sns : R!Cardinality(T) <= TopN}
           by(S) == {i \in words : marks[i].sn \in S}
           N == R!Cardinality(words)
           shares == {of(S) : S \in few}
           top == R!Max(shares)
<1>1. R!TopShare(latest) = top
  BY Zenon DEF R!TopShare
<1>2. ASSUME NEW S PROVE of(S) = R!Cardinality(by(S)) /\ of(S) \in 0 .. N
  <2>1. {x \in latest : x.sn \in S} = {marks[i] : i \in by(S)}
    OBVIOUS
  <2>2. by(S) \in SUBSET (DOMAIN marks) /\ by(S) \in SUBSET words
    OBVIOUS
  <2>3. of(S) = R!Cardinality(by(S)) /\ R!Cardinality(by(S)) \in Nat
    BY <2>1, <2>2, MarksCount
  <2>4. IsFiniteSet(words) /\ N \in Nat
    BY MarksCount
  <2> HIDE DEF by, of, N
  <2>5. Cardinality(by(S)) <= Cardinality(words)
    BY <2>2, <2>4, FS_Subset
  <2> QED BY <2>3, <2>4, <2>5, SameRecoCardinality DEF N
<1>3. sns \subseteq SNs /\ N \in Nat /\ TopN \in Nat /\ IsFiniteSet(SNs)
  <2>1. sns \subseteq SNs
    BY MarkShape
  <2>2. N \in Nat
    BY MarksCount
  <2>3. IsFiniteSet(SNs) /\ TopN \in Nat
    <3> HIDE DEF sns, N
    <3> QED BY DEF R!RecoConstants, R!IsFiniteSet, IsFiniteSet
  <2> QED BY <2>1, <2>2, <2>3
<1>4. \A i \in words : marks[i].sn \in sns
  OBVIOUS
<1>5. {} \in few
  <2>1. R!Cardinality({}) = 0
    BY FS_EmptySet, SameRecoCardinality
  <2>2. R!Cardinality({}) <= TopN
    BY <1>3, <2>1
  <2> HIDE DEF sns
  <2> QED BY <2>2
<1> HIDE DEF N, latest, sns, of
<1>6. shares \subseteq 0 .. N /\ shares # {}
  BY <1>2, <1>5
<1>7. top \in shares /\ \A y \in shares : top >= y
  <2> HIDE DEF shares
  <2> QED BY <1>3, <1>6, Greatest, SameRecoMax
<1> HIDE DEF top
<1>8. ASSUME top * 100 <= limit, NEW S \in SUBSET SNs, R!Cardinality(S) <= TopN
      PROVE  R!Cardinality(by(S)) * 100 <= limit
  <2> DEFINE T == S \cap sns
  <2>1. by(T) = by(S)
    BY <1>4
  <2>2. IsFiniteSet(S) /\ T \in SUBSET S
    BY <1>3, FS_Subset
  <2>3. Cardinality(T) <= Cardinality(S) /\ Cardinality(S) \in Nat /\ Cardinality(T) \in Nat
    <3> HIDE DEF T
    <3> QED BY <2>2, FS_Subset, FS_CardinalityType
  <2>4. R!Cardinality(T) <= TopN
    <3> HIDE DEF T
    <3> QED BY <1>3, <1>8, <2>3, SameRecoCardinality
  <2>5. of(T) \in shares
    BY <2>4
  <2>6. top >= of(T) /\ of(T) = R!Cardinality(by(S)) /\ of(T) \in 0 .. N
    BY <1>2, <1>7, <2>1, <2>5
  <2>7. top \in 0 .. N
    BY <1>6, <1>7
  <2> HIDE DEF by
  <2> QED BY <1>3, <1>8, <2>6, <2>7
<1>9. ASSUME \A S \in SUBSET SNs : R!Cardinality(S) <= TopN => R!Cardinality(by(S)) * 100 <= limit
      PROVE  top * 100 <= limit
  <2>1. PICK T \in few : top = of(T)
    BY <1>7
  <2>2. T \in SUBSET SNs /\ R!Cardinality(T) <= TopN
    BY <1>3
  <2>3. top = R!Cardinality(by(T))
    BY <1>2, <2>1
  <2> HIDE DEF by
  <2> QED BY <1>9, <2>2, <2>3
<1> QED BY <1>1, <1>8, <1>9 DEF latest

\* Aggregate, in whatever order it reads the marks.
LEMMA AggregateCounts == ASSUME MarksOK, R!RecoConstants PROVE R!AggregateSound
<1> SUFFICES ASSUME NEW r \in Recos, NEW unknown \in SUBSET SNs, NEW order \in R!SetToSeqs(R!Selected(r, unknown))
             PROVE  LET rows == R!Selected(r, unknown)
                        words == R!LastWords(rows)
                        by(S) == {i \in words : marks[i].sn \in S}
                    IN R!Aggregate(R!RowsOf(order)) <=>
                         /\ R!Cardinality(words) >= MinSamples
                         /\ R!Cardinality({s \in SNs : by({s}) # {}}) >= MinDistinctSN
                         /\ R!Cardinality({i \in words : marks[i].good}) * 100 >= GoodPct * R!Cardinality(words)
                         /\ \A S \in SUBSET SNs : R!Cardinality(S) <= TopN =>
                              R!Cardinality(by(S)) * 100 <= TopPct * R!Cardinality(words)
                         /\ MaxPerDeviceDay > 0 => \A s \in SNs, d \in 1 .. day :
                              R!Cardinality({i \in rows : marks[i].sn = s /\ marks[i].day = d}) <= MaxPerDeviceDay
  BY Zenon DEF R!AggregateSound
<1> DEFINE rows == R!Selected(r, unknown)
           words == R!LastWords(rows)
           by(S) == {i \in words : marks[i].sn \in S}
           read == R!RowsOf(order)
           latest == R!Latest(read)
           samples == R!Cardinality(latest)
<1>1. rows \in SUBSET (DOMAIN marks) /\ words \in SUBSET (DOMAIN marks)
  BY DEF R!Selected, R!LastWords
<1>2. latest = {marks[i] : i \in words}
  BY <1>1, LatestOfRead
<1>3. R!Aggregate(read) <=>
        /\ ~R!DeviceFlood(read)
        /\ samples >= MinSamples
        /\ R!Cardinality({x.sn : x \in latest}) >= MinDistinctSN
        /\ R!TopShare(latest) * 100 <= TopPct * samples
        /\ R!Cardinality({x \in latest : x.good}) * 100 >= GoodPct * samples
  BY Zenon DEF R!Aggregate
<1>4. ~R!DeviceFlood(read) <=>
        (MaxPerDeviceDay > 0 => \A s \in SNs, d \in 1 .. day :
           R!Cardinality({i \in rows : marks[i].sn = s /\ marks[i].day = d}) <= MaxPerDeviceDay)
  BY <1>1, FloodOfRead
<1> HIDE DEF rows, words, latest, read
<1>5. samples = R!Cardinality(words) /\ samples \in Nat
  BY <1>1, <1>2, MarksCount
<1>6. {x.sn : x \in latest} = {s \in SNs : by({s}) # {}}
  BY <1>1, <1>2, MarkShape
<1>7. R!Cardinality({x \in latest : x.good}) = R!Cardinality({i \in words : marks[i].good})
  <2> DEFINE good == {i \in words : marks[i].good}
  <2>1. {x \in latest : x.good} = {marks[i] : i \in good}
    BY <1>2
  <2>2. good \in SUBSET (DOMAIN marks)
    BY <1>1
  <2> HIDE DEF good
  <2>3. R!Cardinality({marks[i] : i \in good}) = R!Cardinality(good)
    BY <2>2, MarksCount
  <2> QED BY <2>1, <2>3 DEF good
<1>8. R!TopShare(latest) * 100 <= TopPct * samples <=>
        \A S \in SUBSET SNs : R!Cardinality(S) <= TopN => R!Cardinality(by(S)) * 100 <= TopPct * samples
  <2> DEFINE limit == TopPct * samples
  <2>1. limit \in Nat
    BY <1>5 DEF R!RecoConstants
  <2> HIDE DEF limit
  <2>2. R!TopShare({marks[i] : i \in words}) * 100 <= limit <=>
          \A S \in SUBSET SNs : R!Cardinality(S) <= TopN =>
            R!Cardinality({i \in words : marks[i].sn \in S}) * 100 <= limit
    BY <1>1, <2>1, TopOfWords
  <2> QED BY <1>2, <2>2 DEF limit
<1> QED BY <1>3, <1>4, <1>5, <1>6, <1>7, <1>8, Zenon DEF rows, words, read

\* People mark jobs and days pass; rounds read.
LEMMA MarksStay == ASSUME MarksOK, [R!Next]_R!vars PROVE MarksOK'
<1>1. CASE UNCHANGED <<marks, day>>
  BY <1>1 DEF MarksOK
<1>2. CASE UNCHANGED marks /\ day' = day + 1
  BY <1>2 DEF MarksOK
<1>3. CASE \E s \in SNs, r \in Recos : R!Mark(s, r)
  <2> DEFINE Row == [r : Recos, sn : SNs, day : Nat, good : BOOLEAN, at : Nat]
  <2>1. PICK s \in SNs, r \in Recos, good \in BOOLEAN :
          marks' = Append(marks, [r |-> r, sn |-> s, day |-> day, good |-> good, at |-> Len(marks)]) /\ day' = day
    BY <1>3 DEF R!Mark
  <2> DEFINE added == [r |-> r, sn |-> s, day |-> day, good |-> good, at |-> Len(marks)]
  <2>2. marks \in Seq(Row) /\ Len(marks) \in Nat /\ day \in Nat \ {0}
    BY DEF MarksOK
  <2>3. added \in Row /\ added.at = Len(marks) /\ added.day = day
    BY <2>2
  <2> HIDE DEF Row, added
  <2>4. /\ marks' \in Seq(Row) /\ Len(marks') = Len(marks) + 1
        /\ \A i \in 1 .. Len(marks) : marks'[i] = marks[i]
        /\ marks'[Len(marks) + 1] = added
    BY <2>1, <2>2, <2>3, AppendProperties DEF added
  <2>5. \A i \in 1 .. Len(marks') : marks'[i].at = i - 1 /\ marks'[i].day \in 1 .. day
    <3> SUFFICES ASSUME NEW i \in 1 .. Len(marks') PROVE marks'[i].at = i - 1 /\ marks'[i].day \in 1 .. day
      OBVIOUS
    <3>1. i \in 1 .. Len(marks) \/ i = Len(marks) + 1
      BY <2>2, <2>4
    <3>2. CASE i \in 1 .. Len(marks)
      <4>1. marks[i].at = i - 1 /\ marks[i].day \in 1 .. day
        BY <3>2 DEF MarksOK
      <4>2. marks'[i] = marks[i]
        BY <2>4, <3>2
      <4> QED BY <4>1, <4>2
    <3>3. CASE i = Len(marks) + 1
      <4>1. marks'[i] = added
        BY <2>4, <3>3
      <4> QED BY <2>2, <2>3, <3>3, <4>1
    <3> QED BY <3>1, <3>2, <3>3
  <2> QED BY <2>1, <2>2, <2>4, <2>5 DEF MarksOK, Row
<1>4. UNCHANGED <<marks, day>> \/ (UNCHANGED marks /\ day' = day + 1) \/ \E s \in SNs, r \in Recos : R!Mark(s, r)
  BY Zenon DEF R!Next, R!People, R!NextDay, R!ReleaseOfficial, R!Approve, R!PutUserParam, R!RunJob, R!RoundStep,
       R!RoundFails, R!Load, R!LookupParams, R!OfficialPower, R!Upsert, R!SafetyEvents, R!SafetyCheck,
       R!World, R!vars
<1> QED BY <1>1, <1>2, <1>3, <1>4

\* Aggregate and loadFeedbackRows: in whatever order a round reads the marks and
\* whichever devices it leaves out, it takes a recommendation up exactly when the
\* last words of the devices say so, for any number of devices, marks and days and
\* any rules.
THEOREM MarksCounted == R!Spec => []AggregateSound
<1>1. R!Init => MarksOK
  BY DEF R!Init, MarksOK
<1>2. MarksOK => AggregateSound
  BY AggregateCounts, ServiceConstants DEF AggregateSound
<1> QED BY <1>1, <1>2, MarksStay, PTL DEF R!Spec
=============================================================================
