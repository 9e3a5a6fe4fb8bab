------------------------------ MODULE MCBridge ------------------------------
(* The way in: conn-gate, through which a device reaches the broker        *)
(* (ConnGate), and the bridge behind the broker (Bridge). They share no    *)
(* variable, so a behaviour is one of one of them.                         *)
EXTENDS Bridge

CONSTANTS Conns, Threshold, OpenFor, MaxOutages

VARIABLES
    part,      \* "bridge" or "gate"
    at, shut, tracked, breaker, broker, outages, serve, ctx, late

G == INSTANCE ConnGate
gateVars == <<at, shut, tracked, breaker, broker, outages, serve, ctx, late>>
allVars == <<vars, gateVars, part>>

MCInit ==
    /\ Init /\ G!Init
    /\ part \in {"bridge", "gate"}
    /\ part = "gate" => \A m \in Msgs : kind[m] = "event"
MCNext ==
    \/ part = "bridge" /\ Next /\ UNCHANGED <<gateVars, part>>
    \/ part = "gate" /\ G!Next /\ UNCHANGED <<vars, part>>

(* The fairness of Bridge!FairSpec and ConnGate!FairSpec, each in its part. *)
Bridging(A) == part = "bridge" /\ A
MCSpec ==
    /\ MCInit /\ [][MCNext]_allVars
    /\ \A h \in Handlers : /\ WF_vars(Bridging(AcquireSem(h)))
                           /\ WF_vars(Bridging(PublishAsyncOk(h) \/ PublishAsyncErr(h)))
    /\ WF_vars(Bridging(AckLoopOk \/ AckLoopFail))
    /\ WF_vars(Bridging(ReplayStart)) /\ WF_vars(Bridging(ReplayCarryOver))
    /\ WF_vars(Bridging(ReplayScanEnd))
    /\ SF_vars(Bridging(ReplayPublishOk)) /\ SF_vars(Bridging(ReplayRequeue))
    /\ SF_vars(Bridging(ReplayRemove /\ replay' = NoReplayFile))
    /\ WF_vars(Bridging(Restart)) /\ WF_vars(Bridging(Close))
    /\ WF_vars(Bridging(up = "stopping" /\ Exit))
    /\ \A c \in Conns : WF_gateVars(part = "gate" /\ G!Handle(c))
    /\ WF_gateVars(part = "gate" /\ G!Serve)

(* ConnGate!StopsUnlessLate: told to stop, Serve returns, unless a handler *)
(* tracked its connection after the tracked ones had been closed (proxy.go *)
(* Serve, Handle).                                                         *)
StopsUnlessLate == G!StopsUnlessLate
=============================================================================
