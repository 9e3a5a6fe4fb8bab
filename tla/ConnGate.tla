------------------------------ MODULE ConnGate ------------------------------
(***************************************************************************)
(* conn-gate (internal/conngate): a TCP proxy in front of the broker.      *)
(* Every accepted connection has a goroutine in Handle: rate limit,        *)
(* breaker, dial, Success or Failure, track, pipe. When the process is     *)
(* told to stop, Serve closes the listener and every tracked connection    *)
(* and waits for the goroutines. What a device and the broker say to each  *)
(* other and the gauges are left out; the token bucket may refuse anyone.  *)
(***************************************************************************)
EXTENDS Integers

CONSTANTS
    Conns,        \* connections that are open at the same time
    Threshold,    \* IOT_GATE_BREAK_N
    OpenFor,      \* IOT_GATE_BREAK_FOR, in ticks of the clock
    MaxOutages    \* bound: how often the broker goes away

VARIABLES
    at,        \* at[c]: where Handle is for connection c
    shut,      \* connections one of whose ends is closed
    tracked,   \* Proxy.conns: a connection stands for both its ends
    breaker,   \* [fails, left]: left is the time until openUntil, Never when that is zero
    broker,    \* the broker accepts connections
    outages,
    serve,     \* Serve: "accept", "close", "wait" or "returned"
    ctx,       \* "live", "done" (cancelled), "closed" (and the listener closed)
    late       \* history: connections tracked after Serve had closed the tracked ones

vars == <<at, shut, tracked, breaker, broker, outages, serve, ctx, late>>
gate == <<serve, ctx>>
world == <<broker, outages>>

Never == -1
Fresh == [fails |-> 0, left |-> Never]
Gone == {"none", "done"}

Init ==
    /\ at = [c \in Conns |-> "none"] /\ shut = {} /\ tracked = {} /\ late = {}
    /\ breaker = Fresh /\ broker = TRUE /\ outages = 0
    /\ serve = "accept" /\ ctx = "live"

Goto(c, pc) == at' = [at EXCEPT ![c] = pc]

-----------------------------------------------------------------------------
(* breaker.go. Every call first takes back a window that is over.          *)

StateLocked(b) == IF b.left = 0 THEN Fresh ELSE b
IsOpen(b) == b.left > 0

Failure(b) ==
    LET n == StateLocked(b) IN
    IF IsOpen(n) THEN n
    ELSE [fails |-> n.fails + 1, left |-> IF n.fails + 1 >= Threshold THEN OpenFor ELSE Never]

Success(b) ==
    LET n == StateLocked(b) IN IF IsOpen(n) THEN n ELSE [n EXCEPT !.fails = 0]

-----------------------------------------------------------------------------
(* Handle                                                                  *)

\* Reject: the device's end is reset and the goroutine ends.
Reject(c) == Goto(c, "done") /\ shut' = shut \cup {c}

\* The gauge asks for the state, then the token bucket is asked.
Limit(c) ==
    /\ at[c] = "accepted"
    /\ breaker' = StateLocked(breaker)
    /\ \/ Goto(c, "limited") /\ UNCHANGED shut
       \/ Reject(c)
    /\ UNCHANGED <<tracked, late, world, gate>>

Allow(c) ==
    /\ at[c] = "limited"
    /\ breaker' = StateLocked(breaker)
    /\ IF IsOpen(breaker') THEN Reject(c) ELSE Goto(c, "dial") /\ UNCHANGED shut
    /\ UNCHANGED <<tracked, late, world, gate>>

\* Dial has a timeout and ends with ctx.
Dial(c) ==
    /\ at[c] = "dial"
    /\ Goto(c, IF broker /\ ctx = "live" THEN "dialed" ELSE "failed")
    /\ UNCHANGED <<shut, tracked, breaker, late, world, gate>>

DialFailed(c) ==
    /\ at[c] = "failed"
    /\ breaker' = Failure(breaker)
    /\ Reject(c)
    /\ UNCHANGED <<tracked, late, world, gate>>

Dialed(c) ==
    /\ at[c] = "dialed"
    /\ breaker' = Success(breaker)
    /\ Goto(c, "up")
    /\ UNCHANGED <<shut, tracked, late, world, gate>>

\* Mutant: a connection that Serve does not know of
TrackForgets(c) ==
    /\ at[c] = "up"
    /\ Goto(c, "pipe")
    /\ UNCHANGED <<shut, tracked, breaker, late, world, gate>>

Track(c) ==
    /\ at[c] = "up"
    /\ tracked' = tracked \cup {c}
    /\ late' = IF serve = "wait" THEN late \cup {c} ELSE late
    /\ Goto(c, "pipe")
    /\ UNCHANGED <<shut, breaker, world, gate>>

\* One direction ends, pipe closes both ends and waits for the other one.
PipeEnds(c) ==
    /\ at[c] = "pipe" /\ c \in shut
    /\ tracked' = tracked \ {c}
    /\ Goto(c, "done")
    /\ UNCHANGED <<shut, breaker, late, world, gate>>

Handle(c) ==
    Limit(c) \/ Allow(c) \/ Dial(c) \/ DialFailed(c) \/ Dialed(c) \/ Track(c) \/ PipeEnds(c)

-----------------------------------------------------------------------------
(* Serve                                                                   *)

Accept(c) ==
    /\ serve = "accept" /\ ctx # "closed" /\ at[c] \in Gone
    /\ Goto(c, "accepted") /\ shut' = shut \ {c}
    /\ UNCHANGED <<tracked, breaker, late, world, gate>>

\* The goroutine that waits for ctx.
CloseListener ==
    /\ ctx = "done" /\ ctx' = "closed"
    /\ UNCHANGED <<at, shut, tracked, breaker, late, world, serve>>

\* Accept fails, and ctx says why.
StopAccepting ==
    /\ serve = "accept" /\ ctx = "closed" /\ serve' = "close"
    /\ UNCHANGED <<at, shut, tracked, breaker, late, world, ctx>>

CloseTracked ==
    /\ serve = "close" /\ serve' = "wait"
    /\ shut' = shut \cup tracked
    /\ UNCHANGED <<at, tracked, breaker, late, world, ctx>>

Return ==
    /\ serve = "wait" /\ \A c \in Conns : at[c] \in Gone
    /\ serve' = "returned"
    /\ UNCHANGED <<at, shut, tracked, breaker, late, world, ctx>>

Serve == CloseListener \/ StopAccepting \/ CloseTracked \/ Return

-----------------------------------------------------------------------------
(* Around it                                                               *)

\* SIGTERM
Cancel ==
    /\ ctx = "live" /\ ctx' = "done"
    /\ UNCHANGED <<at, shut, tracked, breaker, late, world, serve>>

\* The device or the broker hangs up.
HangUp(c) ==
    /\ at[c] \notin Gone /\ c \notin shut
    /\ shut' = shut \cup {c}
    /\ UNCHANGED <<at, tracked, breaker, late, world, gate>>

BrokerChanges ==
    /\ broker => outages < MaxOutages
    /\ broker' = ~broker
    /\ outages' = IF broker THEN outages + 1 ELSE outages
    /\ UNCHANGED <<at, shut, tracked, breaker, late, gate>>

Tick ==
    /\ breaker.left > 0
    /\ breaker' = [breaker EXCEPT !.left = @ - 1]
    /\ UNCHANGED <<at, shut, tracked, late, world, gate>>

Next ==
    \/ \E c \in Conns : Handle(c) \/ Accept(c) \/ HangUp(c)
    \/ Serve \/ Cancel \/ BrokerChanges \/ Tick

Spec == Init /\ [][Next]_vars

\* A goroutine goes on by itself (a dial has its timeout), Serve and the
\* listener too. Nobody has to connect or to hang up.
FairSpec ==
    /\ Spec
    /\ \A c \in Conns : WF_vars(Handle(c))
    /\ WF_vars(Serve)

-----------------------------------------------------------------------------
(* Properties                                                              *)

TypeOK ==
    /\ at \in [Conns -> Gone \cup {"accepted", "limited", "dial", "dialed", "failed", "up", "pipe"}]
    /\ shut \subseteq Conns /\ late \subseteq Conns
    /\ tracked = {c \in Conns : at[c] = "pipe"}
    /\ breaker \in [fails : 0 .. Threshold, left : Never .. OpenFor]
    /\ IsOpen(breaker) => breaker.fails = Threshold
    /\ broker \in BOOLEAN /\ outages \in 0 .. MaxOutages
    /\ serve \in {"accept", "close", "wait", "returned"} /\ ctx \in {"live", "done", "closed"}

\* proxy.go Serve closes the listener and all active connections and waits for
\* the handlers: told to stop, it returns, whatever the handlers were doing and
\* although no device hangs up, unless one of them tracked its connection after
\* Serve had closed the tracked ones.
StopsUnlessLate == ctx # "live" ~> serve = "returned" \/ late # {}
=============================================================================
