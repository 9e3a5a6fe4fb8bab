----------------------------- MODULE Activation -----------------------------
(***************************************************************************)
(* What cf001-svc promises to the owner of the orders and to the devices,  *)
(* without requests, transactions, nonces or a sequence: quota is granted, *)
(* a device is activated once, under one order that has a unit left and    *)
(* with an SN nobody has, and whoever asks again hears that SN. CF001      *)
(* implements this.                                                        *)
(***************************************************************************)
EXTENDS Integers

CONSTANTS Orders, Digests, SNs

VARIABLES
    left,    \* left[o]: units of order o that are not used
    rows,    \* activated devices: [digest, sn, order]
    told     \* answers devices have got: <<digest, sn>>

vars == <<left, rows, told>>

Init ==
    /\ left = [o \in Orders |-> 0]
    /\ rows = {} /\ told = {}

\* An order is only ever topped up.
Grant(o) ==
    /\ left' \in [Orders -> Nat]
    /\ left'[o] > left[o]
    /\ \A p \in Orders \ {o} : left'[p] = left[p]
    /\ UNCHANGED <<rows, told>>

\* One unit for a new device; its answer may get lost.
Activate(o, d, s) ==
    /\ \A m \in rows : m.digest # d /\ m.sn # s
    /\ left[o] > 0 /\ left' = [left EXCEPT ![o] = @ - 1]
    /\ rows' = rows \cup {[digest |-> d, sn |-> s, order |-> o]}
    /\ told' \in {told, told \cup {<<d, s>>}}

Repeat(m) ==
    /\ told' = told \cup {<<m.digest, m.sn>>}
    /\ UNCHANGED <<left, rows>>

Next ==
    \/ \E o \in Orders : Grant(o)
    \/ \E o \in Orders, d \in Digests, s \in SNs : Activate(o, d, s)
    \/ \E m \in rows : Repeat(m)

Spec == Init /\ [][Next]_vars
=============================================================================
