--------------------------- MODULE PipelineProofs ----------------------------
(***************************************************************************)
(* What holds of a pipeline worker for any contents of the stream, any     *)
(* batch size and any number of flushers: what is acked is not lost, but   *)
(* through a dedupe key that nobody owns, and the shadow follows the rows. *)
(***************************************************************************)
EXTENDS Pipeline, FiniteSetTheorems, WellFoundedInduction, TLAPS

-----------------------------------------------------------------------------
(* The inductive invariant.                                                *)

Deduped(e) == stream[e].kind \in {"telemetry", "event", "cmd_ack"}

\* What goes through the channels is telemetry; the consume goroutine itself
\* is busy with an event or a command ack.
Channelled == ToSet(in) \cup ToSet(batch) \cup (UNION {ToSet(b) : b \in ToSet(batches)})
              \cup (UNION {ToSet(fl[f].items) : f \in Flushers})
HeldKinds ==
  /\ \A e \in Channelled : stream[e].kind = "telemetry"
  /\ cur.pc \in {"insert", "shadow"} => stream[cur.e].kind = "event"
  /\ cur.pc = "cmdres" => stream[cur.e].kind = "cmd_ack"

\* After the insert, and before the ack, the rows are in TDengine.
RowsFirst ==
  /\ \A f \in Flushers : fl[f].stage = "shadow" => KeysOf(fl[f].items) \subseteq rows
  /\ cur.pc = "shadow" => Key(cur.e) \in rows

KeyHandled(k) == \E e \in Entries : Key(e) = k /\ Deduped(e) /\ Handled(e)

\* A dedupe key has an owner: a copy in the process, or an effect.
KeysOwned ==
  \A k \in keys : k \in orphaned \/ KeyHandled(k) \/ \E e \in Held : Key(e) = k

\* An acked message without an effect is covered by a key, and so by its owner,
\* or by an entry of the same key that the consumer will deliver.
AckedCovered ==
  \A e \in Entries : cons[e] = "acked" =>
     \/ Handled(e)
     \/ Deduped(e) /\ Key(e) \in orphaned \cup keys
     \/ Deduped(e) /\ \E d \in Entries : Key(d) = Key(e) /\ cons[d] # "acked"

\* An idle flusher holds nothing.
IdleEmpty == \A f \in Flushers : fl[f].stage = "idle" => fl[f].items = <<>>

PipelineInv == TypeOK /\ IdleEmpty /\ HeldKinds /\ RowsFirst /\ KeysOwned /\ AckedCovered

-----------------------------------------------------------------------------
(* Sequences.                                                              *)

LEMMA BoundedSeqIs ==
  ASSUME NEW S, NEW n \in Nat, NEW s
  PROVE  s \in BoundedSeq(S, n) <=> s \in Seq(S) /\ Len(s) <= n
<1>1. BoundedSeq(S, n) = UNION {[1 .. m -> S] : m \in 0 .. n}
  BY DEF BoundedSeq, SeqOf
<1>2. ASSUME NEW m \in 0 .. n, s \in [1 .. m -> S] PROVE s \in Seq(S) /\ Len(s) <= n
  BY <1>2
<1>3. ASSUME s \in Seq(S), Len(s) <= n PROVE Len(s) \in 0 .. n /\ s \in [1 .. Len(s) -> S]
  BY <1>3
<1> QED
  BY <1>1, <1>2, <1>3

LEMMA ToSetOf ==
  ASSUME NEW S, NEW s \in Seq(S)
  PROVE  ToSet(s) = {s[i] : i \in 1 .. Len(s)} /\ ToSet(s) \subseteq S
BY DEF ToSet

LEMMA ToSetAppend ==
  ASSUME NEW S, NEW s \in Seq(S), NEW e \in S
  PROVE  /\ Append(s, e) \in Seq(S) /\ Len(Append(s, e)) = Len(s) + 1
         /\ ToSet(Append(s, e)) = ToSet(s) \cup {e}
<1>1. Append(s, e) \in Seq(S) /\ Len(Append(s, e)) = Len(s) + 1 /\ Len(s) \in Nat
  OBVIOUS
<1>2. \A i \in 1 .. Len(s) + 1 : Append(s, e)[i] = IF i <= Len(s) THEN s[i] ELSE e
  OBVIOUS
<1>3. ToSet(Append(s, e)) = {Append(s, e)[i] : i \in 1 .. Len(s) + 1}
  BY <1>1, ToSetOf
<1>4. ToSet(s) = {s[i] : i \in 1 .. Len(s)}
  BY ToSetOf
<1> QED
  BY <1>1, <1>2, <1>3, <1>4

LEMMA ToSetTail ==
  ASSUME NEW S, NEW s \in Seq(S), s # <<>>
  PROVE  /\ Head(s) \in S /\ Tail(s) \in Seq(S) /\ Len(Tail(s)) = Len(s) - 1
         /\ ToSet(s) = {Head(s)} \cup ToSet(Tail(s))
<1>1. /\ Head(s) = s[1] /\ Head(s) \in S /\ Len(s) \in Nat \ {0}
      /\ Tail(s) \in Seq(S) /\ Len(Tail(s)) = Len(s) - 1
  OBVIOUS
<1>2. \A i \in 1 .. Len(s) - 1 : Tail(s)[i] = s[i + 1]
  OBVIOUS
<1>3. ToSet(s) = {s[i] : i \in 1 .. Len(s)} /\ ToSet(Tail(s)) = {Tail(s)[i] : i \in 1 .. Len(s) - 1}
  BY <1>1, ToSetOf
<1>4. ASSUME NEW i \in 1 .. Len(s) PROVE s[i] \in {Head(s)} \cup ToSet(Tail(s))
  <2>1. CASE i = 1
    BY <1>1, <2>1
  <2>2. CASE i # 1
    <3>1. i - 1 \in 1 .. Len(s) - 1 /\ Tail(s)[i - 1] = s[i]
      BY <1>1, <1>2, <2>2
    <3> QED BY <1>3, <3>1
  <2> QED BY <2>1, <2>2
<1>5. ASSUME NEW i \in 1 .. Len(s) - 1 PROVE Tail(s)[i] \in ToSet(s)
  <2>1. i + 1 \in 1 .. Len(s) /\ Tail(s)[i] = s[i + 1]
    BY <1>1, <1>2
  <2> QED BY <1>3, <2>1
<1>6. Head(s) \in ToSet(s)
  <2>1. 1 \in 1 .. Len(s)
    BY <1>1
  <2> QED BY <1>1, <1>3, <2>1
<1> QED
  BY <1>1, <1>3, <1>4, <1>5, <1>6

LEMMA ToSetOne == ASSUME NEW e PROVE ToSet(<<e>>) = {e}
BY DEF ToSet

LEMMA ToSetEmpty == ToSet(<<>>) = {}
BY DEF ToSet

-----------------------------------------------------------------------------
(* Types, and the entries each part of the worker holds.                   *)

Batch == BoundedSeq(Entries, BatchSize)
States == {"new", "inflight", "redeliver", "acked"}
Busy == [pc : {"insert", "shadow", "cmdres"}, e : Entries]

LEMMA Assumed ==
  /\ StreamLen \in Nat /\ BatchSize \in Nat \ {0} /\ MaxFaults \in Nat
  /\ IsFiniteSet(Flushers) /\ Cardinality(Flushers) \in Nat
BY PipelineAssumption, FS_CardinalityType

FlusherState == [stage : {"idle", "insert", "shadow"}, items : Batch]

LEMMA BatchIs == \A b : b \in Batch <=> b \in Seq(Entries) /\ Len(b) <= BatchSize
BY Assumed, BoundedSeqIs DEF Batch

LEMMA Facts ==
  ASSUME TypeOK
  PROVE  /\ stream \in Streams /\ cons \in [Entries -> States]
         /\ cur \in {IdleCur} \cup Busy
         /\ in \in Seq(Entries) /\ Len(in) <= BatchSize
         /\ batch \in Batch
         /\ batches \in Seq(Batch) /\ Len(batches) <= Cardinality(Flushers)
         /\ fl \in [Flushers -> FlusherState]
BY Assumed, BoundedSeqIs DEF TypeOK, States, Busy, Batch, FlusherState

LEMMA ChannelledIs ==
  /\ \A e : e \in Channelled <=> \/ e \in ToSet(in) \/ e \in ToSet(batch)
                                 \/ \E b \in ToSet(batches) : e \in ToSet(b)
                                 \/ \E f \in Flushers : e \in ToSet(fl[f].items)
  /\ \A e : e \in Channelled' <=> \/ e \in ToSet(in') \/ e \in ToSet(batch')
                                  \/ \E b \in ToSet(batches') : e \in ToSet(b)
                                  \/ \E f \in Flushers : e \in ToSet(fl'[f].items)
<1> DEFINE A == UNION {ToSet(b) : b \in ToSet(batches)}
           B == UNION {ToSet(fl[f].items) : f \in Flushers}
<1>1. /\ \A e : e \in A <=> \E b \in ToSet(batches) : e \in ToSet(b)
      /\ \A e : e \in B <=> \E f \in Flushers : e \in ToSet(fl[f].items)
  OBVIOUS
<1>2. /\ \A e : e \in A' <=> \E b \in ToSet(batches') : e \in ToSet(b)
      /\ \A e : e \in B' <=> \E f \in Flushers : e \in ToSet(fl'[f].items)
  OBVIOUS
<1>3. Channelled = ToSet(in) \cup ToSet(batch) \cup A \cup B
  BY DEF Channelled
<1>4. Channelled' = ToSet(in') \cup ToSet(batch') \cup A' \cup B'
  BY DEF Channelled
<1> HIDE DEF A, B
<1> QED
  BY <1>1, <1>2, <1>3, <1>4

LEMMA HeldIs ==
  /\ \A e : e \in Held <=> e \in Channelled \/ (cur.pc # "idle" /\ e = cur.e)
  /\ \A e : e \in Held' <=> e \in Channelled' \/ (cur'.pc # "idle" /\ e = cur'.e)
<1> DEFINE A == UNION {ToSet(batches[i]) : i \in DOMAIN batches}
           B == UNION {ToSet(fl[f].items) : f \in Flushers}
           C == IF cur.pc = "idle" THEN {} ELSE {cur.e}
<1>1. /\ \A e : e \in A <=> \E i \in DOMAIN batches : e \in ToSet(batches[i])
      /\ \A e : e \in B <=> \E f \in Flushers : e \in ToSet(fl[f].items)
      /\ \A e : e \in C <=> cur.pc # "idle" /\ e = cur.e
  OBVIOUS
<1>2. /\ \A e : e \in A' <=> \E i \in DOMAIN batches' : e \in ToSet(batches'[i])
      /\ \A e : e \in B' <=> \E f \in Flushers : e \in ToSet(fl'[f].items)
      /\ \A e : e \in C' <=> cur'.pc # "idle" /\ e = cur'.e
  OBVIOUS
<1>3. Held = ToSet(in) \cup ToSet(batch) \cup A \cup B \cup C
  BY DEF Held
<1>4. Held' = ToSet(in') \cup ToSet(batch') \cup A' \cup B' \cup C'
  BY DEF Held
<1>5. /\ \A e : (\E b \in ToSet(batches) : e \in ToSet(b)) <=> \E i \in DOMAIN batches : e \in ToSet(batches[i])
      /\ \A e : (\E b \in ToSet(batches') : e \in ToSet(b)) <=> \E i \in DOMAIN batches' : e \in ToSet(batches'[i])
  <2>1. /\ \A b : b \in ToSet(batches) <=> \E i \in DOMAIN batches : b = batches[i]
        /\ \A b : b \in ToSet(batches') <=> \E i \in DOMAIN batches' : b = batches'[i]
    BY DEF ToSet
  <2> QED BY <2>1
<1> HIDE DEF A, B, C
<1> QED
  BY <1>1, <1>2, <1>3, <1>4, <1>5, ChannelledIs

LEMMA HeldEntries ==
  ASSUME TypeOK
  PROVE  /\ ToSet(in) \subseteq Entries /\ ToSet(batch) \subseteq Entries
         /\ \A b \in ToSet(batches) : b \in Batch /\ ToSet(b) \subseteq Entries
         /\ \A f \in Flushers : fl[f].items \in Seq(Entries) /\ ToSet(fl[f].items) \subseteq Entries
         /\ cur.pc # "idle" => cur.e \in Entries
         /\ Channelled \subseteq Entries /\ Held \subseteq Entries
<1>1. /\ in \in Seq(Entries) /\ batch \in Seq(Entries) /\ batches \in Seq(Batch)
      /\ \A f \in Flushers : fl[f].items \in Seq(Entries)
      /\ \A b \in Batch : b \in Seq(Entries)
  BY Facts, BatchIs DEF FlusherState
<1>2. ToSet(in) \subseteq Entries /\ ToSet(batch) \subseteq Entries /\ ToSet(batches) \subseteq Batch
  BY <1>1, ToSetOf
<1>3. \A b \in Batch : ToSet(b) \subseteq Entries
  BY <1>1, ToSetOf
<1>4. \A f \in Flushers : ToSet(fl[f].items) \subseteq Entries
  BY <1>1, ToSetOf
<1>5. cur.pc # "idle" => cur.e \in Entries
  BY Facts DEF IdleCur, Busy
<1>6. Channelled \subseteq Entries
  BY <1>2, <1>3, <1>4, ChannelledIs
<1>7. Held \subseteq Entries
  BY <1>5, <1>6, HeldIs
<1> QED
  BY <1>1, <1>2, <1>3, <1>4, <1>5, <1>6, <1>7

\* Entries of one key are of one kind.
LEMMA OneKind ==
  ASSUME TypeOK
  PROVE  /\ \A e \in Entries : stream[e].kind \in Kinds /\ stream[e].sn \in SNs /\ Key(e) \in AllKeys
         /\ \A d, e \in Entries : Key(d) = Key(e) => stream[d].kind = stream[e].kind
<1>1. stream \in Streams
  BY DEF TypeOK
<1>2. /\ DOMAIN stream = Entries
      /\ \A i \in DOMAIN stream : stream[i].kind \in Kinds
      /\ \A i, j \in DOMAIN stream : stream[i].sn = stream[j].sn /\ stream[i].seq = stream[j].seq
                                     => stream[i].kind = stream[j].kind
  BY <1>1, PipelineAssumption DEF Entries
<1>3. \A e \in Entries : stream[e].sn \in SNs /\ Key(e) \in AllKeys
  BY <1>1 DEF SNs, AllKeys
<1> QED
  BY <1>2, <1>3 DEF Key

-----------------------------------------------------------------------------
(* The channels.                                                           *)

LEMMA StreamKept ==
  ASSUME [Next]_vars
  PROVE  stream' = stream
BY DEF Next, vars, ProcessPoison, ProcessOta, ProcessDup, ProcessTelemetry, ProcessSync,
   AckWaitExpires, EventInsertOk, EventInsertErr, EventAck, CmdAckStored, CmdAckErr, BatchAdd,
   BatchDrain, FlushTake, FlushInsertOk, FlushInsertErr, FlushShadowAck, KeyExpires, Stop,
   RestartAfterDrain, Crash

LEMMA AddMoves ==
  ASSUME TypeOK, BatchAdd
  PROVE  /\ Channelled' = Channelled
         /\ in' \in Seq(Entries) /\ Len(in') <= BatchSize /\ batch' \in Batch
         /\ batches' = batches /\ fl' = fl /\ cur' = cur
<1>1. /\ in # <<>> /\ Len(batch) < BatchSize
      /\ batch' = Append(batch, Head(in)) /\ in' = Tail(in)
      /\ batches' = batches /\ fl' = fl /\ cur' = cur
  BY DEF BatchAdd
<1>2. in \in Seq(Entries) /\ batch \in Seq(Entries) /\ Len(in) \in Nat /\ Len(in) <= BatchSize
  BY Facts, BatchIs
<1>3. /\ Head(in) \in Entries /\ Tail(in) \in Seq(Entries) /\ Len(Tail(in)) = Len(in) - 1
      /\ ToSet(in) = {Head(in)} \cup ToSet(Tail(in))
  BY <1>1, <1>2, ToSetTail
<1>4. /\ Append(batch, Head(in)) \in Seq(Entries)
      /\ Len(Append(batch, Head(in))) = Len(batch) + 1
      /\ ToSet(Append(batch, Head(in))) = ToSet(batch) \cup {Head(in)}
  BY <1>2, <1>3, ToSetAppend
<1>5. Len(batch) \in Nat /\ BatchSize \in Nat
  BY <1>2, Assumed
<1>6. Channelled' = Channelled
  BY <1>1, <1>3, <1>4, ChannelledIs
<1>7. Len(in') <= BatchSize /\ Len(batch') <= BatchSize
  BY <1>1, <1>2, <1>3, <1>4, <1>5
<1> QED
  BY <1>1, <1>3, <1>4, <1>6, <1>7, BatchIs

LEMMA DrainMoves ==
  ASSUME TypeOK, BatchDrain
  PROVE  /\ Channelled' = Channelled
         /\ in' = in /\ batch' \in Batch
         /\ batches' \in Seq(Batch) /\ Len(batches') <= Cardinality(Flushers)
         /\ fl' = fl /\ cur' = cur
<1>1. /\ Len(batches) < Cardinality(Flushers) /\ batches' = Append(batches, batch) /\ batch' = <<>>
      /\ in' = in /\ fl' = fl /\ cur' = cur
  BY DEF BatchDrain
<1>2. batches \in Seq(Batch) /\ batch \in Batch /\ Len(batches) \in Nat /\ Cardinality(Flushers) \in Nat
  BY Facts, Assumed
<1>3. /\ batches' \in Seq(Batch) /\ Len(batches') = Len(batches) + 1
      /\ ToSet(batches') = ToSet(batches) \cup {batch}
  BY <1>1, <1>2, ToSetAppend
<1>4. Channelled' = Channelled
  BY <1>1, <1>3, ToSetEmpty, ChannelledIs
<1>5. <<>> \in Batch
  <2>1. <<>> \in Seq(Entries) /\ Len(<<>>) <= BatchSize
    BY Assumed
  <2> QED BY <2>1, BatchIs
<1> QED
  BY <1>1, <1>2, <1>3, <1>4, <1>5

LEMMA TakeMoves ==
  ASSUME TypeOK, NEW f \in Flushers, FlushTake(f), fl[f].items = <<>>
  PROVE  /\ Channelled' = Channelled
         /\ in' = in /\ batch' = batch
         /\ batches' \in Seq(Batch) /\ Len(batches') <= Cardinality(Flushers)
         /\ fl' \in [Flushers -> FlusherState] /\ cur' = cur
<1> DEFINE v == [stage |-> "insert", items |-> Head(batches)]
<1>1. /\ batches # <<>> /\ fl' = [fl EXCEPT ![f] = v] /\ batches' = Tail(batches)
      /\ in' = in /\ batch' = batch /\ cur' = cur
  BY DEF FlushTake
<1>2. batches \in Seq(Batch) /\ Len(batches) \in Nat /\ Cardinality(Flushers) \in Nat
      /\ Len(batches) <= Cardinality(Flushers)
  BY Facts, Assumed
<1>3. /\ Head(batches) \in Batch /\ batches' \in Seq(Batch) /\ Len(batches') = Len(batches) - 1
      /\ ToSet(batches) = {Head(batches)} \cup ToSet(batches')
  BY <1>1, <1>2, ToSetTail
<1>4. v \in FlusherState
  BY <1>3 DEF FlusherState
<1>5. /\ fl' \in [Flushers -> FlusherState]
      /\ fl'[f] = v /\ \A g \in Flushers \ {f} : fl'[g] = fl[g]
  BY <1>1, <1>4, Facts
<1>6. v.items = Head(batches)
  OBVIOUS
<1> HIDE DEF v
<1>7. ASSUME NEW e
      PROVE  (\E g \in Flushers : e \in ToSet(fl'[g].items))
             <=> e \in ToSet(Head(batches)) \/ \E g \in Flushers : e \in ToSet(fl[g].items)
  BY <1>5, <1>6, ToSetEmpty
<1>8. ASSUME NEW e
      PROVE  (\E b \in ToSet(batches) : e \in ToSet(b))
             <=> e \in ToSet(Head(batches)) \/ \E b \in ToSet(batches') : e \in ToSet(b)
  BY <1>3
<1>9. in' = in /\ batch' = batch
  BY <1>1
<1>10. ASSUME NEW e PROVE e \in Channelled' <=> e \in Channelled
  BY <1>7, <1>8, <1>9, ChannelledIs
<1>11. Channelled' = Channelled
  BY <1>10
<1> QED
  BY <1>1, <1>2, <1>3, <1>5, <1>11

LEMMA MemKept ==
  ASSUME UNCHANGED memVars
  PROVE  /\ Channelled' = Channelled
         /\ cur' = cur => Held' = Held
         /\ in' = in /\ batch' = batch /\ batches' = batches /\ fl' = fl
<1>1. in' = in /\ batch' = batch /\ batches' = batches /\ fl' = fl
  BY DEF memVars
<1>2. Channelled' = Channelled
  <2>1. ASSUME NEW e PROVE e \in Channelled' <=> e \in Channelled
    BY <1>1, ChannelledIs
  <2> QED BY <2>1
<1>3. ASSUME cur' = cur PROVE Held' = Held
  <2>1. ASSUME NEW e PROVE e \in Held' <=> e \in Held
    BY <1>2, <1>3, HeldIs
  <2> QED BY <2>1
<1> QED
  BY <1>1, <1>2, <1>3

-----------------------------------------------------------------------------
(* Keys, naks and acks.                                                    *)

LEMMA KeyKept ==
  ASSUME stream' = stream
  PROVE  /\ \A e : Key(e)' = Key(e) /\ (Deduped(e)' <=> Deduped(e))
         /\ AllKeys' = AllKeys /\ SNs' = SNs
BY DEF Key, AllKeys, SNs, Deduped

LEMMA KeysOfIs ==
  /\ \A items, k : k \in KeysOf(items) <=> \E e \in ToSet(items) : Key(e) = k
  /\ TypeOK => \A items : ToSet(items) \subseteq Entries => SNsOf(items) \subseteq SNs
<1>1. \A items, k : k \in KeysOf(items) <=> \E e \in ToSet(items) : Key(e) = k
  BY DEF KeysOf
<1>2. TypeOK => \A items : ToSet(items) \subseteq Entries => SNsOf(items) \subseteq SNs
  BY OneKind DEF SNsOf
<1> QED
  BY <1>1, <1>2

LEMMA NakIs ==
  ASSUME TypeOK, NEW items, ToSet(items) \subseteq Entries, NakAll(items)
  PROVE  /\ cons' \in [Entries -> States]
         /\ keys' \subseteq keys /\ orphaned \subseteq orphaned' /\ orphaned' \subseteq AllKeys
         /\ \A e \in Entries : cons'[e] = "acked" <=> cons[e] = "acked"
         /\ \A k \in keys \ keys' :
              k \in orphaned' \/ \E e \in Entries : Key(e) = k /\ cons'[e] # "acked"
         /\ \A e \in ToSet(items) : Key(e) \in orphaned' \/ Key(e) \notin keys'
<1> DEFINE gone == {Key(e) : e \in {d \in ToSet(items) : cons[d] = "acked"}}
<1>1. /\ cons' = [e \in Entries |-> IF e \in ToSet(items) /\ cons[e] # "acked" THEN "redeliver" ELSE cons[e]]
      /\ \/ keys' = keys \ KeysOf(items) /\ orphaned' = orphaned \cup gone
         \/ keys' = keys /\ orphaned' = orphaned \cup gone \cup (KeysOf(items) \cap keys)
  BY DEF NakAll
<1>2. /\ cons \in [Entries -> States] /\ orphaned \subseteq AllKeys /\ keys \subseteq AllKeys
      /\ \A e \in Entries : Key(e) \in AllKeys
  BY Facts, OneKind DEF TypeOK
<1>3. \A k : k \in gone <=> \E e \in ToSet(items) : cons[e] = "acked" /\ Key(e) = k
  OBVIOUS
<1> HIDE DEF gone
<1>4. cons' \in [Entries -> States] /\ \A e \in Entries : cons'[e] = "acked" <=> cons[e] = "acked"
  BY <1>1, <1>2 DEF States
<1>5. keys' \subseteq keys /\ orphaned \subseteq orphaned' /\ orphaned' \subseteq AllKeys
  BY <1>1, <1>2, <1>3
<1>6. ASSUME NEW k \in keys \ keys'
      PROVE  k \in orphaned' \/ \E e \in Entries : Key(e) = k /\ cons'[e] # "acked"
  <2>1. k \in KeysOf(items) /\ gone \subseteq orphaned'
    BY <1>1
  <2>2. PICK e \in ToSet(items) : Key(e) = k
    BY <2>1, KeysOfIs
  <2> QED BY <1>3, <1>4, <2>1, <2>2
<1>7. ASSUME NEW e \in ToSet(items) PROVE Key(e) \in orphaned' \/ Key(e) \notin keys'
  BY <1>1, KeysOfIs
<1> QED
  BY <1>4, <1>5, <1>6, <1>7

LEMMA FaultIs ==
  ASSUME TypeOK
  PROVE  /\ \A k : Fault(k) => faults' \in 0 .. MaxFaults
         /\ faults' = faults => faults' \in 0 .. MaxFaults
BY Assumed DEF TypeOK, Fault

LEMMA AckIs ==
  ASSUME TypeOK, NEW es \in SUBSET Entries, AckAll(es)
  PROVE  /\ cons' \in [Entries -> States] /\ faults' \in 0 .. MaxFaults
         /\ \A e \in Entries : /\ cons'[e] = "acked" => cons[e] = "acked" \/ e \in es
                               /\ cons[e] = "acked" => cons'[e] = "acked"
<1>1. PICK lost \in SUBSET es :
        /\ cons' = [e \in Entries |-> IF e \in es \ lost THEN "acked" ELSE cons[e]]
        /\ NoFault \/ Fault("acklost")
  BY DEF AckAll
<1>2. cons \in [Entries -> States]
  BY Facts
<1>3. /\ cons' \in [Entries -> States]
      /\ \A e \in Entries : /\ cons'[e] = "acked" => cons[e] = "acked" \/ e \in es
                            /\ cons[e] = "acked" => cons'[e] = "acked"
  BY <1>1, <1>2 DEF States
<1>4. faults' \in 0 .. MaxFaults
  BY <1>1, FaultIs DEF NoFault
<1> QED
  BY <1>3, <1>4

-----------------------------------------------------------------------------
(* What every step keeps.                                                  *)

\* An effect depends on the key and the kind only, and stays.
LEMMA HandledIs ==
  /\ \A e : stream[e].kind \in {"telemetry", "event"} => (Handled(e) <=> Key(e) \in rows)
  /\ \A e : stream[e].kind = "cmd_ack" => (Handled(e) <=> Key(e) \in cmdres)
  /\ \A e : stream[e].kind = "poison" => (Handled(e) <=> e \in dlq)
  /\ \A e : stream[e].kind = "ota_progress" => Handled(e)
BY DEF Handled

LEMMA HandledKept ==
  ASSUME TypeOK, stream' = stream, rows \subseteq rows', cmdres \subseteq cmdres', dlq \subseteq dlq'
  PROVE  /\ \A e \in Entries : Handled(e) => Handled(e)'
         /\ \A e \in Entries : Deduped(e)' <=> Deduped(e)
         /\ \A d, e \in Entries : Key(d) = Key(e) /\ Deduped(e) /\ Handled(d)' => Deduped(d) /\ Handled(e)'
         /\ \A e \in Entries : stream[e].kind \in {"telemetry", "event"} => (Handled(e)' <=> Key(e) \in rows')
         /\ \A e \in Entries : stream[e].kind = "cmd_ack" => (Handled(e)' <=> Key(e) \in cmdres')
         /\ \A e \in Entries : stream[e].kind = "poison" => (Handled(e)' <=> e \in dlq')
         /\ \A e \in Entries : stream[e].kind = "ota_progress" => Handled(e)'
<1>1. /\ \A e \in Entries : stream[e].kind \in Kinds
      /\ \A d, e \in Entries : Key(d) = Key(e) => stream[d].kind = stream[e].kind
  BY OneKind
<1>2. \A e \in Entries : Handled(e)' <=>
        \/ stream[e].kind \in {"telemetry", "event"} /\ Key(e) \in rows'
        \/ stream[e].kind = "cmd_ack" /\ Key(e) \in cmdres'
        \/ stream[e].kind = "poison" /\ e \in dlq'
        \/ stream[e].kind = "ota_progress"
  BY <1>1 DEF Handled, Key, Kinds
<1>3. \A e \in Entries : Handled(e) <=>
        \/ stream[e].kind \in {"telemetry", "event"} /\ Key(e) \in rows
        \/ stream[e].kind = "cmd_ack" /\ Key(e) \in cmdres
        \/ stream[e].kind = "poison" /\ e \in dlq
        \/ stream[e].kind = "ota_progress"
  BY <1>1 DEF Handled, Kinds
<1>4. \A e \in Entries : Handled(e) => Handled(e)'
  BY <1>2, <1>3
<1>5. \A e \in Entries : Deduped(e)' <=> Deduped(e)
  BY DEF Deduped
<1>6. \A d, e \in Entries : Key(d) = Key(e) /\ Deduped(e) /\ Handled(d)' => Deduped(d) /\ Handled(e)'
  BY <1>1, <1>2 DEF Deduped
<1> QED
  BY <1>2, <1>4, <1>5, <1>6

LEMMA Covered ==
  ASSUME TypeOK, stream' = stream, KeysOwned, AckedCovered,
         orphaned \subseteq orphaned', rows \subseteq rows', cmdres \subseteq cmdres', dlq \subseteq dlq',
         \A k \in keys' : k \in keys \/ \E e \in Held' : Key(e) = k,
         \A e \in Held : \/ e \in Held' \/ Key(e) \in orphaned' \/ Key(e) \notin keys'
                         \/ e \in Entries /\ Deduped(e) /\ Handled(e)',
         \A k \in keys \ keys' : \/ k \in orphaned' \/ KeyHandled(k)
                                 \/ \E e \in Entries : Key(e) = k /\ cons'[e] # "acked",
         \A e \in Entries : cons'[e] = "acked" =>
            cons[e] = "acked" \/ Handled(e)' \/ (Deduped(e) /\ Key(e) \in keys' \cup orphaned')
  PROVE  KeysOwned' /\ AckedCovered'
<1>1. /\ \A e \in Entries : Handled(e) => Handled(e)'
      /\ \A e \in Entries : Deduped(e)' <=> Deduped(e)
      /\ \A d, e \in Entries : Key(d) = Key(e) /\ Deduped(e) /\ Handled(d)' => Deduped(d) /\ Handled(e)'
  BY HandledKept
<1>2. \A e : Key(e)' = Key(e)
  BY KeyKept
<1>3. ASSUME NEW k, NEW e \in Entries, Key(e) = k, Deduped(e), Handled(e)' PROVE KeyHandled(k)'
  BY <1>1, <1>2, <1>3 DEF KeyHandled
<1>4. ASSUME NEW k, KeyHandled(k) PROVE KeyHandled(k)'
  BY <1>1, <1>3, <1>4 DEF KeyHandled
<1>5. ASSUME NEW k \in keys' PROVE k \in orphaned' \/ KeyHandled(k)' \/ \E e \in Held' : Key(e)' = k
  <2>1. CASE k \notin keys
    BY <1>2, <2>1
  <2>2. CASE k \in keys
    <3>1. k \in orphaned \/ KeyHandled(k) \/ \E e \in Held : Key(e) = k
      BY <2>2 DEF KeysOwned
    <3>2. ASSUME NEW e \in Held, Key(e) = k
          PROVE  k \in orphaned' \/ KeyHandled(k)' \/ \E d \in Held' : Key(d)' = k
      BY <1>2, <1>3, <3>2
    <3> QED BY <1>4, <3>1, <3>2
  <2> QED BY <2>1, <2>2
<1>6. KeysOwned'
  BY <1>5 DEF KeysOwned
<1>7. ASSUME NEW e \in Entries, cons'[e] = "acked"
      PROVE  \/ Handled(e)'
             \/ Deduped(e) /\ Key(e) \in orphaned' \cup keys'
             \/ Deduped(e) /\ \E d \in Entries : Key(d) = Key(e) /\ cons'[d] # "acked"
  <2>1. CASE cons[e] # "acked"
    BY <1>7, <2>1
  <2>2. CASE cons[e] = "acked" /\ Handled(e)
    BY <1>1, <2>2
  <2>3. CASE Deduped(e) /\ Key(e) \in orphaned
    BY <2>3
  <2>4. CASE Deduped(e) /\ Key(e) \in keys
    <3>1. \/ Key(e) \in keys' \/ Key(e) \in orphaned' \/ KeyHandled(Key(e))
          \/ \E d \in Entries : Key(d) = Key(e) /\ cons'[d] # "acked"
      BY <2>4
    <3>2. ASSUME KeyHandled(Key(e)) PROVE Handled(e)'
      <4>1. PICK d \in Entries : Key(d) = Key(e) /\ Deduped(d) /\ Handled(d)
        BY <3>2 DEF KeyHandled
      <4> QED BY <1>1, <2>4, <4>1
    <3> QED BY <2>4, <3>1, <3>2
  <2>5. CASE Deduped(e) /\ \E d \in Entries : Key(d) = Key(e) /\ cons[d] # "acked"
    <3>1. PICK d \in Entries : Key(d) = Key(e) /\ cons[d] # "acked"
      BY <2>5
    <3>2. CASE cons'[d] # "acked"
      BY <2>5, <3>1, <3>2
    <3>3. CASE cons'[d] = "acked"
      <4>1. Handled(d)' \/ Key(d) \in keys' \cup orphaned'
        BY <3>1, <3>3
      <4> QED BY <1>1, <2>5, <3>1, <4>1
    <3> QED BY <3>2, <3>3
  <2>6. cons[e] # "acked" \/ (cons[e] = "acked" /\ Handled(e)) \/ (Deduped(e) /\ Key(e) \in orphaned)
        \/ (Deduped(e) /\ Key(e) \in keys) \/ (Deduped(e) /\ \E d \in Entries : Key(d) = Key(e) /\ cons[d] # "acked")
    BY DEF AckedCovered
  <2> QED BY <2>1, <2>2, <2>3, <2>4, <2>5, <2>6
<1>8. AckedCovered'
  <2>1. \A e \in Entries : cons'[e] = "acked" =>
          \/ Handled(e)'
          \/ Deduped(e)' /\ Key(e)' \in orphaned' \cup keys'
          \/ Deduped(e)' /\ \E d \in Entries : Key(d)' = Key(e)' /\ cons'[d] # "acked"
    BY <1>1, <1>2, <1>7
  <2> QED BY <2>1 DEF AckedCovered, Entries
<1> QED
  BY <1>6, <1>8

\* A step that starts no work: copies are only let go, rows only added.
LEMMA Quiet ==
  ASSUME TypeOK, stream' = stream, IdleEmpty, HeldKinds, RowsFirst,
         Channelled' \subseteq Channelled, cur' \in {cur, IdleCur}, rows \subseteq rows',
         \A f \in Flushers : fl'[f] \in {fl[f], IdleFlusher}
  PROVE  IdleEmpty' /\ HeldKinds' /\ RowsFirst'
<1>1. IdleEmpty'
  BY DEF IdleEmpty, IdleFlusher
<1>2. cur'.pc # "idle" => cur' = cur
  BY DEF IdleCur
<1>3. HeldKinds'
  BY <1>2 DEF HeldKinds, IdleCur
<1>4. \A f \in Flushers : fl'[f].stage = "shadow" => fl'[f] = fl[f]
  BY DEF IdleFlusher
<1>5. \A e : Key(e)' = Key(e)
  BY KeyKept
<1>6. ASSUME NEW f \in Flushers, fl'[f].stage = "shadow", NEW e \in ToSet(fl'[f].items)
      PROVE  Key(e) \in rows'
  <2>1. e \in ToSet(fl[f].items) /\ KeysOf(fl[f].items) \subseteq rows
    BY <1>4, <1>6 DEF RowsFirst
  <2> QED BY <2>1, KeysOfIs
<1>7. cur'.pc = "shadow" => Key(cur'.e) \in rows'
  BY <1>2 DEF RowsFirst, IdleCur
<1> QED
  BY <1>1, <1>3, <1>5, <1>6, <1>7 DEF RowsFirst, KeysOf

LEMMA Types ==
  ASSUME TypeOK
  PROVE  /\ keys \subseteq AllKeys /\ rows \subseteq AllKeys /\ cmdres \subseteq AllKeys
         /\ orphaned \subseteq AllKeys /\ overtaken \subseteq SNs /\ DOMAIN reported = SNs
         /\ dlq \subseteq Entries /\ stopping \in BOOLEAN /\ faults \in 0 .. MaxFaults
BY DEF TypeOK

LEMMA Typed ==
  ASSUME TypeOK, stream' = stream,
         cons' \in [Entries -> States], keys' \subseteq AllKeys, cur' \in {IdleCur} \cup Busy,
         in' \in Seq(Entries), Len(in') <= BatchSize, batch' \in Batch,
         batches' \in Seq(Batch), Len(batches') <= Cardinality(Flushers),
         fl' \in [Flushers -> FlusherState],
         rows' \subseteq AllKeys, cmdres' \subseteq AllKeys, orphaned' \subseteq AllKeys,
         overtaken' \subseteq SNs, DOMAIN reported' = SNs, dlq' \subseteq Entries,
         stopping' \in BOOLEAN, faults' \in 0 .. MaxFaults
  PROVE  TypeOK'
<1>1. AllKeys' = AllKeys /\ SNs' = SNs /\ stream' \in Streams
  BY KeyKept, Facts
<1>2. in' \in BoundedSeq(Entries, BatchSize)
  BY Assumed, BoundedSeqIs
<1>3. batches' \in BoundedSeq(Batch, Cardinality(Flushers))
  BY Assumed, BoundedSeqIs
<1> QED
  BY <1>1, <1>2, <1>3 DEF TypeOK, States, Busy, Batch, FlusherState

-----------------------------------------------------------------------------
(* The steps of the consume goroutine.                                     *)

\* Steps that touch the consumer and the DLQ only.
LEMMA ConsumerStep ==
  ASSUME PipelineInv, stream' = stream, cons' \in [Entries -> States], faults' \in 0 .. MaxFaults,
         UNCHANGED memVars, UNCHANGED <<cur, keys, rows, reported, cmdres, orphaned, overtaken>>,
         stopping' \in BOOLEAN, dlq \subseteq dlq', dlq' \subseteq Entries,
         \A e \in Entries : cons'[e] = "acked" =>
            cons[e] = "acked" \/ Handled(e)' \/ (Deduped(e) /\ Key(e) \in keys)
  PROVE  PipelineInv'
<1>1. TypeOK /\ IdleEmpty /\ HeldKinds /\ RowsFirst /\ KeysOwned /\ AckedCovered
  BY DEF PipelineInv
<1>2. /\ Channelled' = Channelled /\ Held' = Held
      /\ in' = in /\ batch' = batch /\ batches' = batches /\ fl' = fl
  BY MemKept
<1>3. TypeOK'
  BY <1>1, <1>2, Facts, Types, Typed
<1>4. IdleEmpty' /\ HeldKinds' /\ RowsFirst'
  BY <1>1, <1>2, Quiet
<1>5. KeysOwned' /\ AckedCovered'
  BY <1>1, <1>2, Covered
<1> QED
  BY <1>3, <1>4, <1>5 DEF PipelineInv

\* One entry's delivery state changes.
LEMMA Marked ==
  ASSUME TypeOK, NEW e \in Entries, NEW v \in States, cons' = [cons EXCEPT ![e] = v]
  PROVE  cons' \in [Entries -> States] /\ cons'[e] = v /\ \A d \in Entries \ {e} : cons'[d] = cons[d]
BY Facts

LEMMA PoisonStep ==
  ASSUME PipelineInv, NEW e \in Entries, ProcessPoison(e) PROVE PipelineInv'
<1>1. TypeOK /\ faults \in 0 .. MaxFaults /\ dlq \subseteq Entries /\ stopping \in BOOLEAN
  BY Types DEF PipelineInv
<1>2. PICK v \in {"acked", "inflight", "redeliver"} :
        /\ cons' = [cons EXCEPT ![e] = v]
        /\ v = "acked" => dlq' = dlq \cup {e}
        /\ dlq' \in {dlq, dlq \cup {e}}
  BY DEF ProcessPoison
<1>3. /\ stream' = stream /\ UNCHANGED memVars /\ stopping' = stopping
      /\ UNCHANGED <<cur, keys, rows, reported, cmdres, orphaned, overtaken>>
      /\ stream[e].kind = "poison"
  BY DEF ProcessPoison
<1>4. faults' \in 0 .. MaxFaults
  BY <1>1, FaultIs DEF ProcessPoison, NoFault
<1>5. cons' \in [Entries -> States] /\ cons'[e] = v /\ \A d \in Entries \ {e} : cons'[d] = cons[d]
  BY <1>1, <1>2, Marked DEF States
<1>6. rows' = rows /\ cmdres' = cmdres /\ dlq \subseteq dlq' /\ dlq' \subseteq Entries
  BY <1>1, <1>2, <1>3
<1>7. v = "acked" => Handled(e)'
  BY <1>1, <1>2, <1>3, <1>6, HandledKept
<1>8. \A d \in Entries : cons'[d] = "acked" => cons[d] = "acked" \/ Handled(d)'
  BY <1>5, <1>7
<1> QED
  BY <1>1, <1>3, <1>4, <1>5, <1>6, <1>8, ConsumerStep

LEMMA OtaStep ==
  ASSUME PipelineInv, NEW e \in Entries, ProcessOta(e) PROVE PipelineInv'
<1>1. TypeOK /\ faults \in 0 .. MaxFaults /\ dlq \subseteq Entries /\ stopping \in BOOLEAN
  BY Types DEF PipelineInv
<1>2. PICK v \in {"acked", "inflight"} : cons' = [cons EXCEPT ![e] = v]
  BY DEF ProcessOta
<1>3. /\ stream' = stream /\ UNCHANGED memVars /\ stopping' = stopping
      /\ UNCHANGED <<cur, keys, rows, reported, cmdres, orphaned, overtaken>> /\ dlq' = dlq
      /\ stream[e].kind = "ota_progress"
  BY DEF ProcessOta, storeVars
<1>4. faults' \in 0 .. MaxFaults
  BY <1>1, FaultIs DEF ProcessOta, NoFault
<1>5. cons' \in [Entries -> States] /\ cons'[e] = v /\ \A d \in Entries \ {e} : cons'[d] = cons[d]
  BY <1>1, <1>2, Marked DEF States
<1>6. rows' = rows /\ cmdres' = cmdres
  BY <1>3
<1>7. Handled(e)'
  BY <1>1, <1>3, <1>6, HandledKept
<1>8. \A d \in Entries : cons'[d] = "acked" => cons[d] = "acked" \/ Handled(d)'
  BY <1>5, <1>7
<1> QED
  BY <1>1, <1>3, <1>4, <1>5, <1>8, ConsumerStep

\* A duplicate is acked for a key that is there.
LEMMA DupStep ==
  ASSUME PipelineInv, NEW e \in Entries, ProcessDup(e) PROVE PipelineInv'
<1>1. TypeOK /\ faults \in 0 .. MaxFaults /\ dlq \subseteq Entries /\ stopping \in BOOLEAN
  BY Types DEF PipelineInv
<1>2. PICK v \in {"acked", "inflight"} : cons' = [cons EXCEPT ![e] = v]
  BY DEF ProcessDup
<1>3. /\ stream' = stream /\ UNCHANGED memVars /\ stopping' = stopping
      /\ UNCHANGED <<cur, keys, rows, reported, cmdres, orphaned, overtaken>> /\ dlq' = dlq
      /\ Deduped(e) /\ Key(e) \in keys
  BY DEF ProcessDup, storeVars, Deduped
<1>4. faults' \in 0 .. MaxFaults
  BY <1>1, FaultIs DEF ProcessDup, NoFault
<1>5. cons' \in [Entries -> States] /\ cons'[e] = v /\ \A d \in Entries \ {e} : cons'[d] = cons[d]
  BY <1>1, <1>2, Marked DEF States
<1>6. \A d \in Entries : cons'[d] = "acked" => cons[d] = "acked" \/ (Deduped(d) /\ Key(d) \in keys)
  BY <1>3, <1>5
<1> QED
  BY <1>1, <1>3, <1>4, <1>5, <1>6, ConsumerStep

LEMMA AckWaitStep ==
  ASSUME PipelineInv, NEW e \in Entries, AckWaitExpires(e) PROVE PipelineInv'
<1>1. TypeOK /\ faults \in 0 .. MaxFaults /\ dlq \subseteq Entries /\ stopping \in BOOLEAN
  BY Types DEF PipelineInv
<1>2. cons' = [cons EXCEPT ![e] = "redeliver"]
  BY DEF AckWaitExpires
<1>3. /\ stream' = stream /\ UNCHANGED memVars /\ stopping' = stopping
      /\ UNCHANGED <<cur, keys, rows, reported, cmdres, orphaned, overtaken>> /\ dlq' = dlq
  BY DEF AckWaitExpires, storeVars
<1>4. faults' \in 0 .. MaxFaults
  BY <1>1, FaultIs DEF AckWaitExpires, NoFault
<1>5. cons' \in [Entries -> States] /\ cons'[e] = "redeliver" /\ \A d \in Entries \ {e} : cons'[d] = cons[d]
  BY <1>1, <1>2, Marked DEF States
<1>6. \A d \in Entries : cons'[d] = "acked" => cons[d] = "acked"
  BY <1>5
<1> QED
  BY <1>1, <1>3, <1>4, <1>5, <1>6, ConsumerStep

LEMMA StopStep ==
  ASSUME PipelineInv, Stop \/ RestartAfterDrain PROVE PipelineInv'
<1>1. TypeOK /\ faults \in 0 .. MaxFaults /\ dlq \subseteq Entries /\ cons \in [Entries -> States]
  BY Types, Facts DEF PipelineInv
<1>2. /\ stream' = stream /\ UNCHANGED memVars /\ stopping' \in BOOLEAN /\ cons' = cons
      /\ UNCHANGED <<cur, keys, rows, reported, cmdres, orphaned, overtaken>> /\ dlq' = dlq
  BY DEF Stop, RestartAfterDrain, storeVars
<1>3. faults' \in 0 .. MaxFaults
  BY <1>1, FaultIs DEF Stop, RestartAfterDrain
<1> QED
  BY <1>1, <1>2, <1>3, ConsumerStep

\* Seen takes the key of the entry, or none.
LEMMA SeenIs ==
  ASSUME TypeOK, NEW e \in Entries, SeenLetsPass(e)
  PROVE  /\ keys \subseteq keys' /\ keys' \subseteq keys \cup {Key(e)} /\ keys' \subseteq AllKeys
         /\ faults' \in 0 .. MaxFaults
<1>1. keys' \in {keys, keys \cup {Key(e)}} /\ Key(e) \in AllKeys /\ keys \subseteq AllKeys
  BY OneKind, Types DEF SeenLetsPass
<1>2. faults' \in 0 .. MaxFaults
  BY FaultIs DEF SeenLetsPass, NoFault
<1> QED
  BY <1>1, <1>2

LEMMA TelemetryStep ==
  ASSUME PipelineInv, NEW e \in Entries, ProcessTelemetry(e) PROVE PipelineInv'
<1>1. TypeOK /\ IdleEmpty /\ HeldKinds /\ RowsFirst /\ KeysOwned /\ AckedCovered
  BY DEF PipelineInv
<1>2. /\ stream' = stream /\ cons' = [cons EXCEPT ![e] = "inflight"] /\ in' = Append(in, e)
      /\ cur' = cur /\ batch' = batch /\ batches' = batches /\ fl' = fl /\ stopping' = stopping
      /\ orphaned' = orphaned /\ overtaken' \in {overtaken, overtaken \cup {stream[e].sn}}
      /\ rows' = rows /\ reported' = reported /\ cmdres' = cmdres /\ dlq' = dlq
      /\ Len(in) < BatchSize /\ stream[e].kind = "telemetry" /\ SeenLetsPass(e)
  BY DEF ProcessTelemetry, storeVars
<1>3. keys \subseteq keys' /\ keys' \subseteq keys \cup {Key(e)} /\ keys' \subseteq AllKeys
      /\ faults' \in 0 .. MaxFaults
  BY <1>1, <1>2, SeenIs
<1>4. cons' \in [Entries -> States] /\ cons'[e] = "inflight" /\ \A d \in Entries \ {e} : cons'[d] = cons[d]
  BY <1>1, <1>2, Marked DEF States
<1>5. /\ in' \in Seq(Entries) /\ Len(in') <= BatchSize /\ ToSet(in') = ToSet(in) \cup {e}
  <2>1. in \in Seq(Entries) /\ Len(in) \in Nat /\ BatchSize \in Nat
    BY <1>1, Facts, Assumed
  <2>2. /\ Append(in, e) \in Seq(Entries) /\ Len(Append(in, e)) = Len(in) + 1
        /\ ToSet(Append(in, e)) = ToSet(in) \cup {e}
    BY <2>1, ToSetAppend
  <2> QED BY <1>2, <2>1, <2>2
<1>6. ASSUME NEW d PROVE d \in Channelled' <=> d \in Channelled \/ d = e
  BY <1>2, <1>5, ChannelledIs
<1>7. ASSUME NEW d PROVE d \in Held' <=> d \in Held \/ d = e
  BY <1>2, <1>6, HeldIs
<1>8. overtaken' \subseteq SNs
  BY <1>1, <1>2, OneKind, Types
<1>9. TypeOK'
  BY <1>1, <1>2, <1>3, <1>4, <1>5, <1>8, Facts, Types, Typed
<1>10. IdleEmpty' /\ HeldKinds'
  BY <1>1, <1>2, <1>6 DEF IdleEmpty, HeldKinds
<1>11. RowsFirst'
  BY <1>1, <1>2 DEF RowsFirst, KeysOf, Key
<1>12. KeysOwned' /\ AckedCovered'
  <2>1. \A d \in Entries : cons'[d] = "acked" => cons[d] = "acked"
    BY <1>4
  <2>2. \A k \in keys' : k \in keys \/ \E d \in Held' : Key(d) = k
    BY <1>3, <1>7
  <2>3. Held \subseteq Held' /\ keys \ keys' = {}
    BY <1>3, <1>7
  <2> QED BY <1>1, <1>2, <2>1, <2>2, <2>3, Covered
<1> QED
  BY <1>9, <1>10, <1>11, <1>12 DEF PipelineInv

LEMMA SyncStep ==
  ASSUME PipelineInv, NEW e \in Entries, ProcessSync(e) PROVE PipelineInv'
<1> DEFINE pc == IF stream[e].kind = "event" THEN "insert" ELSE "cmdres"
<1>1. TypeOK /\ IdleEmpty /\ HeldKinds /\ RowsFirst /\ KeysOwned /\ AckedCovered
  BY DEF PipelineInv
<1>2. /\ stream' = stream /\ cons' = [cons EXCEPT ![e] = "inflight"]
      /\ cur.pc = "idle" /\ cur' = [pc |-> pc, e |-> e] /\ UNCHANGED memVars /\ stopping' = stopping
      /\ orphaned' = orphaned /\ overtaken' = overtaken
      /\ rows' = rows /\ reported' = reported /\ cmdres' = cmdres /\ dlq' = dlq
      /\ stream[e].kind \in {"event", "cmd_ack"} /\ SeenLetsPass(e)
  BY DEF ProcessSync, storeVars
<1>3. keys \subseteq keys' /\ keys' \subseteq keys \cup {Key(e)} /\ keys' \subseteq AllKeys
      /\ faults' \in 0 .. MaxFaults
  BY <1>1, <1>2, SeenIs
<1>4. cons' \in [Entries -> States] /\ cons'[e] = "inflight" /\ \A d \in Entries \ {e} : cons'[d] = cons[d]
  BY <1>1, <1>2, Marked DEF States
<1>5. /\ Channelled' = Channelled
      /\ in' = in /\ batch' = batch /\ batches' = batches /\ fl' = fl
  BY <1>2, MemKept
<1>6. cur' \in Busy /\ cur'.e = e /\ cur'.pc \in {"insert", "cmdres"}
      /\ (cur'.pc = "insert" <=> stream[e].kind = "event")
  BY <1>2 DEF Busy
<1>7. ASSUME NEW d PROVE d \in Held' <=> d \in Held \/ d = e
  BY <1>2, <1>5, <1>6, HeldIs
<1>8. TypeOK'
  BY <1>1, <1>2, <1>3, <1>4, <1>5, <1>6, Facts, Types, Typed
<1>9. IdleEmpty' /\ HeldKinds'
  BY <1>1, <1>2, <1>5, <1>6 DEF IdleEmpty, HeldKinds
<1>10. RowsFirst'
  BY <1>1, <1>2, <1>5, <1>6 DEF RowsFirst, KeysOf, Key
<1>11. KeysOwned' /\ AckedCovered'
  <2>1. \A d \in Entries : cons'[d] = "acked" => cons[d] = "acked"
    BY <1>4
  <2>2. \A k \in keys' : k \in keys \/ \E d \in Held' : Key(d) = k
    BY <1>3, <1>7
  <2>3. Held \subseteq Held' /\ keys \ keys' = {}
    BY <1>3, <1>7
  <2> QED BY <1>1, <1>2, <2>1, <2>2, <2>3, Covered
<1> QED
  BY <1>8, <1>9, <1>10, <1>11 DEF PipelineInv

LEMMA InsertOkStep ==
  ASSUME PipelineInv, EventInsertOk PROVE PipelineInv'
<1>1. TypeOK /\ IdleEmpty /\ HeldKinds /\ RowsFirst /\ KeysOwned /\ AckedCovered
  BY DEF PipelineInv
<1>2. /\ stream' = stream /\ cons' = cons /\ keys' = keys /\ UNCHANGED memVars /\ stopping' = stopping
      /\ cur.pc = "insert" /\ cur' = [cur EXCEPT !.pc = "shadow"] /\ rows' = rows \cup {Key(cur.e)}
      /\ orphaned' = orphaned /\ overtaken' = overtaken /\ faults' = faults
      /\ reported' = reported /\ cmdres' = cmdres /\ dlq' = dlq
  BY DEF EventInsertOk
<1>3. cur \in Busy /\ cur.e \in Entries
  BY <1>1, <1>2, Facts DEF IdleCur, Busy
<1>4. cur' \in Busy /\ cur'.pc = "shadow" /\ cur'.e = cur.e
  BY <1>2, <1>3 DEF Busy
<1>5. rows' \subseteq AllKeys
  BY <1>1, <1>2, <1>3, OneKind, Types
<1>6. /\ Channelled' = Channelled
      /\ in' = in /\ batch' = batch /\ batches' = batches /\ fl' = fl
  BY <1>2, MemKept
<1>7. ASSUME NEW d PROVE d \in Held' <=> d \in Held
  BY <1>2, <1>4, <1>6, HeldIs
<1>8. TypeOK'
  BY <1>1, <1>2, <1>4, <1>5, <1>6, Facts, Types, Typed
<1>9. IdleEmpty' /\ HeldKinds'
  BY <1>1, <1>2, <1>4, <1>6 DEF IdleEmpty, HeldKinds
<1>10. RowsFirst'
  BY <1>1, <1>2, <1>4, <1>6 DEF RowsFirst, KeysOf, Key
<1>11. KeysOwned' /\ AckedCovered'
  BY <1>1, <1>2, <1>7, Covered
<1> QED
  BY <1>8, <1>9, <1>10, <1>11 DEF PipelineInv

\* A failed write: the copies are let go, their keys freed or orphaned.
LEMMA NakStep ==
  ASSUME PipelineInv, NEW items, ToSet(items) \subseteq Entries, NakAll(items), stream' = stream,
         Channelled' \subseteq Channelled, \A d \in Held : d \in Held' \/ d \in ToSet(items),
         cur' \in {cur, IdleCur}, in' = in, batch' = batch, batches' = batches,
         fl' \in [Flushers -> FlusherState], \A f \in Flushers : fl'[f] \in {fl[f], IdleFlusher},
         rows \subseteq rows', rows' \subseteq AllKeys, overtaken' \subseteq SNs,
         UNCHANGED <<reported, cmdres, dlq, stopping>>, faults' \in 0 .. MaxFaults
  PROVE  PipelineInv'
<1>1. TypeOK /\ IdleEmpty /\ HeldKinds /\ RowsFirst /\ KeysOwned /\ AckedCovered
  BY DEF PipelineInv
<1>2. /\ cons' \in [Entries -> States]
      /\ keys' \subseteq keys /\ orphaned \subseteq orphaned' /\ orphaned' \subseteq AllKeys
      /\ \A e \in Entries : cons'[e] = "acked" <=> cons[e] = "acked"
      /\ \A k \in keys \ keys' :
           k \in orphaned' \/ \E e \in Entries : Key(e) = k /\ cons'[e] # "acked"
      /\ \A e \in ToSet(items) : Key(e) \in orphaned' \/ Key(e) \notin keys'
  BY <1>1, NakIs
<1>3. cur' \in {IdleCur} \cup Busy /\ keys' \subseteq AllKeys
  BY <1>1, <1>2, Facts, Types
<1>4. TypeOK'
  BY <1>1, <1>2, <1>3, Facts, Types, Typed
<1>5. IdleEmpty' /\ HeldKinds' /\ RowsFirst'
  BY <1>1, Quiet
<1>6. KeysOwned' /\ AckedCovered'
  BY <1>1, <1>2, Covered
<1> QED
  BY <1>4, <1>5, <1>6 DEF PipelineInv

\* A step after which the copies are let go and some of them acked, all with
\* their effects in place.
LEMMA AckStep ==
  ASSUME PipelineInv, NEW es \in SUBSET Entries, stream' = stream,
         cons' \in [Entries -> States],
         \A e \in Entries : cons'[e] = "acked" => cons[e] = "acked" \/ e \in es,
         \A e \in es : Deduped(e) /\ Handled(e)',
         Channelled' \subseteq Channelled, \A d \in Held : d \in Held' \/ d \in es,
         cur' \in {cur, IdleCur}, in' = in, batch' = batch, batches' = batches,
         fl' \in [Flushers -> FlusherState], \A f \in Flushers : fl'[f] \in {fl[f], IdleFlusher},
         cmdres \subseteq cmdres', cmdres' \subseteq AllKeys, overtaken' \subseteq SNs,
         DOMAIN reported' = SNs, UNCHANGED <<keys, rows, dlq, stopping, orphaned>>,
         faults' \in 0 .. MaxFaults
  PROVE  PipelineInv'
<1>1. TypeOK /\ IdleEmpty /\ HeldKinds /\ RowsFirst /\ KeysOwned /\ AckedCovered
  BY DEF PipelineInv
<1>2. cur' \in {IdleCur} \cup Busy
  BY <1>1, Facts
<1>3. TypeOK'
  BY <1>1, <1>2, Facts, Types, Typed
<1>4. IdleEmpty' /\ HeldKinds' /\ RowsFirst'
  BY <1>1, Quiet
<1>5. KeysOwned' /\ AckedCovered'
  BY <1>1, Covered
<1> QED
  BY <1>3, <1>4, <1>5 DEF PipelineInv

\* The consume goroutine lets go of its entry.
LEMMA CurMoves ==
  ASSUME TypeOK, cur.pc # "idle", cur' = IdleCur, UNCHANGED memVars
  PROVE  /\ cur.e \in Entries
         /\ Channelled' = Channelled /\ \A d \in Held : d \in Held' \/ d = cur.e
         /\ in' = in /\ batch' = batch /\ batches' = batches /\ fl' = fl
         /\ fl' \in [Flushers -> FlusherState]
<1>1. cur.e \in Entries
  BY Facts DEF IdleCur, Busy
<1>2. /\ Channelled' = Channelled
      /\ in' = in /\ batch' = batch /\ batches' = batches /\ fl' = fl
  BY MemKept
<1>3. \A d \in Held : d \in Held' \/ d = cur.e
  BY <1>2, HeldIs
<1> QED
  BY <1>1, <1>2, <1>3, Facts

LEMMA EventErrStep ==
  ASSUME PipelineInv, EventInsertErr PROVE PipelineInv'
<1>1. TypeOK
  BY DEF PipelineInv
<1>2. /\ cur.pc = "insert" /\ NakAll(<<cur.e>>) /\ cur' = IdleCur /\ UNCHANGED memVars
      /\ rows' \in {rows, rows \cup {Key(cur.e)}} /\ stream' = stream /\ overtaken' = overtaken
      /\ UNCHANGED <<reported, cmdres, dlq, stopping>>
  BY DEF EventInsertErr
<1>3. faults' \in 0 .. MaxFaults
  BY <1>1, FaultIs DEF EventInsertErr
<1>4. /\ cur.e \in Entries
      /\ Channelled' = Channelled /\ \A d \in Held : d \in Held' \/ d = cur.e
      /\ in' = in /\ batch' = batch /\ batches' = batches /\ fl' = fl
      /\ fl' \in [Flushers -> FlusherState]
  BY <1>1, <1>2, CurMoves
<1>5. ToSet(<<cur.e>>) = {cur.e}
  BY ToSetOne
<1>6. rows \subseteq rows' /\ rows' \subseteq AllKeys /\ overtaken' \subseteq SNs
  BY <1>1, <1>2, <1>4, OneKind, Types
<1> QED
  BY <1>2, <1>3, <1>4, <1>5, <1>6, NakStep

LEMMA CmdErrStep ==
  ASSUME PipelineInv, CmdAckErr PROVE PipelineInv'
<1>1. TypeOK
  BY DEF PipelineInv
<1>2. /\ cur.pc = "cmdres" /\ NakAll(<<cur.e>>) /\ cur' = IdleCur /\ UNCHANGED memVars
      /\ rows' = rows /\ stream' = stream /\ overtaken' = overtaken
      /\ UNCHANGED <<reported, cmdres, dlq, stopping>>
  BY DEF CmdAckErr, storeVars
<1>3. faults' \in 0 .. MaxFaults
  BY <1>1, FaultIs DEF CmdAckErr
<1>4. /\ cur.e \in Entries
      /\ Channelled' = Channelled /\ \A d \in Held : d \in Held' \/ d = cur.e
      /\ in' = in /\ batch' = batch /\ batches' = batches /\ fl' = fl
      /\ fl' \in [Flushers -> FlusherState]
  BY <1>1, <1>2, CurMoves
<1>5. ToSet(<<cur.e>>) = {cur.e}
  BY ToSetOne
<1>6. rows' \subseteq AllKeys /\ overtaken' \subseteq SNs
  BY <1>1, <1>2, Types
<1> QED
  BY <1>2, <1>3, <1>4, <1>5, <1>6, NakStep

LEMMA EventAckStep ==
  ASSUME PipelineInv, EventAck PROVE PipelineInv'
<1>1. TypeOK /\ HeldKinds /\ RowsFirst
  BY DEF PipelineInv
<1>2. /\ cur.pc = "shadow" /\ AckAll({cur.e}) /\ cur' = IdleCur /\ UNCHANGED memVars
      /\ stream' = stream /\ overtaken' = overtaken /\ reported' = reported /\ cmdres' = cmdres
      /\ UNCHANGED <<keys, rows, dlq, stopping, orphaned>>
  BY DEF EventAck, storeVars
<1>3. /\ cur.e \in Entries
      /\ Channelled' = Channelled /\ \A d \in Held : d \in Held' \/ d = cur.e
      /\ in' = in /\ batch' = batch /\ batches' = batches /\ fl' = fl
      /\ fl' \in [Flushers -> FlusherState]
  BY <1>1, <1>2, CurMoves
<1>4. /\ cons' \in [Entries -> States] /\ faults' \in 0 .. MaxFaults
      /\ \A e \in Entries : cons'[e] = "acked" => cons[e] = "acked" \/ e \in {cur.e}
  <2>1. {cur.e} \in SUBSET Entries /\ AckAll({cur.e})
    BY <1>2, <1>3
  <2> QED BY <1>1, <2>1, AckIs
<1>5. Deduped(cur.e) /\ stream[cur.e].kind = "event" /\ Key(cur.e) \in rows
  BY <1>1, <1>2 DEF HeldKinds, RowsFirst, Deduped
<1>6. \A e \in {cur.e} : Deduped(e) /\ Handled(e)'
  <2>1. rows' = rows /\ dlq' = dlq
    BY <1>2
  <2>2. \A e \in Entries : stream[e].kind \in {"telemetry", "event"} => (Handled(e)' <=> Key(e) \in rows')
    BY <1>1, <1>2, <2>1, HandledKept
  <2> QED BY <1>3, <1>5, <2>1, <2>2
<1>7. cmdres' \subseteq AllKeys /\ overtaken' \subseteq SNs /\ DOMAIN reported' = SNs
  BY <1>1, <1>2, Types
<1> QED
  BY <1>2, <1>3, <1>4, <1>6, <1>7, AckStep

LEMMA CmdAckStep ==
  ASSUME PipelineInv, CmdAckStored PROVE PipelineInv'
<1>1. TypeOK /\ HeldKinds /\ RowsFirst
  BY DEF PipelineInv
<1>2. /\ cur.pc = "cmdres" /\ AckAll({cur.e}) /\ cur' = IdleCur /\ UNCHANGED memVars
      /\ stream' = stream /\ overtaken' = overtaken /\ reported' = reported
      /\ cmdres' = cmdres \cup {Key(cur.e)}
      /\ UNCHANGED <<keys, rows, dlq, stopping, orphaned>>
  BY DEF CmdAckStored
<1>3. /\ cur.e \in Entries
      /\ Channelled' = Channelled /\ \A d \in Held : d \in Held' \/ d = cur.e
      /\ in' = in /\ batch' = batch /\ batches' = batches /\ fl' = fl
      /\ fl' \in [Flushers -> FlusherState]
  BY <1>1, <1>2, CurMoves
<1>4. /\ cons' \in [Entries -> States] /\ faults' \in 0 .. MaxFaults
      /\ \A e \in Entries : cons'[e] = "acked" => cons[e] = "acked" \/ e \in {cur.e}
  <2>1. {cur.e} \in SUBSET Entries /\ AckAll({cur.e})
    BY <1>2, <1>3
  <2> QED BY <1>1, <2>1, AckIs
<1>5. Deduped(cur.e) /\ stream[cur.e].kind = "cmd_ack" /\ Key(cur.e) \in cmdres'
  BY <1>1, <1>2 DEF HeldKinds, Deduped
<1>6. \A e \in {cur.e} : Deduped(e) /\ Handled(e)'
  <2>1. rows' = rows /\ dlq' = dlq /\ cmdres \subseteq cmdres'
    BY <1>2
  <2>2. \A e \in Entries : stream[e].kind = "cmd_ack" => (Handled(e)' <=> Key(e) \in cmdres')
    BY <1>1, <1>2, <2>1, HandledKept
  <2> QED BY <1>3, <1>5, <2>1, <2>2
<1>7. cmdres' \subseteq AllKeys /\ overtaken' \subseteq SNs /\ DOMAIN reported' = SNs
  BY <1>1, <1>2, <1>3, OneKind, Types
<1> QED
  BY <1>2, <1>3, <1>4, <1>6, <1>7, AckStep

-----------------------------------------------------------------------------
(* The steps of the batch loop and of the flushers.                        *)

\* An entry goes from one channel to the next.
LEMMA MoveStep ==
  ASSUME PipelineInv, stream' = stream, Channelled' = Channelled,
         IdleEmpty', \A f \in Flushers : fl'[f].stage = "shadow" => fl'[f] = fl[f],
         UNCHANGED <<cons, keys, cur, rows, reported, cmdres, dlq, stopping, faults, orphaned>>,
         overtaken' \subseteq SNs, in' \in Seq(Entries), Len(in') <= BatchSize, batch' \in Batch,
         batches' \in Seq(Batch), Len(batches') <= Cardinality(Flushers),
         fl' \in [Flushers -> FlusherState]
  PROVE  PipelineInv'
<1>1. TypeOK /\ IdleEmpty /\ HeldKinds /\ RowsFirst /\ KeysOwned /\ AckedCovered
  BY DEF PipelineInv
<1>2. TypeOK'
  BY <1>1, Facts, Types, Typed
<1>3. ASSUME NEW e PROVE e \in Held' <=> e \in Held
  BY HeldIs
<1>4. HeldKinds'
  BY <1>1 DEF HeldKinds
<1>5. RowsFirst'
  BY <1>1 DEF RowsFirst, KeysOf, Key
<1>6. KeysOwned' /\ AckedCovered'
  BY <1>1, <1>3, Covered
<1> QED
  BY <1>2, <1>4, <1>5, <1>6 DEF PipelineInv

LEMMA AddStep ==
  ASSUME PipelineInv, BatchAdd PROVE PipelineInv'
<1>1. TypeOK /\ IdleEmpty /\ fl \in [Flushers -> FlusherState] /\ overtaken \subseteq SNs
      /\ batches \in Seq(Batch) /\ Len(batches) <= Cardinality(Flushers)
  BY Facts, Types DEF PipelineInv
<1>2. /\ Channelled' = Channelled
      /\ in' \in Seq(Entries) /\ Len(in') <= BatchSize /\ batch' \in Batch
      /\ batches' = batches /\ fl' = fl /\ cur' = cur
  BY <1>1, AddMoves
<1>3. stream' = stream /\ overtaken' = overtaken
      /\ UNCHANGED <<cons, keys, cur, rows, reported, cmdres, dlq, stopping, faults, orphaned>>
  BY DEF BatchAdd, storeVars
<1>4. IdleEmpty'
  BY <1>1, <1>2 DEF IdleEmpty
<1> QED
  BY <1>1, <1>2, <1>3, <1>4, MoveStep

LEMMA DrainStep ==
  ASSUME PipelineInv, BatchDrain PROVE PipelineInv'
<1>1. TypeOK /\ IdleEmpty /\ fl \in [Flushers -> FlusherState] /\ overtaken \subseteq SNs
      /\ in \in Seq(Entries) /\ Len(in) <= BatchSize
  BY Facts, Types DEF PipelineInv
<1>2. /\ Channelled' = Channelled
      /\ in' = in /\ batch' \in Batch
      /\ batches' \in Seq(Batch) /\ Len(batches') <= Cardinality(Flushers)
      /\ fl' = fl /\ cur' = cur
  BY <1>1, DrainMoves
<1>3. stream' = stream /\ overtaken' = overtaken
      /\ UNCHANGED <<cons, keys, cur, rows, reported, cmdres, dlq, stopping, faults, orphaned>>
  BY DEF BatchDrain, storeVars
<1>4. IdleEmpty'
  BY <1>1, <1>2 DEF IdleEmpty
<1> QED
  BY <1>1, <1>2, <1>3, <1>4, MoveStep

LEMMA TakeStep ==
  ASSUME PipelineInv, NEW f \in Flushers, FlushTake(f) PROVE PipelineInv'
<1>1. TypeOK /\ IdleEmpty /\ batch \in Batch /\ in \in Seq(Entries) /\ Len(in) <= BatchSize
      /\ overtaken \subseteq SNs /\ batches \in Seq(Batch) /\ fl \in [Flushers -> FlusherState]
  BY Facts, Types DEF PipelineInv
<1>2. /\ fl[f].stage = "idle" /\ batches # <<>> /\ stream' = stream
      /\ fl' = [fl EXCEPT ![f] = [stage |-> "insert", items |-> Head(batches)]]
      /\ overtaken' \subseteq overtaken \cup SNsOf(Head(batches))
      /\ UNCHANGED <<cons, keys, cur, rows, reported, cmdres, dlq, stopping, faults, orphaned>>
  BY DEF FlushTake, storeVars
<1>3. fl[f].items = <<>>
  BY <1>1, <1>2 DEF IdleEmpty
<1>4. /\ Channelled' = Channelled
      /\ in' = in /\ batch' = batch
      /\ batches' \in Seq(Batch) /\ Len(batches') <= Cardinality(Flushers)
      /\ fl' \in [Flushers -> FlusherState] /\ cur' = cur
  BY <1>1, <1>3, TakeMoves
<1>5. \A g \in Flushers : fl'[g].stage \in {"idle", "shadow"} => fl'[g] = fl[g]
  BY <1>1, <1>2
<1>6. IdleEmpty'
  BY <1>1, <1>5 DEF IdleEmpty
<1>7. overtaken' \subseteq SNs
  <2>1. Head(batches) \in Seq(Entries)
    BY <1>1, <1>2, ToSetTail, BatchIs
  <2>2. SNsOf(Head(batches)) \subseteq SNs
    BY <1>1, <2>1, ToSetOf, KeysOfIs
  <2> QED BY <1>1, <1>2, <2>2
<1> QED
  BY <1>1, <1>2, <1>4, <1>5, <1>6, <1>7, MoveStep

LEMMA FlushOkStep ==
  ASSUME PipelineInv, NEW f \in Flushers, FlushInsertOk(f) PROVE PipelineInv'
<1>1. TypeOK /\ IdleEmpty /\ HeldKinds /\ RowsFirst /\ KeysOwned /\ AckedCovered
  BY DEF PipelineInv
<1>2. /\ fl[f].stage = "insert" /\ rows' = rows \cup KeysOf(fl[f].items)
      /\ fl' = [fl EXCEPT ![f].stage = "shadow"]
      /\ stream' = stream /\ in' = in /\ batch' = batch /\ batches' = batches
      /\ UNCHANGED <<cons, keys, cur, reported, cmdres, dlq, stopping, faults, orphaned, overtaken>>
  BY DEF FlushInsertOk
<1>3. fl \in [Flushers -> FlusherState]
  BY <1>1, Facts
<1>4. /\ fl' \in [Flushers -> FlusherState]
      /\ fl'[f].stage = "shadow" /\ fl'[f].items = fl[f].items
      /\ \A g \in Flushers \ {f} : fl'[g] = fl[g]
  BY <1>2, <1>3 DEF FlusherState
<1>5. ASSUME NEW e PROVE e \in Channelled' <=> e \in Channelled
  BY <1>2, <1>4, ChannelledIs
<1>6. ASSUME NEW e PROVE e \in Held' <=> e \in Held
  BY <1>2, <1>5, HeldIs
<1>7. rows' \subseteq AllKeys
  BY <1>1, <1>2, HeldEntries, OneKind, KeysOfIs, Types
<1>8. TypeOK'
  BY <1>1, <1>2, <1>4, <1>7, Facts, Types, Typed
<1>9. IdleEmpty' /\ HeldKinds'
  BY <1>1, <1>2, <1>4, <1>5 DEF IdleEmpty, HeldKinds
<1>10. RowsFirst'
  <2>1. \A g \in Flushers : fl'[g].stage = "shadow" => KeysOf(fl'[g].items) \subseteq rows'
    BY <1>1, <1>2, <1>4 DEF RowsFirst
  <2>2. cur'.pc = "shadow" => Key(cur'.e) \in rows'
    BY <1>1, <1>2 DEF RowsFirst
  <2> QED BY <1>2, <2>1, <2>2 DEF RowsFirst, KeysOf, Key
<1>11. KeysOwned' /\ AckedCovered'
  BY <1>1, <1>2, <1>6, Covered
<1> QED
  BY <1>8, <1>9, <1>10, <1>11 DEF PipelineInv

\* A flusher goes idle and lets go of its batch.
LEMMA LetGo ==
  ASSUME TypeOK, NEW f \in Flushers, fl' = [fl EXCEPT ![f] = IdleFlusher],
         in' = in, batch' = batch, batches' = batches, cur' = cur
  PROVE  /\ fl' \in [Flushers -> FlusherState] /\ \A g \in Flushers : fl'[g] \in {fl[g], IdleFlusher}
         /\ Channelled' \subseteq Channelled
         /\ \A d \in Held : d \in Held' \/ d \in ToSet(fl[f].items)
         /\ ToSet(fl[f].items) \subseteq Channelled
<1>1. IdleFlusher \in FlusherState /\ IdleFlusher.items = <<>>
  <2>1. <<>> \in Seq(Entries) /\ Len(<<>>) <= BatchSize
    BY Assumed
  <2>2. <<>> \in Batch
    BY <2>1, BatchIs
  <2> QED BY <2>2 DEF IdleFlusher, FlusherState
<1>2. /\ fl' \in [Flushers -> FlusherState]
      /\ fl'[f] = IdleFlusher /\ \A g \in Flushers \ {f} : fl'[g] = fl[g]
  BY <1>1, Facts
<1>3. ASSUME NEW e, e \in Channelled' PROVE e \in Channelled
  BY <1>1, <1>2, <1>3, ToSetEmpty, ChannelledIs
<1>4. ASSUME NEW e, e \in Channelled PROVE e \in Channelled' \/ e \in ToSet(fl[f].items)
  BY <1>2, <1>4, ChannelledIs
<1>5. ToSet(fl[f].items) \subseteq Channelled
  BY ChannelledIs
<1>6. \A d \in Held : d \in Held' \/ d \in ToSet(fl[f].items)
  BY <1>4, HeldIs
<1> QED
  BY <1>2, <1>3, <1>5, <1>6

LEMMA FlushErrStep ==
  ASSUME PipelineInv, NEW f \in Flushers, FlushInsertErr(f) PROVE PipelineInv'
<1>1. TypeOK
  BY DEF PipelineInv
<1>2. /\ NakAll(fl[f].items) /\ fl' = [fl EXCEPT ![f] = IdleFlusher] /\ stream' = stream
      /\ in' = in /\ batch' = batch /\ batches' = batches /\ cur' = cur
      /\ rows' \in {rows, rows \cup KeysOf(fl[f].items)}
      /\ overtaken' \in {overtaken, overtaken \cup SNsOf(fl[f].items)}
      /\ UNCHANGED <<reported, cmdres, dlq, stopping>>
  BY DEF FlushInsertErr
<1>3. faults' \in 0 .. MaxFaults
  BY <1>1, FaultIs DEF FlushInsertErr
<1>4. ToSet(fl[f].items) \subseteq Entries
  BY <1>1, HeldEntries
<1>5. /\ fl' \in [Flushers -> FlusherState] /\ \A g \in Flushers : fl'[g] \in {fl[g], IdleFlusher}
      /\ Channelled' \subseteq Channelled
      /\ \A d \in Held : d \in Held' \/ d \in ToSet(fl[f].items)
  BY <1>1, <1>2, LetGo
<1>6. rows \subseteq rows' /\ rows' \subseteq AllKeys
  BY <1>1, <1>2, <1>4, OneKind, KeysOfIs, Types
<1>7. overtaken' \subseteq SNs
  BY <1>1, <1>2, <1>4, KeysOfIs, Types
<1> QED
  BY <1>2, <1>3, <1>4, <1>5, <1>6, <1>7, NakStep

LEMMA FlushAckStep ==
  ASSUME PipelineInv, NEW f \in Flushers, FlushShadowAck(f) PROVE PipelineInv'
<1>1. TypeOK /\ HeldKinds /\ RowsFirst
  BY DEF PipelineInv
<1>2. /\ fl[f].stage = "shadow" /\ fl' = [fl EXCEPT ![f] = IdleFlusher] /\ stream' = stream
      /\ in' = in /\ batch' = batch /\ batches' = batches /\ cur' = cur
      /\ overtaken' \in {overtaken, overtaken \cup SNsOf(fl[f].items)}
      /\ UNCHANGED <<keys, rows, cmdres, dlq, stopping, orphaned>>
  BY DEF FlushShadowAck
<1>3. /\ fl' \in [Flushers -> FlusherState] /\ \A g \in Flushers : fl'[g] \in {fl[g], IdleFlusher}
      /\ Channelled' \subseteq Channelled
      /\ \A d \in Held : d \in Held' \/ d \in ToSet(fl[f].items)
      /\ ToSet(fl[f].items) \subseteq Channelled /\ ToSet(fl[f].items) \subseteq Entries
  BY <1>1, <1>2, LetGo, HeldEntries
<1>4. PICK es \in SUBSET Entries : es = ToSet(fl[f].items)
  BY <1>3
<1>5. /\ cons' \in [Entries -> States] /\ faults' \in 0 .. MaxFaults
      /\ \A e \in Entries : cons'[e] = "acked" => cons[e] = "acked" \/ e \in es
  <2>1. CASE AckAll(es)
    BY <1>1, <2>1, AckIs
  <2>2. CASE /\ Fault("redis")
             /\ cons' = [e \in Entries |-> IF e \in es THEN "acked" ELSE cons[e]]
    BY <1>1, <2>2, FaultIs, Facts DEF States
  <2>3. \/ AckAll(ToSet(fl[f].items))
        \/ /\ Fault("redis")
           /\ cons' = [e \in Entries |-> IF e \in ToSet(fl[f].items) THEN "acked" ELSE cons[e]]
    BY DEF FlushShadowAck
  <2>4. AckAll(ToSet(fl[f].items)) => AckAll(es)
    BY <1>4
  <2> QED BY <1>4, <2>1, <2>2, <2>3, <2>4
<1>6. DOMAIN reported' = SNs
  BY <1>1, Types DEF FlushShadowAck, ShadowAfter
<1>7. \A e \in es : Deduped(e) /\ Handled(e)'
  <2>1. \A e \in es : stream[e].kind = "telemetry" /\ Key(e) \in rows
    BY <1>1, <1>2, <1>3, <1>4, KeysOfIs DEF HeldKinds, RowsFirst
  <2>2. \A e \in Entries : stream[e].kind \in {"telemetry", "event"} => (Handled(e)' <=> Key(e) \in rows')
    BY <1>1, <1>2, HandledKept
  <2> QED BY <1>2, <2>1, <2>2 DEF Deduped
<1>8. overtaken' \subseteq SNs /\ cmdres' \subseteq AllKeys
  BY <1>1, <1>2, <1>3, KeysOfIs, Types
<1> QED
  BY <1>2, <1>3, <1>4, <1>5, <1>6, <1>7, <1>8, AckStep

-----------------------------------------------------------------------------
(* Redis and the process itself.                                           *)

\* A key expires only when no copy is held, so its owner is an effect.
LEMMA ExpiresStep ==
  ASSUME PipelineInv, NEW k, KeyExpires(k) PROVE PipelineInv'
<1>1. TypeOK /\ IdleEmpty /\ HeldKinds /\ RowsFirst /\ KeysOwned /\ AckedCovered
  BY DEF PipelineInv
<1>2. /\ stream' = stream /\ k \in keys /\ keys' = keys \ {k} /\ \A e \in Held : Key(e) # k
      /\ UNCHANGED memVars
      /\ UNCHANGED <<cur, cons, rows, reported, cmdres, dlq, stopping, faults, orphaned, overtaken>>
  BY DEF KeyExpires, storeVars
<1>3. /\ Channelled' = Channelled /\ Held' = Held
      /\ in' = in /\ batch' = batch /\ batches' = batches /\ fl' = fl
  BY <1>2, MemKept
<1>4. keys' \subseteq AllKeys
  BY <1>1, <1>2, Types
<1>5. TypeOK'
  BY <1>1, <1>2, <1>3, <1>4, Facts, Types, Typed
<1>6. IdleEmpty' /\ HeldKinds' /\ RowsFirst'
  BY <1>1, <1>2, <1>3, Quiet
<1>7. k \in orphaned \/ KeyHandled(k)
  BY <1>1, <1>2 DEF KeysOwned
<1>8. KeysOwned' /\ AckedCovered'
  <2>1. \A j \in keys \ keys' : j \in orphaned' \/ KeyHandled(j)
    BY <1>2, <1>7
  <2>2. \A j \in keys' : j \in keys
    BY <1>2
  <2> QED BY <1>1, <1>2, <1>3, <2>1, <2>2, Covered
<1> QED
  BY <1>5, <1>6, <1>8 DEF PipelineInv

\* The keys of what the process held are left behind.
LEMMA CrashStep ==
  ASSUME PipelineInv, Crash PROVE PipelineInv'
<1>1. TypeOK /\ IdleEmpty /\ HeldKinds /\ RowsFirst /\ KeysOwned /\ AckedCovered
  BY DEF PipelineInv
<1>2. /\ stream' = stream /\ orphaned' = orphaned \cup ({Key(e) : e \in Held} \cap keys)
      /\ cur' = IdleCur /\ in' = <<>> /\ batch' = <<>> /\ batches' = <<>>
      /\ fl' = [f \in Flushers |-> IdleFlusher] /\ stopping' = FALSE
      /\ UNCHANGED <<cons, keys, rows, reported, cmdres, dlq>>
  BY DEF Crash, storeVars
<1>3. faults' \in 0 .. MaxFaults
  BY <1>1, FaultIs DEF Crash
<1>4. overtaken' \subseteq SNs
  <2>1. \A f \in Flushers : SNsOf(fl[f].items) \subseteq SNs
    BY <1>1, HeldEntries, KeysOfIs
  <2>2. (UNION {SNsOf(fl[f].items) : f \in {g \in Flushers : fl[g].stage = "shadow"}}) \subseteq SNs
    BY <2>1
  <2>3. overtaken' = overtaken \cup (UNION {SNsOf(fl[f].items) : f \in {g \in Flushers : fl[g].stage = "shadow"}})
    BY DEF Crash
  <2> QED BY <1>1, <2>2, <2>3, Types
<1>5. /\ <<>> \in Seq(Entries) /\ Len(<<>>) <= BatchSize /\ <<>> \in Batch
      /\ <<>> \in Seq(Batch) /\ Len(<<>>) <= Cardinality(Flushers)
  <2>1. <<>> \in Seq(Entries) /\ Len(<<>>) = 0 /\ <<>> \in Seq(Batch)
    OBVIOUS
  <2>2. 0 <= BatchSize /\ 0 <= Cardinality(Flushers)
    BY Assumed
  <2> QED BY <2>1, <2>2, BatchIs
<1>6. fl' \in [Flushers -> FlusherState] /\ \A f \in Flushers : fl'[f] = IdleFlusher
  BY <1>2, <1>5 DEF IdleFlusher, FlusherState
<1>7. ASSUME NEW e PROVE e \notin Channelled'
  <2>1. ToSet(in') = {} /\ ToSet(batch') = {} /\ ToSet(batches') = {}
    BY <1>2, ToSetEmpty
  <2>2. \A f \in Flushers : ToSet(fl'[f].items) = {}
    BY <1>6, ToSetEmpty DEF IdleFlusher
  <2> QED BY <2>1, <2>2, ChannelledIs
<1>8. orphaned \subseteq orphaned' /\ orphaned' \subseteq AllKeys
      /\ \A e \in Held : Key(e) \in orphaned' \/ Key(e) \notin keys'
  BY <1>1, <1>2, Types
<1>9. TypeOK'
  BY <1>1, <1>2, <1>3, <1>4, <1>5, <1>6, <1>8, Facts, Types, Typed
<1>10. IdleEmpty' /\ HeldKinds' /\ RowsFirst'
  BY <1>1, <1>2, <1>6, <1>7, Quiet
<1>11. KeysOwned' /\ AckedCovered'
  BY <1>1, <1>2, <1>8, Covered
<1> QED
  BY <1>9, <1>10, <1>11 DEF PipelineInv

-----------------------------------------------------------------------------
(* The specification.                                                      *)

LEMMA InitHolds == Init => PipelineInv
<1> SUFFICES ASSUME Init PROVE PipelineInv
  OBVIOUS
<1>1. /\ <<>> \in Seq(Entries) /\ Len(<<>>) <= BatchSize /\ <<>> \in Batch
      /\ <<>> \in Seq(Batch) /\ Len(<<>>) <= Cardinality(Flushers)
  <2>1. <<>> \in Seq(Entries) /\ Len(<<>>) = 0 /\ <<>> \in Seq(Batch)
    OBVIOUS
  <2>2. 0 <= BatchSize /\ 0 <= Cardinality(Flushers)
    BY Assumed
  <2> QED BY <2>1, <2>2, BatchIs
<1>2. /\ in = <<>> /\ batch = <<>> /\ batches = <<>> /\ fl = [f \in Flushers |-> IdleFlusher]
      /\ cur = IdleCur /\ keys = {} /\ cons = [e \in Entries |-> "new"]
  BY DEF Init
<1>3. /\ in \in BoundedSeq(Entries, BatchSize) /\ batch \in BoundedSeq(Entries, BatchSize)
      /\ batches \in BoundedSeq(Batch, Cardinality(Flushers))
      /\ fl \in [Flushers -> FlusherState]
  <2>1. /\ <<>> \in BoundedSeq(Entries, BatchSize)
        /\ <<>> \in BoundedSeq(Batch, Cardinality(Flushers))
    BY <1>1, Assumed, BoundedSeqIs
  <2> QED BY <1>1, <1>2, <2>1 DEF IdleFlusher, FlusherState
<1>4. TypeOK
  <2>1. /\ stream \in Streams /\ cons \in [Entries -> {"new", "inflight", "redeliver", "acked"}]
        /\ cur \in {IdleCur} \cup [pc : {"insert", "shadow", "cmdres"}, e : Entries]
    BY DEF Init
  <2>2. /\ keys = {} /\ rows = {} /\ cmdres = {} /\ orphaned = {} /\ overtaken = {} /\ dlq = {}
        /\ DOMAIN reported = SNs /\ stopping = FALSE
    BY DEF Init
  <2>3. faults \in 0 .. MaxFaults
    BY Assumed DEF Init
  <2> QED BY <1>3, <2>1, <2>2, <2>3 DEF TypeOK, Batch, FlusherState
<1>5. \A f \in Flushers : fl[f].stage = "idle" /\ fl[f].items = <<>>
  BY <1>2 DEF IdleFlusher
<1>6. ASSUME NEW e PROVE e \notin Channelled
  BY <1>2, <1>5, ToSetEmpty, ChannelledIs
<1>7. IdleEmpty /\ HeldKinds /\ RowsFirst
  BY <1>2, <1>5, <1>6 DEF IdleEmpty, HeldKinds, RowsFirst, IdleCur
<1>8. KeysOwned /\ AckedCovered
  BY <1>2 DEF KeysOwned, AckedCovered
<1> QED
  BY <1>4, <1>7, <1>8 DEF PipelineInv

LEMMA NextHolds == PipelineInv /\ [Next]_vars => PipelineInv'
<1> SUFFICES ASSUME PipelineInv, [Next]_vars PROVE PipelineInv'
  OBVIOUS
<1>1. ASSUME NEW e \in Entries,
             \/ ProcessPoison(e) \/ ProcessOta(e) \/ ProcessDup(e)
             \/ ProcessTelemetry(e) \/ ProcessSync(e) \/ AckWaitExpires(e)
      PROVE  PipelineInv'
  BY <1>1, PoisonStep, OtaStep, DupStep, TelemetryStep, SyncStep, AckWaitStep
<1>2. CASE EventInsertOk \/ EventInsertErr \/ EventAck \/ CmdAckStored \/ CmdAckErr
  BY <1>2, InsertOkStep, EventErrStep, EventAckStep, CmdAckStep, CmdErrStep
<1>3. CASE BatchAdd \/ BatchDrain
  BY <1>3, AddStep, DrainStep
<1>4. ASSUME NEW f \in Flushers,
             FlushTake(f) \/ FlushInsertOk(f) \/ FlushInsertErr(f) \/ FlushShadowAck(f)
      PROVE  PipelineInv'
  BY <1>4, TakeStep, FlushOkStep, FlushErrStep, FlushAckStep
<1>5. ASSUME NEW k \in AllKeys, KeyExpires(k) PROVE PipelineInv'
  BY <1>5, ExpiresStep
<1>6. CASE Stop \/ RestartAfterDrain \/ Crash
  BY <1>6, StopStep, CrashStep
<1>7. CASE UNCHANGED vars
  <2>1. TypeOK /\ cons \in [Entries -> States] /\ stopping \in BOOLEAN /\ faults \in 0 .. MaxFaults
        /\ dlq \subseteq Entries
    BY Facts, Types DEF PipelineInv
  <2>2. /\ stream' = stream /\ UNCHANGED memVars
        /\ UNCHANGED <<cons, keys, cur, rows, reported, cmdres, dlq, stopping, faults, orphaned, overtaken>>
    BY <1>7 DEF vars, memVars
  <2> QED BY <2>1, <2>2, ConsumerStep
<1> QED
  BY <1>1, <1>2, <1>3, <1>4, <1>5, <1>6, <1>7 DEF Next

\* The inductive invariant: every dedupe key and every ack has an owner
\* (worker.go process, flush, nakAll).
THEOREM InvariantHolds == Spec => []PipelineInv
BY InitHolds, NextHolds, PTL DEF Spec

\* The worker's state stays well formed: no channel and no batch grows beyond
\* its capacity (worker.go Run, batchLoop).
THEOREM TypeCorrect == Spec => []TypeOK
<1>1. PipelineInv => TypeOK
  BY DEF PipelineInv
<1> QED
  BY <1>1, InvariantHolds, PTL

\* What the worker acks is written, stored or dead-lettered, or comes again, but
\* for a dedupe key that a crash, a failed DEL or a late nak has orphaned
\* (worker.go process, flush, nakAll), whatever the stream and the sizes are.
THEOREM NothingVanishes == Spec => []LossOnlyThroughOrphanedKey
<1>1. PipelineInv => LossOnlyThroughOrphanedKey
  <2> SUFFICES ASSUME PipelineInv, NEW e \in Entries, Lost(e), Key(e) \notin orphaned PROVE FALSE
    BY DEF LossOnlyThroughOrphanedKey
  <2>1. TypeOK /\ KeysOwned /\ AckedCovered
    BY DEF PipelineInv
  <2>2. cons[e] = "acked" /\ ~Handled(e)
        /\ \A d \in Entries : Key(d) = Key(e) => d \notin Held /\ cons[d] = "acked"
    BY DEF Lost, StillComing
  <2>3. Deduped(e) /\ Key(e) \in keys
    BY <2>1, <2>2 DEF AckedCovered
  <2>4. Held \subseteq Entries
    BY <2>1, HeldEntries
  <2>5. KeyHandled(Key(e))
    BY <2>1, <2>2, <2>3, <2>4 DEF KeysOwned
  <2>6. PICK d \in Entries : Key(d) = Key(e) /\ Deduped(d) /\ Handled(d)
    BY <2>5 DEF KeyHandled
  <2>7. stream[d].kind = stream[e].kind
    BY <2>1, <2>6, OneKind
  <2>8. Handled(e)
    BY <2>3, <2>6, <2>7 DEF Handled, Deduped
  <2> QED BY <2>2, <2>8
<1> QED
  BY <1>1, InvariantHolds, PTL

-----------------------------------------------------------------------------
(* The shadow of a device that was not overtaken. Its frames keep the order *)
(* of the stream all the way to the one flusher that holds them.            *)

\* In s, and from s to t, the frames of F come in the order of the stream.
Rises(s, F) == \A i, j \in DOMAIN s : i < j /\ s[i] \in F /\ s[j] \in F => s[i] < s[j]
Ahead(s, t, F) == \A d \in ToSet(s) \cap F, e \in ToSet(t) \cap F : d < e

\* q, b and bs stand for in, batch and batches, its for the flushers' items.
InLine(F, q, b, bs, its) ==
  /\ Rises(q, F) /\ Rises(b, F) /\ Ahead(b, q, F)
  /\ \A i \in DOMAIN bs :
       /\ Rises(bs[i], F) /\ Ahead(bs[i], b, F) /\ Ahead(bs[i], q, F)
       /\ \A j \in DOMAIN bs : i < j => Ahead(bs[i], bs[j], F)
  /\ \A f \in Flushers :
       /\ Rises(its[f], F) /\ Ahead(its[f], b, F) /\ Ahead(its[f], q, F)
       /\ \A i \in DOMAIN bs : Ahead(its[f], bs[i], F)
       /\ \A g \in Flushers \ {f} : ToSet(its[f]) \cap F = {} \/ ToSet(its[g]) \cap F = {}
Items == [f \in Flushers |-> fl[f].items]

\* r is the shadow after the frames of D.
Shows(r, D) ==
  /\ D = {} => r = Fresh
  /\ D # {} => \E d \in D : stream[d].ts = r.ts
  /\ \A d \in D : stream[d].ts <= r.ts
  /\ \/ r.attr = 0 /\ \A d \in D : stream[d].attr = 0
     \/ \E d \in D : /\ stream[d].attr = r.attr /\ r.attr # 0
                     /\ \A c \in D : stream[c].attr # 0 => c <= d

\* Frames that are in TDengine, and whose shadow a flusher is about to write
Due == UNION {ToSet(fl[f].items) : f \in {g \in Flushers : fl[g].stage = "shadow"}}

\* The shadow shows frames which were delivered before all that the worker
\* holds; these and those due are what is in TDengine.
ShadowBehind(sn) ==
  \E D \in SUBSET Frames(sn) :
    /\ \A d \in D : cons[d] # "new" /\ \A e \in Channelled \cap Frames(sn) : d < e
    /\ \A e \in Frames(sn) : Key(e) \in rows <=> \E d \in D \cup Due : Key(d) = Key(e)
    /\ Shows(reported[sn], D)

\* What was never delivered is the end of the stream, and not in the process.
DeliveredInOrder ==
  /\ \A d, e \in Entries : d < e /\ cons[d] = "new" => cons[e] = "new"
  /\ \A e \in Held : cons[e] # "new"

ShadowInv ==
  /\ DeliveredInOrder
  /\ \A sn \in SNs \ overtaken :
       InOrder(sn) => InLine(Frames(sn), in, batch, batches, Items) /\ ShadowBehind(sn)

\* A set of indices has a last one.
LEMMA LastIndex ==
  ASSUME NEW n \in Nat, NEW S \in SUBSET (1 .. n), S # {}
  PROVE  \E x \in S : \A y \in S : y <= x
<1> DEFINE T == {n - x : x \in S}
<1>1. T \subseteq Nat /\ T # {}
  <2>1. \A x \in S : n - x \in Nat
    OBVIOUS
  <2>2. PICK x \in S : TRUE
    OBVIOUS
  <2> QED BY <2>1, <2>2
<1>2. PICK m \in T : \A k \in T : ~(<<k, m>> \in OpToRel(<, Nat))
  <2> HIDE DEF T
  <2> QED BY <1>1, NatLessThanWellFounded, WFMin, Zenon
<1>3. \A k \in T : ~(k < m)
  BY <1>1, <1>2 DEF OpToRel
<1>4. PICK x \in S : m = n - x
  OBVIOUS
<1>5. ASSUME NEW y \in S PROVE y <= x
  BY <1>3, <1>4
<1> QED
  BY <1>5

LEMMA MaxIs ==
  ASSUME NEW S, \E x \in S : \A y \in S : x >= y
  PROVE  Max(S) \in S /\ \A y \in S : Max(S) >= y
BY Zenon DEF Max

LEMMA RisesMore ==
  ASSUME NEW F, NEW s \in Seq(Entries), Rises(s, F)
  PROVE  /\ \A e \in Entries : (e \in F => \A d \in ToSet(s) \cap F : d < e) => Rises(Append(s, e), F)
         /\ s # <<>> => /\ Rises(Tail(s), F)
                        /\ Head(s) \in F => \A d \in ToSet(Tail(s)) \cap F : Head(s) < d
<1>1. \A i, j \in 1 .. Len(s) : i < j /\ s[i] \in F /\ s[j] \in F => s[i] < s[j]
  BY DEF Rises
<1>2. ASSUME NEW e \in Entries, e \in F => \A d \in ToSet(s) \cap F : d < e
      PROVE  Rises(Append(s, e), F)
  <2> SUFFICES ASSUME NEW i \in DOMAIN Append(s, e), NEW j \in DOMAIN Append(s, e),
                      i < j, Append(s, e)[i] \in F, Append(s, e)[j] \in F
               PROVE  Append(s, e)[i] < Append(s, e)[j]
    BY DEF Rises
  <2>1. i \in 1 .. Len(s) + 1 /\ j \in 1 .. Len(s) + 1 /\ Len(s) \in Nat
    OBVIOUS
  <2>2. \A k \in 1 .. Len(s) + 1 : Append(s, e)[k] = IF k <= Len(s) THEN s[k] ELSE e
    OBVIOUS
  <2>3. CASE j <= Len(s)
    <3>1. i \in 1 .. Len(s) /\ j \in 1 .. Len(s)
      BY <2>1, <2>3
    <3> QED BY <1>1, <2>1, <2>2, <2>3, <3>1
  <2>4. CASE j > Len(s)
    <3>1. i \in 1 .. Len(s) /\ j = Len(s) + 1
      BY <2>1, <2>4
    <3>2. Append(s, e)[i] = s[i] /\ Append(s, e)[j] = e
      BY <2>1, <2>2, <3>1
    <3>3. s[i] \in ToSet(s)
      BY <3>1, ToSetOf
    <3> QED BY <1>2, <3>2, <3>3
  <2> QED BY <2>1, <2>3, <2>4
<1>3. ASSUME s # <<>>
      PROVE  Rises(Tail(s), F) /\ (Head(s) \in F => \A d \in ToSet(Tail(s)) \cap F : Head(s) < d)
  <2>1. /\ Tail(s) \in Seq(Entries) /\ Len(Tail(s)) = Len(s) - 1 /\ Len(s) \in Nat \ {0} /\ Head(s) = s[1]
        /\ \A i \in 1 .. Len(s) - 1 : Tail(s)[i] = s[i + 1]
    BY <1>3
  <2>2. Rises(Tail(s), F)
    <3> SUFFICES ASSUME NEW i \in DOMAIN Tail(s), NEW j \in DOMAIN Tail(s),
                        i < j, Tail(s)[i] \in F, Tail(s)[j] \in F
                 PROVE  Tail(s)[i] < Tail(s)[j]
      BY DEF Rises
    <3>1. i \in 1 .. Len(s) - 1 /\ j \in 1 .. Len(s) - 1
      BY <2>1
    <3>2. Tail(s)[i] = s[i + 1] /\ Tail(s)[j] = s[j + 1] /\ i + 1 \in 1 .. Len(s) /\ j + 1 \in 1 .. Len(s)
      BY <2>1, <3>1
    <3> QED BY <1>1, <3>1, <3>2
  <2>3. ASSUME Head(s) \in F, NEW d \in ToSet(Tail(s)) \cap F PROVE Head(s) < d
    <3> ToSet(Tail(s)) = {Tail(s)[i] : i \in 1 .. Len(s) - 1}
      BY <2>1, ToSetOf
    <3>1. PICK i \in 1 .. Len(s) - 1 : d = Tail(s)[i]
      OBVIOUS
    <3>2. d = s[i + 1] /\ i + 1 \in 1 .. Len(s) /\ 1 \in 1 .. Len(s) /\ 1 < i + 1
      BY <2>1, <3>1
    <3> QED BY <1>1, <2>1, <2>3, <3>2
  <2> QED BY <2>2, <2>3
<1> QED
  BY <1>2, <1>3

LEMMA EmptyLine == ASSUME NEW F, NEW s PROVE Rises(<<>>, F) /\ Ahead(<<>>, s, F) /\ Ahead(s, <<>>, F)
BY ToSetEmpty DEF Rises, Ahead

\* Channels that are emptied stay in line.
LEMMA ShorterLine ==
  ASSUME NEW F, NEW q, NEW b, NEW bs, NEW its, InLine(F, q, b, bs, its),
         NEW q2 \in {q, <<>>}, NEW b2 \in {b, <<>>}, NEW bs2 \in {bs, <<>>},
         NEW its2, \A f \in Flushers : its2[f] \in {its[f], <<>>}
  PROVE  InLine(F, q2, b2, bs2, its2)
<1>1. Rises(q2, F) /\ Rises(b2, F) /\ Ahead(b2, q2, F)
  BY EmptyLine DEF InLine
<1>2. \A i \in DOMAIN bs2 : bs2 = bs /\ i \in DOMAIN bs
  OBVIOUS
<1>3. ASSUME NEW i \in DOMAIN bs2
      PROVE  /\ Rises(bs2[i], F) /\ Ahead(bs2[i], b2, F) /\ Ahead(bs2[i], q2, F)
             /\ \A j \in DOMAIN bs2 : i < j => Ahead(bs2[i], bs2[j], F)
  BY <1>2, EmptyLine DEF InLine
<1>4. ASSUME NEW f \in Flushers
      PROVE  /\ Rises(its2[f], F) /\ Ahead(its2[f], b2, F) /\ Ahead(its2[f], q2, F)
             /\ \A i \in DOMAIN bs2 : Ahead(its2[f], bs2[i], F)
             /\ \A g \in Flushers \ {f} : ToSet(its2[f]) \cap F = {} \/ ToSet(its2[g]) \cap F = {}
  <2>1. /\ Rises(its[f], F) /\ Ahead(its[f], b, F) /\ Ahead(its[f], q, F)
        /\ \A i \in DOMAIN bs : Ahead(its[f], bs[i], F)
        /\ \A g \in Flushers \ {f} : ToSet(its[f]) \cap F = {} \/ ToSet(its[g]) \cap F = {}
    BY DEF InLine
  <2>2. its2[f] \in {its[f], <<>>} /\ \A g \in Flushers : its2[g] \in {its[g], <<>>}
    OBVIOUS
  <2>3. Rises(its2[f], F) /\ Ahead(its2[f], b2, F) /\ Ahead(its2[f], q2, F)
    BY <2>1, <2>2, EmptyLine
  <2>4. \A i \in DOMAIN bs2 : Ahead(its2[f], bs2[i], F)
    BY <1>2, <2>1, <2>2, EmptyLine
  <2>5. \A g \in Flushers \ {f} : ToSet(its2[f]) \cap F = {} \/ ToSet(its2[g]) \cap F = {}
    BY <2>1, <2>2, ToSetEmpty
  <2> QED BY <2>3, <2>4, <2>5
<1> QED
  BY <1>1, <1>3, <1>4 DEF InLine

\* process puts an entry at the end of channel in.
LEMMA LongerLine ==
  ASSUME NEW F, NEW q \in Seq(Entries), NEW b, NEW bs, NEW its, InLine(F, q, b, bs, its), NEW e \in Entries,
         e \in F => /\ \A d \in (ToSet(q) \cup ToSet(b)) \cap F : d < e
                    /\ \A i \in DOMAIN bs : \A d \in ToSet(bs[i]) \cap F : d < e
                    /\ \A f \in Flushers : \A d \in ToSet(its[f]) \cap F : d < e
  PROVE  InLine(F, Append(q, e), b, bs, its)
<1>1. Rises(Append(q, e), F)
  BY RisesMore DEF InLine
<1>2. ToSet(Append(q, e)) = ToSet(q) \cup {e}
  BY ToSetAppend
<1>3. ASSUME NEW s, Ahead(s, q, F), e \in F => \A d \in ToSet(s) \cap F : d < e
      PROVE  Ahead(s, Append(q, e), F)
  BY <1>2, <1>3 DEF Ahead
<1>4. Ahead(b, Append(q, e), F)
  BY <1>3 DEF InLine
<1>5. \A i \in DOMAIN bs : Ahead(bs[i], Append(q, e), F)
  BY <1>3 DEF InLine
<1>6. \A f \in Flushers : Ahead(its[f], Append(q, e), F)
  BY <1>3 DEF InLine
<1> QED
  BY <1>1, <1>4, <1>5, <1>6 DEF InLine

\* batchLoop moves the first entry of channel in to the batch.
LEMMA AddedLine ==
  ASSUME NEW F, NEW q \in Seq(Entries), q # <<>>, NEW b \in Seq(Entries), NEW bs, NEW its,
         InLine(F, q, b, bs, its)
  PROVE  InLine(F, Tail(q), Append(b, Head(q)), bs, its)
<1>1. /\ Head(q) \in Entries /\ ToSet(q) = {Head(q)} \cup ToSet(Tail(q))
      /\ ToSet(Append(b, Head(q))) = ToSet(b) \cup {Head(q)}
  BY ToSetTail, ToSetAppend
<1>2. Rises(q, F) /\ Rises(b, F) /\ Ahead(b, q, F)
  BY DEF InLine
<1>3. Rises(Tail(q), F) /\ (Head(q) \in F => \A d \in ToSet(Tail(q)) \cap F : Head(q) < d)
  BY <1>2, RisesMore
<1>4. Rises(Append(b, Head(q)), F)
  <2>1. Head(q) \in F => \A d \in ToSet(b) \cap F : d < Head(q)
    BY <1>1, <1>2 DEF Ahead
  <2> QED BY <1>1, <1>2, <2>1, RisesMore
<1>5. Ahead(Append(b, Head(q)), Tail(q), F)
  BY <1>1, <1>2, <1>3 DEF Ahead
<1>6. ASSUME NEW s, Ahead(s, b, F), Ahead(s, q, F)
      PROVE  Ahead(s, Append(b, Head(q)), F) /\ Ahead(s, Tail(q), F)
  BY <1>1, <1>6 DEF Ahead
<1>7. \A i \in DOMAIN bs : Ahead(bs[i], Append(b, Head(q)), F) /\ Ahead(bs[i], Tail(q), F)
  BY <1>6 DEF InLine
<1>8. \A f \in Flushers : Ahead(its[f], Append(b, Head(q)), F) /\ Ahead(its[f], Tail(q), F)
  BY <1>6 DEF InLine
<1> QED
  BY <1>3, <1>4, <1>5, <1>7, <1>8 DEF InLine

\* The batch goes to the end of channel batches.
LEMMA DrainedLine ==
  ASSUME NEW F, NEW q, NEW b \in Batch, NEW bs \in Seq(Batch), NEW its, InLine(F, q, b, bs, its)
  PROVE  InLine(F, q, <<>>, Append(bs, b), its)
<1>1. /\ DOMAIN Append(bs, b) = 1 .. Len(bs) + 1 /\ DOMAIN bs = 1 .. Len(bs) /\ Len(bs) \in Nat
      /\ \A i \in 1 .. Len(bs) + 1 : Append(bs, b)[i] = IF i <= Len(bs) THEN bs[i] ELSE b
  OBVIOUS
<1>2. ASSUME NEW i \in DOMAIN Append(bs, b)
      PROVE  \/ i \in DOMAIN bs /\ Append(bs, b)[i] = bs[i]
             \/ i = Len(bs) + 1 /\ Append(bs, b)[i] = b
  BY <1>1
<1>3. /\ Rises(q, F) /\ Rises(b, F) /\ Ahead(b, q, F)
      /\ \A i \in DOMAIN bs :
           /\ Rises(bs[i], F) /\ Ahead(bs[i], b, F) /\ Ahead(bs[i], q, F)
           /\ \A j \in DOMAIN bs : i < j => Ahead(bs[i], bs[j], F)
      /\ \A f \in Flushers : Ahead(its[f], b, F) /\ \A i \in DOMAIN bs : Ahead(its[f], bs[i], F)
  BY DEF InLine
<1>4. ASSUME NEW i \in DOMAIN Append(bs, b)
      PROVE  /\ Rises(Append(bs, b)[i], F) /\ Ahead(Append(bs, b)[i], <<>>, F) /\ Ahead(Append(bs, b)[i], q, F)
             /\ \A j \in DOMAIN Append(bs, b) : i < j => Ahead(Append(bs, b)[i], Append(bs, b)[j], F)
  <2>1. Rises(Append(bs, b)[i], F) /\ Ahead(Append(bs, b)[i], <<>>, F) /\ Ahead(Append(bs, b)[i], q, F)
    BY <1>2, <1>3, EmptyLine
  <2>2. ASSUME NEW j \in DOMAIN Append(bs, b), i < j PROVE Ahead(Append(bs, b)[i], Append(bs, b)[j], F)
    <3>1. i \in DOMAIN bs /\ Append(bs, b)[i] = bs[i]
      BY <1>1, <2>2
    <3>2. \/ j \in DOMAIN bs /\ Append(bs, b)[j] = bs[j]
          \/ j = Len(bs) + 1 /\ Append(bs, b)[j] = b
      BY <1>2
    <3> QED BY <1>3, <2>2, <3>1, <3>2
  <2> QED BY <2>1, <2>2
<1>5. ASSUME NEW f \in Flushers, NEW i \in DOMAIN Append(bs, b) PROVE Ahead(its[f], Append(bs, b)[i], F)
  BY <1>2, <1>3
<1>6. \A f \in Flushers : Rises(its[f], F) /\ Ahead(its[f], <<>>, F) /\ Ahead(its[f], q, F)
                          /\ \A g \in Flushers \ {f} : ToSet(its[f]) \cap F = {} \/ ToSet(its[g]) \cap F = {}
  BY EmptyLine DEF InLine
<1> QED
  BY <1>3, <1>4, <1>5, <1>6, EmptyLine DEF InLine

\* A flusher takes the first batch; no other one holds frames of F with it.
LEMMA TakenLine ==
  ASSUME NEW F, NEW q, NEW b, NEW bs \in Seq(Batch), bs # <<>>, NEW its, InLine(F, q, b, bs, its),
         NEW f \in Flushers, NEW its2, its2[f] = Head(bs), \A g \in Flushers \ {f} : its2[g] = its[g],
         ToSet(Head(bs)) \cap F = {} \/ \A g \in Flushers \ {f} : ToSet(its[g]) \cap F = {}
  PROVE  InLine(F, q, b, Tail(bs), its2)
<1>1. /\ DOMAIN Tail(bs) = 1 .. Len(bs) - 1 /\ DOMAIN bs = 1 .. Len(bs) /\ Len(bs) \in Nat \ {0}
      /\ Head(bs) = bs[1]
      /\ \A i \in 1 .. Len(bs) - 1 : Tail(bs)[i] = bs[i + 1]
  OBVIOUS
<1>2. /\ 1 \in DOMAIN bs
      /\ \A i \in DOMAIN Tail(bs) : i + 1 \in DOMAIN bs /\ Tail(bs)[i] = bs[i + 1] /\ 1 < i + 1
  BY <1>1
<1>3. /\ Rises(q, F) /\ Rises(b, F) /\ Ahead(b, q, F)
      /\ \A i \in DOMAIN bs :
           /\ Rises(bs[i], F) /\ Ahead(bs[i], b, F) /\ Ahead(bs[i], q, F)
           /\ \A j \in DOMAIN bs : i < j => Ahead(bs[i], bs[j], F)
      /\ \A g \in Flushers :
           /\ Rises(its[g], F) /\ Ahead(its[g], b, F) /\ Ahead(its[g], q, F)
           /\ \A i \in DOMAIN bs : Ahead(its[g], bs[i], F)
           /\ \A h \in Flushers \ {g} : ToSet(its[g]) \cap F = {} \/ ToSet(its[h]) \cap F = {}
  BY DEF InLine
<1>4. ASSUME NEW i \in DOMAIN Tail(bs)
      PROVE  /\ Rises(Tail(bs)[i], F) /\ Ahead(Tail(bs)[i], b, F) /\ Ahead(Tail(bs)[i], q, F)
             /\ \A j \in DOMAIN Tail(bs) : i < j => Ahead(Tail(bs)[i], Tail(bs)[j], F)
  <2>1. Rises(Tail(bs)[i], F) /\ Ahead(Tail(bs)[i], b, F) /\ Ahead(Tail(bs)[i], q, F)
    BY <1>2, <1>3
  <2>2. ASSUME NEW j \in DOMAIN Tail(bs), i < j PROVE Ahead(Tail(bs)[i], Tail(bs)[j], F)
    <3>1. i + 1 < j + 1
      BY <1>1, <2>2
    <3> QED BY <1>2, <1>3, <3>1
  <2> QED BY <2>1, <2>2
<1>5. ASSUME NEW g \in Flushers
      PROVE  /\ Rises(its2[g], F) /\ Ahead(its2[g], b, F) /\ Ahead(its2[g], q, F)
             /\ \A i \in DOMAIN Tail(bs) : Ahead(its2[g], Tail(bs)[i], F)
             /\ \A h \in Flushers \ {g} : ToSet(its2[g]) \cap F = {} \/ ToSet(its2[h]) \cap F = {}
  <2>1. CASE g = f
    <3>1. its2[g] = bs[1]
      BY <1>1, <2>1
    <3>2. Rises(its2[g], F) /\ Ahead(its2[g], b, F) /\ Ahead(its2[g], q, F)
      BY <1>2, <1>3, <3>1
    <3>3. \A i \in DOMAIN Tail(bs) : Ahead(its2[g], Tail(bs)[i], F)
      BY <1>2, <1>3, <3>1
    <3>4. \A h \in Flushers \ {g} : ToSet(its2[g]) \cap F = {} \/ ToSet(its2[h]) \cap F = {}
      BY <2>1
    <3> QED BY <3>2, <3>3, <3>4
  <2>2. CASE g # f
    <3>1. its2[g] = its[g]
      BY <2>2
    <3>2. \A i \in DOMAIN Tail(bs) : Ahead(its2[g], Tail(bs)[i], F)
      BY <1>2, <1>3, <3>1
    <3>3. ASSUME NEW h \in Flushers \ {g} PROVE ToSet(its2[g]) \cap F = {} \/ ToSet(its2[h]) \cap F = {}
      BY <1>3, <2>2, <3>1
    <3> QED BY <1>3, <3>1, <3>2, <3>3
  <2> QED BY <2>1, <2>2
<1> QED
  BY <1>3, <1>4, <1>5 DEF InLine

-----------------------------------------------------------------------------
(* What the steps do to the shadow.                                        *)

LEMMA FramesAre ==
  ASSUME TypeOK, NEW sn
  PROVE  /\ Frames(sn) \subseteq Entries
         /\ \A d \in Entries, e \in Frames(sn) : Key(d) = Key(e) => d \in Frames(sn)
         /\ \A e \in Entries : stream[e].ts \in Nat /\ stream[e].seq \in Nat
<1>1. stream \in Streams
  BY Facts
<1>2. \A e \in Entries : stream[e].ts \in Nat /\ stream[e].seq \in Nat
  BY <1>1, PipelineAssumption DEF Entries
<1>3. \A d \in Entries, e \in Frames(sn) : Key(d) = Key(e) => d \in Frames(sn)
  <2> SUFFICES ASSUME NEW d \in Entries, NEW e \in Frames(sn), Key(d) = Key(e) PROVE d \in Frames(sn)
    OBVIOUS
  <2>1. e \in Entries /\ stream[e].sn = sn /\ stream[e].kind = "telemetry"
    BY DEF Frames
  <2>2. stream[d].kind = stream[e].kind
    BY <2>1, OneKind
  <2>3. stream[d].sn = stream[e].sn
    BY DEF Key
  <2> QED BY <2>1, <2>2, <2>3 DEF Frames
<1> QED
  BY <1>2, <1>3 DEF Frames

LEMMA DueIs ==
  /\ \A e : e \in Due <=> \E f \in Flushers : fl[f].stage = "shadow" /\ e \in ToSet(fl[f].items)
  /\ \A e : e \in Due' <=> \E f \in Flushers : fl'[f].stage = "shadow" /\ e \in ToSet(fl'[f].items)
BY DEF Due

LEMMA FramesKept ==
  ASSUME stream' = stream
  PROVE  /\ \A sn : Frames(sn)' = Frames(sn) /\ (InOrder(sn)' <=> InOrder(sn))
         /\ \A r, D : Shows(r, D)' <=> Shows(r, D)
         /\ \A e : Key(e)' = Key(e)
BY DEF Frames, InOrder, Shows, Key

\* The channels hold telemetry: of sn, all that they hold are its frames.
LEMMA ItemsAre ==
  ASSUME TypeOK, HeldKinds, NEW f \in Flushers, NEW sn
  PROVE  /\ \A i \in DOMAIN fl[f].items : fl[f].items[i] \in Entries /\ fl[f].items[i] \in ToSet(fl[f].items)
         /\ \A i \in DOMAIN fl[f].items : i \in OfSN(fl[f].items, sn) <=> fl[f].items[i] \in Frames(sn)
         /\ ToSet(fl[f].items) \cap Frames(sn) = {fl[f].items[i] : i \in OfSN(fl[f].items, sn)}
         /\ sn \notin SNsOf(fl[f].items) => ToSet(fl[f].items) \cap Frames(sn) = {}
<1> DEFINE s == fl[f].items
<1>1. s \in Seq(Entries) /\ ToSet(s) \subseteq Entries
  BY HeldEntries
<1>2. ToSet(s) = {s[i] : i \in DOMAIN s}
  BY DEF ToSet
<1>3. \A e \in ToSet(s) : e \in Channelled
  BY ChannelledIs
<1>4. \A e \in ToSet(s) : stream[e].kind = "telemetry"
  BY <1>3 DEF HeldKinds
<1>5. \A i \in DOMAIN s : s[i] \in Entries /\ s[i] \in ToSet(s)
  BY <1>1, <1>2
<1>6. \A i \in DOMAIN s : i \in OfSN(s, sn) <=> s[i] \in Frames(sn)
  BY <1>4, <1>5 DEF OfSN, Frames
<1>7. ToSet(s) \cap Frames(sn) = {s[i] : i \in OfSN(s, sn)}
  <2>1. OfSN(s, sn) \subseteq DOMAIN s
    BY DEF OfSN
  <2> HIDE DEF s
  <2> QED BY <1>2, <1>6, <2>1
<1>8. sn \notin SNsOf(s) => ToSet(s) \cap Frames(sn) = {}
  BY DEF SNsOf, Frames
<1> QED
  BY <1>5, <1>6, <1>7, <1>8

\* A step that brings sn nothing new, and lets copies go at most
LEMMA ShadowKept ==
  ASSUME TypeOK, stream' = stream, NEW sn \in SNs, ShadowBehind(sn),
         InLine(Frames(sn), in, batch, batches, Items),
         in' \in {in, <<>>}, batch' \in {batch, <<>>}, batches' \in {batches, <<>>},
         \A f \in Flushers :
            \/ fl'[f] = fl[f]
            \/ /\ fl'[f] = IdleFlusher
               /\ fl[f].stage = "shadow" => ToSet(fl[f].items) \cap Frames(sn) = {},
         \A e \in Frames(sn) : Key(e) \in rows' <=> Key(e) \in rows,
         reported'[sn] = reported[sn],
         \A e \in Entries : cons'[e] = "new" => cons[e] = "new"
  PROVE  InLine(Frames(sn), in, batch, batches, Items)' /\ ShadowBehind(sn)'
<1>1. Frames(sn)' = Frames(sn) /\ (\A r, D : Shows(r, D)' <=> Shows(r, D)) /\ \A e : Key(e)' = Key(e)
  BY FramesKept
<1>2. /\ Frames(sn) \subseteq Entries
      /\ \A d \in Entries, e \in Frames(sn) : Key(d) = Key(e) => d \in Frames(sn)
  BY FramesAre
<1>3. InLine(Frames(sn), in', batch', batches', Items')
  <2>1. \A f \in Flushers : Items'[f] \in {Items[f], <<>>}
    BY DEF Items, IdleFlusher
  <2> QED BY <2>1, ShorterLine
<1>4. \A e : e \in Channelled' => e \in Channelled
  <2>1. \A f \in Flushers : ToSet(fl'[f].items) \subseteq ToSet(fl[f].items)
    BY ToSetEmpty DEF IdleFlusher
  <2>2. ToSet(in') \subseteq ToSet(in) /\ ToSet(batch') \subseteq ToSet(batch) /\ ToSet(batches') \subseteq ToSet(batches)
    BY ToSetEmpty
  <2> QED BY <2>1, <2>2, ChannelledIs
<1>5. PICK D \in SUBSET Frames(sn) :
        /\ \A d \in D : cons[d] # "new" /\ \A e \in Channelled \cap Frames(sn) : d < e
        /\ \A e \in Frames(sn) : Key(e) \in rows <=> \E d \in D \cup Due : Key(d) = Key(e)
        /\ Shows(reported[sn], D)
  BY DEF ShadowBehind
<1>6. \A d \in D : cons'[d] # "new" /\ \A e \in Channelled' \cap Frames(sn) : d < e
  BY <1>2, <1>4, <1>5
<1>7. \A f \in Flushers : ToSet(fl[f].items) \subseteq Entries
  BY HeldEntries
<1>8. \A d \in Frames(sn) : d \in Due' <=> d \in Due
  BY DueIs DEF IdleFlusher
<1>9. ASSUME NEW e \in Frames(sn) PROVE Key(e) \in rows' <=> \E d \in D \cup Due' : Key(d) = Key(e)
  <2>1. \A d \in Due : Key(d) = Key(e) => d \in Frames(sn)
    BY <1>2, <1>7, DueIs
  <2>2. \A d \in Due' : Key(d) = Key(e) => d \in Frames(sn)
    <3>1. \A d \in Due' : d \in Due
      BY DueIs DEF IdleFlusher
    <3> QED BY <2>1, <3>1
  <2> QED BY <1>5, <1>8, <2>1, <2>2
<1>10. Shows(reported'[sn], D)
  BY <1>5
<1>11. ShadowBehind(sn)'
  <2>1. \E X \in SUBSET Frames(sn) :
          /\ \A d \in X : cons'[d] # "new" /\ \A e \in Channelled' \cap Frames(sn) : d < e
          /\ \A e \in Frames(sn) : Key(e) \in rows' <=> \E d \in X \cup Due' : Key(d) = Key(e)
          /\ Shows(reported'[sn], X)
    BY <1>6, <1>9, <1>10
  <2> QED BY <1>1, <2>1 DEF ShadowBehind
<1> QED
  BY <1>1, <1>3, <1>11

-----------------------------------------------------------------------------
(* The consumer delivers in the order of the stream.                       *)

\* A step delivers an entry, or none.
Delivers(e) ==
  /\ Deliverable(e) /\ cons'[e] # "new" /\ \A d \in Entries \ {e} : cons'[d] = cons[d]
  /\ \A d \in Held' : d \in Held \/ d = e
DeliversNone ==
  /\ \A e \in Entries : cons'[e] = "new" <=> cons[e] = "new"
  /\ \A d \in Held' : d \in Held

LEMMA Delivered ==
  ASSUME TypeOK, DeliveredInOrder, stream' = stream,
         DeliversNone \/ \E e \in Entries : Delivers(e)
  PROVE  DeliveredInOrder' /\ \A e \in Entries : cons'[e] = "new" => cons[e] = "new"
<1>1. /\ \A d, e \in Entries : d < e /\ cons[d] = "new" => cons[e] = "new"
      /\ \A e \in Held : cons[e] # "new"
      /\ Held \subseteq Entries
  BY HeldEntries DEF DeliveredInOrder
<1>2. CASE DeliversNone
  BY <1>1, <1>2 DEF DeliversNone, DeliveredInOrder
<1>3. ASSUME NEW e \in Entries, Delivers(e)
      PROVE  DeliveredInOrder' /\ \A d \in Entries : cons'[d] = "new" => cons[d] = "new"
  <2>1. /\ \A d \in Entries : cons'[d] = "new" <=> d # e /\ cons[d] = "new"
        /\ \A d \in Held' : d \in Held \/ d = e
    BY <1>3 DEF Delivers
  <2>2. \A d \in Entries : d < e => cons[d] # "new"
    BY <1>1, <1>3 DEF Delivers, Deliverable
  <2>3. ASSUME NEW d \in Entries, NEW c \in Entries, d < c, cons'[d] = "new" PROVE cons'[c] = "new"
    <3>1. d # e /\ cons[d] = "new" /\ cons[c] = "new"
      BY <1>1, <2>1, <2>3
    <3>2. c # e
      BY <2>2, <2>3, <3>1
    <3> QED BY <2>1, <3>1, <3>2
  <2>4. \A d \in Held' : cons'[d] # "new"
    BY <1>1, <2>1
  <2> QED BY <2>1, <2>3, <2>4 DEF DeliveredInOrder
<1> QED
  BY <1>2, <1>3

\* Steps of the consume goroutine that put nothing in a channel
LEMMA ConsumeDelivers ==
  ASSUME TypeOK, NEW e \in Entries, ProcessPoison(e) \/ ProcessOta(e) \/ ProcessDup(e)
  PROVE  Delivers(e)
<1>1. PICK v \in States \ {"new"} : cons' = [cons EXCEPT ![e] = v]
  <2>1. \E v \in {"acked", "inflight", "redeliver"} : cons' = [cons EXCEPT ![e] = v]
    BY DEF ProcessPoison, ProcessOta, ProcessDup
  <2> QED BY <2>1 DEF States
<1>2. cons'[e] = v /\ \A d \in Entries \ {e} : cons'[d] = cons[d]
  BY <1>1, Marked
<1>3. Deliverable(e) /\ UNCHANGED memVars /\ cur' = cur
  BY DEF ProcessPoison, ProcessOta, ProcessDup
<1> QED
  BY <1>2, <1>3, MemKept DEF Delivers

LEMMA SyncDelivers ==
  ASSUME TypeOK, NEW e \in Entries, ProcessSync(e)
  PROVE  Delivers(e)
<1>1. cons' = [cons EXCEPT ![e] = "inflight"] /\ Deliverable(e) /\ UNCHANGED memVars /\ cur'.e = e
  BY DEF ProcessSync
<1>2. cons'[e] = "inflight" /\ \A d \in Entries \ {e} : cons'[d] = cons[d]
  BY <1>1, Marked DEF States
<1> QED
  BY <1>1, <1>2, MemKept, HeldIs DEF Delivers

LEMMA TelemetryDelivers ==
  ASSUME TypeOK, NEW e \in Entries, ProcessTelemetry(e)
  PROVE  Delivers(e)
<1>1. /\ cons' = [cons EXCEPT ![e] = "inflight"] /\ Deliverable(e) /\ in' = Append(in, e)
      /\ cur' = cur /\ batch' = batch /\ batches' = batches /\ fl' = fl
  BY DEF ProcessTelemetry
<1>2. cons'[e] = "inflight" /\ \A d \in Entries \ {e} : cons'[d] = cons[d]
  BY <1>1, Marked DEF States
<1>3. ToSet(in') = ToSet(in) \cup {e}
  BY <1>1, Facts, ToSetAppend
<1> QED
  BY <1>1, <1>2, <1>3, ChannelledIs, HeldIs DEF Delivers

LEMMA NakDelivers ==
  ASSUME TypeOK, NEW items, NakAll(items), \A e \in ToSet(items) : cons[e] # "new"
  PROVE  \A e \in Entries : cons'[e] = "new" <=> cons[e] = "new"
BY Facts DEF NakAll

LEMMA AckDelivers ==
  ASSUME TypeOK, NEW es, AckAll(es), \A e \in es : cons[e] # "new"
  PROVE  \A e \in Entries : cons'[e] = "new" <=> cons[e] = "new"
BY Facts DEF AckAll

\* The other steps let go of entries, or move them.
LEMMA CurDelivers ==
  ASSUME PipelineInv, DeliveredInOrder,
         EventInsertOk \/ EventInsertErr \/ EventAck \/ CmdAckStored \/ CmdAckErr
  PROVE  DeliversNone
<1>1. TypeOK /\ \A e \in Held : cons[e] # "new"
  BY DEF PipelineInv, DeliveredInOrder
<1>2. UNCHANGED memVars /\ cur.pc # "idle" /\ cur' \in {IdleCur, [cur EXCEPT !.pc = "shadow"]}
  BY DEF EventInsertOk, EventInsertErr, EventAck, CmdAckStored, CmdAckErr
<1>3. cur.e \in Held /\ ToSet(<<cur.e>>) = {cur.e}
  BY <1>2, HeldIs, ToSetOne
<1>4. \A d \in Held' : d \in Held
  <2>1. cur'.pc # "idle" => cur'.e = cur.e
    BY <1>1, <1>2, Facts DEF IdleCur, Busy
  <2> QED BY <1>2, <2>1, MemKept, HeldIs
<1>5. \A e \in Entries : cons'[e] = "new" <=> cons[e] = "new"
  <2>1. cons' = cons \/ NakAll(<<cur.e>>) \/ AckAll({cur.e})
    BY DEF EventInsertOk, EventInsertErr, EventAck, CmdAckStored, CmdAckErr
  <2>2. CASE NakAll(<<cur.e>>)
    BY <1>1, <1>3, <2>2, NakDelivers
  <2>3. CASE AckAll({cur.e})
    BY <1>1, <1>3, <2>3, AckDelivers
  <2> QED BY <2>1, <2>2, <2>3
<1> QED
  BY <1>4, <1>5 DEF DeliversNone

LEMMA ChannelDelivers ==
  ASSUME PipelineInv, BatchAdd \/ BatchDrain \/ \E f \in Flushers : FlushTake(f) \/ FlushInsertOk(f)
  PROVE  DeliversNone /\ \A e : e \in Channelled' <=> e \in Channelled
<1>1. TypeOK /\ IdleEmpty
  BY DEF PipelineInv
<1>2. cons' = cons /\ cur' = cur
  BY DEF BatchAdd, BatchDrain, FlushTake, FlushInsertOk
<1>3. \A e : e \in Channelled' <=> e \in Channelled
  <2>1. CASE BatchAdd
    BY <1>1, <2>1, AddMoves
  <2>2. CASE BatchDrain
    BY <1>1, <2>2, DrainMoves
  <2>3. ASSUME NEW f \in Flushers, FlushTake(f) PROVE \A e : e \in Channelled' <=> e \in Channelled
    <3>1. fl[f].items = <<>>
      BY <1>1, <2>3 DEF IdleEmpty, FlushTake
    <3> QED BY <1>1, <2>3, <3>1, TakeMoves
  <2>4. ASSUME NEW f \in Flushers, FlushInsertOk(f) PROVE \A e : e \in Channelled' <=> e \in Channelled
    <3>1. in' = in /\ batch' = batch /\ batches' = batches /\ fl' = [fl EXCEPT ![f].stage = "shadow"]
      BY <2>4 DEF FlushInsertOk
    <3>2. \A g \in Flushers : fl'[g].items = fl[g].items
      BY <1>1, <3>1, Facts DEF FlusherState
    <3> QED BY <3>1, <3>2, ChannelledIs
  <2> QED BY <2>1, <2>2, <2>3, <2>4
<1> QED
  BY <1>2, <1>3, HeldIs DEF DeliversNone

LEMMA LetGoDelivers ==
  ASSUME PipelineInv, DeliveredInOrder, NEW f \in Flushers, FlushInsertErr(f) \/ FlushShadowAck(f)
  PROVE  DeliversNone /\ \A e : e \in Channelled' => e \in Channelled
<1>1. TypeOK /\ \A e \in Held : cons[e] # "new"
  BY DEF PipelineInv, DeliveredInOrder
<1>2. /\ fl' = [fl EXCEPT ![f] = IdleFlusher] /\ in' = in /\ batch' = batch /\ batches' = batches /\ cur' = cur
  BY DEF FlushInsertErr, FlushShadowAck
<1>3. ToSet(fl[f].items) \subseteq Channelled /\ \A e : e \in Channelled' => e \in Channelled
  BY <1>1, <1>2, LetGo
<1>4. \A e \in ToSet(fl[f].items) : cons[e] # "new"
  BY <1>1, <1>3, HeldIs
<1>5. \A e \in Entries : cons'[e] = "new" <=> cons[e] = "new"
  <2>1. \/ NakAll(fl[f].items) \/ AckAll(ToSet(fl[f].items))
        \/ cons' = [e \in Entries |-> IF e \in ToSet(fl[f].items) THEN "acked" ELSE cons[e]]
    BY DEF FlushInsertErr, FlushShadowAck
  <2>2. CASE NakAll(fl[f].items)
    BY <1>1, <1>4, <2>2, NakDelivers
  <2>3. CASE AckAll(ToSet(fl[f].items))
    BY <1>1, <1>4, <2>3, AckDelivers
  <2>4. CASE cons' = [e \in Entries |-> IF e \in ToSet(fl[f].items) THEN "acked" ELSE cons[e]]
    BY <1>4, <2>4
  <2> QED BY <2>1, <2>2, <2>3, <2>4
<1> QED
  BY <1>2, <1>3, <1>5, HeldIs DEF DeliversNone

LEMMA RestDelivers ==
  ASSUME PipelineInv,
         \/ \E e \in Entries : AckWaitExpires(e)
         \/ \E k \in AllKeys : KeyExpires(k)
         \/ Stop \/ RestartAfterDrain \/ Crash \/ UNCHANGED vars
  PROVE  DeliversNone
<1>1. TypeOK
  BY DEF PipelineInv
<1>2. ASSUME NEW e \in Entries, AckWaitExpires(e) PROVE DeliversNone
  <2>1. /\ cons[e] = "inflight" /\ cons' = [cons EXCEPT ![e] = "redeliver"] /\ UNCHANGED memVars /\ cur' = cur
    BY <1>2 DEF AckWaitExpires
  <2>2. cons'[e] = "redeliver" /\ \A d \in Entries \ {e} : cons'[d] = cons[d]
    BY <1>1, <2>1, Marked DEF States
  <2> QED BY <2>1, <2>2, MemKept DEF DeliversNone
<1>3. CASE Crash
  <2>1. /\ cur' = IdleCur /\ in' = <<>> /\ batch' = <<>> /\ batches' = <<>> /\ cons' = cons
        /\ fl' = [f \in Flushers |-> IdleFlusher]
    BY <1>3 DEF Crash
  <2>2. \A f \in Flushers : fl'[f].items = <<>>
    BY <2>1 DEF IdleFlusher
  <2>3. \A d : d \notin Held'
    BY <2>1, <2>2, ToSetEmpty, ChannelledIs, HeldIs DEF IdleCur
  <2> QED BY <2>1, <2>3 DEF DeliversNone
<1>4. CASE (\E k \in AllKeys : KeyExpires(k)) \/ Stop \/ RestartAfterDrain \/ UNCHANGED vars
  <2>1. UNCHANGED memVars /\ cur' = cur /\ cons' = cons
    BY <1>4 DEF KeyExpires, Stop, RestartAfterDrain, vars, memVars
  <2> QED BY <2>1, MemKept DEF DeliversNone
<1> QED
  BY <1>2, <1>3, <1>4

LEMMA OrderHolds ==
  ASSUME PipelineInv, DeliveredInOrder, [Next]_vars
  PROVE  DeliveredInOrder' /\ \A e \in Entries : cons'[e] = "new" => cons[e] = "new"
<1>1. TypeOK /\ stream' = stream
  BY StreamKept DEF PipelineInv
<1>2. DeliversNone \/ \E e \in Entries : Delivers(e)
  <2>1. ASSUME NEW e \in Entries, \/ ProcessPoison(e) \/ ProcessOta(e) \/ ProcessDup(e)
                                  \/ ProcessTelemetry(e) \/ ProcessSync(e) \/ AckWaitExpires(e)
        PROVE  DeliversNone \/ \E d \in Entries : Delivers(d)
    BY <1>1, <2>1, ConsumeDelivers, SyncDelivers, TelemetryDelivers, RestDelivers
  <2>2. ASSUME NEW f \in Flushers, FlushTake(f) \/ FlushInsertOk(f) \/ FlushInsertErr(f) \/ FlushShadowAck(f)
        PROVE  DeliversNone
    BY <2>2, ChannelDelivers, LetGoDelivers
  <2>3. CASE EventInsertOk \/ EventInsertErr \/ EventAck \/ CmdAckStored \/ CmdAckErr
    BY <2>3, CurDelivers
  <2>4. CASE BatchAdd \/ BatchDrain
    BY <2>4, ChannelDelivers
  <2>5. CASE (\E k \in AllKeys : KeyExpires(k)) \/ Stop \/ RestartAfterDrain \/ Crash \/ UNCHANGED vars
    BY <2>5, RestDelivers
  <2> QED BY <2>1, <2>2, <2>3, <2>4, <2>5 DEF Next
<1> QED
  BY <1>1, <1>2, Delivered

-----------------------------------------------------------------------------
(* The steps, for one device that is not overtaken.                        *)

\* A move between the channels
LEMMA MoveShows ==
  ASSUME TypeOK, stream' = stream, NEW sn \in SNs, ShadowBehind(sn),
         \A e : e \in Channelled' <=> e \in Channelled,
         \A f \in Flushers : fl'[f].stage = "shadow" \/ fl[f].stage = "shadow" => fl'[f] = fl[f],
         UNCHANGED <<cons, rows, reported>>
  PROVE  ShadowBehind(sn)'
<1>1. Frames(sn)' = Frames(sn) /\ (\A r, D : Shows(r, D)' <=> Shows(r, D)) /\ \A e : Key(e)' = Key(e)
  BY FramesKept
<1>2. Due' = Due /\ Channelled' = Channelled
  <2>1. \A e : e \in Due' <=> e \in Due
    BY DueIs
  <2> QED BY <2>1
<1> QED
  BY <1>1, <1>2 DEF ShadowBehind

LEMMA TelemetryShows ==
  ASSUME PipelineInv, DeliveredInOrder, DeliveredInOrder', NEW sn \in SNs, sn \notin overtaken',
         InLine(Frames(sn), in, batch, batches, Items), ShadowBehind(sn),
         NEW e \in Entries, ProcessTelemetry(e)
  PROVE  InLine(Frames(sn), in, batch, batches, Items)' /\ ShadowBehind(sn)'
<1>1. TypeOK /\ HeldKinds
  BY DEF PipelineInv
<1>2. /\ stream' = stream /\ cons' = [cons EXCEPT ![e] = "inflight"] /\ in' = Append(in, e)
      /\ batch' = batch /\ batches' = batches /\ fl' = fl /\ rows' = rows /\ reported' = reported
      /\ Deliverable(e) /\ (cons[e] = "redeliver" => stream[e].sn \in overtaken')
  BY DEF ProcessTelemetry, storeVars
<1>3. Frames(sn)' = Frames(sn) /\ (\A r, D : Shows(r, D)' <=> Shows(r, D)) /\ \A d : Key(d)' = Key(d)
  BY <1>2, FramesKept
<1>4. /\ \A d \in Channelled : d \in Entries /\ cons[d] # "new"
      /\ \A d, c \in Entries : d < c /\ cons[d] = "new" => cons[c] = "new"
  BY <1>1, HeldEntries, HeldIs DEF DeliveredInOrder
<1>5. e \in Frames(sn) => \A d \in Entries : cons[d] # "new" => d < e
  <2> SUFFICES ASSUME e \in Frames(sn), NEW d \in Entries, cons[d] # "new" PROVE d < e
    OBVIOUS
  <2>1. cons[e] = "new"
    BY <1>2 DEF Frames, Deliverable
  <2>2. ~(e < d) /\ e # d
    BY <1>4, <2>1
  <2>3. d \in Int /\ e \in Int
    BY Assumed DEF Entries
  <2> QED BY <2>2, <2>3
<1>6. InLine(Frames(sn), Append(in, e), batch, batches, Items)
  <2>1. in \in Seq(Entries)
    BY <1>1, Facts
  <2>2. /\ \A d \in ToSet(in) \cup ToSet(batch) : d \in Channelled
        /\ \A i \in DOMAIN batches : \A d \in ToSet(batches[i]) : d \in Channelled
        /\ \A f \in Flushers : \A d \in ToSet(Items[f]) : d \in Channelled
    <3>1. \A i \in DOMAIN batches : batches[i] \in ToSet(batches)
      BY DEF ToSet
    <3> QED BY <3>1, ChannelledIs DEF Items
  <2>3. e \in Frames(sn) => /\ \A d \in (ToSet(in) \cup ToSet(batch)) \cap Frames(sn) : d < e
                            /\ \A i \in DOMAIN batches : \A d \in ToSet(batches[i]) \cap Frames(sn) : d < e
                            /\ \A f \in Flushers : \A d \in ToSet(Items[f]) \cap Frames(sn) : d < e
    BY <1>4, <1>5, <2>2
  <2> QED BY <2>1, <2>3, LongerLine
<1>7. Items' = Items /\ Due' = Due
  BY <1>2 DEF Items, Due
<1>8. \A d : d \in Channelled' <=> d \in Channelled \/ d = e
  <2>1. ToSet(in') = ToSet(in) \cup {e}
    BY <1>1, <1>2, Facts, ToSetAppend
  <2> QED BY <1>2, <2>1, ChannelledIs
<1>9. PICK D \in SUBSET Frames(sn) :
        /\ \A d \in D : cons[d] # "new" /\ \A c \in Channelled \cap Frames(sn) : d < c
        /\ \A c \in Frames(sn) : Key(c) \in rows <=> \E d \in D \cup Due : Key(d) = Key(c)
        /\ Shows(reported[sn], D)
  BY DEF ShadowBehind
<1>10. \A d \in D : cons'[d] # "new" /\ \A c \in Channelled' \cap Frames(sn) : d < c
  <2>1. \A d \in D : d \in Entries /\ cons[d] # "new"
    BY <1>9 DEF Frames
  <2>2. cons'[e] = "inflight" /\ \A d \in Entries \ {e} : cons'[d] = cons[d]
    BY <1>1, <1>2, Marked DEF States
  <2>3. \A d \in D : cons'[d] # "new"
    BY <2>1, <2>2
  <2> QED BY <1>5, <1>8, <1>9, <2>1, <2>3
<1>11. ShadowBehind(sn)'
  BY <1>2, <1>3, <1>7, <1>9, <1>10 DEF ShadowBehind
<1> QED
  BY <1>2, <1>3, <1>6, <1>7, <1>11

LEMMA AddShows ==
  ASSUME PipelineInv, NEW sn \in SNs,
         InLine(Frames(sn), in, batch, batches, Items), ShadowBehind(sn), BatchAdd \/ BatchDrain
  PROVE  InLine(Frames(sn), in, batch, batches, Items)' /\ ShadowBehind(sn)'
<1>1. TypeOK
  BY DEF PipelineInv
<1>2. stream' = stream /\ fl' = fl /\ UNCHANGED <<cons, rows, reported>>
  BY DEF BatchAdd, BatchDrain, storeVars
<1>3. ShadowBehind(sn)'
  BY <1>1, <1>2, ChannelDelivers, MoveShows
<1>4. in \in Seq(Entries) /\ batch \in Batch /\ batch \in Seq(Entries) /\ batches \in Seq(Batch)
  BY <1>1, Facts, BatchIs
<1>5. InLine(Frames(sn), in', batch', batches', Items)
  <2>1. CASE BatchAdd
    <3>1. in # <<>> /\ batch' = Append(batch, Head(in)) /\ in' = Tail(in) /\ batches' = batches
      BY <2>1 DEF BatchAdd
    <3> QED BY <1>4, <3>1, AddedLine
  <2>2. CASE BatchDrain
    <3>1. batches' = Append(batches, batch) /\ batch' = <<>> /\ in' = in
      BY <2>2 DEF BatchDrain
    <3> QED BY <1>4, <3>1, DrainedLine
  <2> QED BY <2>1, <2>2
<1>6. Items' = Items /\ Frames(sn)' = Frames(sn)
  BY <1>2, FramesKept DEF Items
<1> QED
  BY <1>3, <1>5, <1>6

LEMMA TakeShows ==
  ASSUME PipelineInv, NEW sn \in SNs, sn \notin overtaken',
         InLine(Frames(sn), in, batch, batches, Items), ShadowBehind(sn),
         NEW f \in Flushers, FlushTake(f)
  PROVE  InLine(Frames(sn), in, batch, batches, Items)' /\ ShadowBehind(sn)'
<1>1. TypeOK /\ HeldKinds
  BY DEF PipelineInv
<1>2. /\ fl[f].stage = "idle" /\ batches # <<>> /\ stream' = stream
      /\ fl' = [fl EXCEPT ![f] = [stage |-> "insert", items |-> Head(batches)]]
      /\ in' = in /\ batch' = batch /\ batches' = Tail(batches)
      /\ overtaken' = overtaken \cup (SNsOf(Head(batches)) \cap UNION {SNsOf(fl[g].items) : g \in Flushers})
      /\ UNCHANGED <<cons, rows, reported>>
  BY DEF FlushTake, storeVars
<1>3. /\ fl'[f] = [stage |-> "insert", items |-> Head(batches)]
      /\ \A g \in Flushers \ {f} : fl'[g] = fl[g]
  BY <1>1, <1>2, Facts
<1>4. fl'[f].stage = "insert" /\ fl'[f].items = Head(batches)
  BY <1>3
<1>5. ShadowBehind(sn)'
  <2>1. \A g \in Flushers : fl'[g].stage = "shadow" \/ fl[g].stage = "shadow" => fl'[g] = fl[g]
    BY <1>2, <1>3, <1>4
  <2> QED BY <1>1, <1>2, <2>1, ChannelDelivers, MoveShows
<1>6. ToSet(Head(batches)) \cap Frames(sn) = {} \/ \A g \in Flushers \ {f} : ToSet(Items[g]) \cap Frames(sn) = {}
  <2>1. CASE sn \in SNsOf(Head(batches))
    <3>1. \A g \in Flushers : sn \notin SNsOf(fl[g].items)
      BY <1>2, <2>1
    <3>2. \A g \in Flushers : ToSet(fl[g].items) \cap Frames(sn) = {}
      BY <1>1, <3>1, ItemsAre
    <3> QED BY <3>2 DEF Items
  <2>2. CASE sn \notin SNsOf(Head(batches))
    BY <2>2 DEF SNsOf, Frames
  <2> QED BY <2>1, <2>2
<1>7. Items'[f] = Head(batches) /\ \A g \in Flushers \ {f} : Items'[g] = Items[g]
  BY <1>3, <1>4 DEF Items
<1>8. InLine(Frames(sn), in, batch, Tail(batches), Items')
  BY <1>1, <1>2, <1>6, <1>7, Facts, TakenLine
<1> QED
  BY <1>2, <1>5, <1>8, FramesKept

\* The rows are written: the shadow is due.
LEMMA InsertShows ==
  ASSUME PipelineInv, NEW sn \in SNs,
         InLine(Frames(sn), in, batch, batches, Items), ShadowBehind(sn),
         NEW f \in Flushers, FlushInsertOk(f)
  PROVE  InLine(Frames(sn), in, batch, batches, Items)' /\ ShadowBehind(sn)'
<1>1. TypeOK
  BY DEF PipelineInv
<1>2. /\ fl[f].stage = "insert" /\ rows' = rows \cup KeysOf(fl[f].items)
      /\ fl' = [fl EXCEPT ![f].stage = "shadow"]
      /\ stream' = stream /\ in' = in /\ batch' = batch /\ batches' = batches
      /\ UNCHANGED <<cons, reported>>
  BY DEF FlushInsertOk
<1>3. /\ fl'[f].stage = "shadow" /\ fl'[f].items = fl[f].items
      /\ \A g \in Flushers \ {f} : fl'[g] = fl[g]
  BY <1>1, <1>2, Facts DEF FlusherState
<1>4. Items' = Items
  <2>1. \A g \in Flushers : fl'[g].items = fl[g].items
    BY <1>3
  <2> QED BY <2>1 DEF Items
<1>5. \A e : e \in Due' <=> e \in Due \/ e \in ToSet(fl[f].items)
  BY <1>2, <1>3, DueIs
<1>6. Frames(sn)' = Frames(sn) /\ (\A r, D : Shows(r, D)' <=> Shows(r, D)) /\ \A e : Key(e)' = Key(e)
  BY <1>2, FramesKept
<1>7. Channelled' = Channelled
  BY ChannelDelivers
<1>8. PICK D \in SUBSET Frames(sn) :
        /\ \A d \in D : cons[d] # "new" /\ \A e \in Channelled \cap Frames(sn) : d < e
        /\ \A e \in Frames(sn) : Key(e) \in rows <=> \E d \in D \cup Due : Key(d) = Key(e)
        /\ Shows(reported[sn], D)
  BY DEF ShadowBehind
<1>9. \A e \in Frames(sn) : Key(e) \in rows' <=> \E d \in D \cup Due' : Key(d) = Key(e)
  BY <1>2, <1>5, <1>8, KeysOfIs
<1>10. ShadowBehind(sn)'
  BY <1>2, <1>6, <1>7, <1>8, <1>9 DEF ShadowBehind
<1> QED
  BY <1>2, <1>4, <1>6, <1>10

\* Of two frames in order, the later one is not older.
LEMMA OrderIs ==
  ASSUME TypeOK, NEW sn, InOrder(sn), NEW d \in Frames(sn), NEW e \in Frames(sn), d < e \/ d = e
  PROVE  Older(stream[d], stream[e]) /\ stream[d].ts <= stream[e].ts
<1>1. /\ d \in Entries /\ e \in Entries
      /\ stream[d].ts \in Nat /\ stream[e].ts \in Nat /\ stream[d].seq \in Nat /\ stream[e].seq \in Nat
  BY FramesAre
<1>2. stream[d] = stream[e] \/ Older(stream[d], stream[e])
  BY DEF InOrder
<1> QED
  BY <1>1, <1>2 DEF Older

\* A shadow write adds the frames of its batch to what the shadow shows.
LEMMA WriteShows ==
  ASSUME TypeOK, HeldKinds, NEW sn \in SNs, InOrder(sn), NEW f \in Flushers,
         Rises(fl[f].items, Frames(sn)), OfSN(fl[f].items, sn) # {},
         NEW D \in SUBSET Frames(sn), Shows(reported[sn], D),
         \A d \in D, e \in ToSet(fl[f].items) \cap Frames(sn) : d < e
  PROVE  Shows(ShadowAfter(fl[f].items)[sn], D \cup (ToSet(fl[f].items) \cap Frames(sn)))
<1> DEFINE s == fl[f].items
           F == Frames(sn)
           I == OfSN(s, sn)
           N == ToSet(s) \cap F
           r == ShadowAfter(s)[sn]
           l == LatestPerSN(s, sn)
           C == {i \in I : stream[s[i]].attr # 0}
<1>1. s \in Seq(Entries) /\ Len(s) \in Nat /\ DOMAIN s = 1 .. Len(s)
  BY HeldEntries
<1>2. /\ I \subseteq 1 .. Len(s) /\ I # {}
      /\ \A i \in I : s[i] \in F /\ s[i] \in ToSet(s) /\ s[i] \in Entries
      /\ N = {s[i] : i \in I}
  BY <1>1, ItemsAre DEF OfSN
<1>3. /\ r.ts = stream[s[l]].ts
      /\ r.attr = MergedAttr(s, sn)
  BY DEF ShadowAfter
<1>4. MergedAttr(s, sn) = IF C = {} THEN reported[sn].attr
                          ELSE stream[s[CHOOSE i \in C : \A j \in C : j <= i]].attr
  BY DEF MergedAttr
<1>5. l = CHOOSE i \in I : \A j \in I : Older(stream[s[j]], stream[s[i]])
  BY DEF LatestPerSN
<1>6. \A i, j \in I : i < j => s[i] < s[j]
  BY <1>1, <1>2 DEF Rises
<1>7. \A e \in Entries : e \in Int /\ stream[e].ts \in Nat
  BY Assumed, FramesAre DEF Entries
<1> HIDE DEF s, F, I, r, l, C
<1>8. l \in I /\ \A j \in I : Older(stream[s[j]], stream[s[l]])
  <2>1. PICK m \in I : \A j \in I : j <= m
    BY <1>1, <1>2, LastIndex
  <2>2. ASSUME NEW j \in I PROVE Older(stream[s[j]], stream[s[m]])
    <3>1. j = m \/ j < m
      BY <1>2, <2>1
    <3>2. s[j] < s[m] \/ s[j] = s[m]
      BY <1>6, <3>1
    <3> QED BY <1>2, <3>2, OrderIs DEF F
  <2> QED BY <1>5, <2>1, <2>2
<1>9. \A e \in N : stream[e].ts <= r.ts
  BY <1>2, <1>3, <1>7, <1>8 DEF Older
<1>10. s[l] \in N /\ stream[s[l]].ts = r.ts
  BY <1>2, <1>3, <1>8
<1>11. \A d \in D : stream[d].ts <= r.ts
  <2> SUFFICES ASSUME NEW d \in D PROVE stream[d].ts <= r.ts
    OBVIOUS
  <2>1. d < s[l] /\ d \in Frames(sn) /\ s[l] \in Frames(sn)
    BY <1>10 DEF F, s
  <2> QED BY <1>10, <2>1, OrderIs
<1>12. \/ r.attr = 0 /\ \A d \in D \cup N : stream[d].attr = 0
       \/ \E d \in D \cup N : /\ stream[d].attr = r.attr /\ r.attr # 0
                              /\ \A c \in D \cup N : stream[c].attr # 0 => c <= d
  <2>1. \/ reported[sn].attr = 0 /\ \A d \in D : stream[d].attr = 0
        \/ \E d \in D : /\ stream[d].attr = reported[sn].attr /\ reported[sn].attr # 0
                        /\ \A c \in D : stream[c].attr # 0 => c <= d
    BY DEF Shows
  <2>2. CASE C = {}
    <3>1. \A e \in N : stream[e].attr = 0
      BY <1>2, <2>2 DEF C
    <3>2. r.attr = reported[sn].attr
      BY <1>3, <1>4, <2>2
    <3> QED BY <2>1, <3>1, <3>2
  <2>3. CASE C # {}
    <3>1. PICK m \in C : \A j \in C : j <= m
      <4>1. C \subseteq 1 .. Len(s)
        BY <1>2 DEF C
      <4> QED BY <1>1, <2>3, <4>1, LastIndex
    <3> DEFINE k == CHOOSE i \in C : \A j \in C : j <= i
    <3>2. k \in C /\ \A j \in C : j <= k
      BY <3>1
    <3>3. r.attr = stream[s[k]].attr
      BY <1>3, <1>4, <2>3
    <3> HIDE DEF k
    <3>4. k \in I /\ s[k] \in N /\ r.attr # 0
      BY <1>2, <3>2, <3>3 DEF C
    <3>5. \A c \in D : c <= s[k]
      <4>1. \A c \in D : c < s[k] /\ c \in Entries
        BY <3>4 DEF s, F, Frames
      <4> QED BY <1>2, <1>7, <3>4, <4>1
    <3>6. ASSUME NEW c \in N, stream[c].attr # 0 PROVE c <= s[k]
      <4>1. PICK j \in I : c = s[j]
        BY <1>2
      <4>2. j \in C
        BY <3>6, <4>1 DEF C
      <4>3. j = k \/ j < k
        BY <1>2, <3>2, <3>4, <4>2
      <4> QED BY <1>2, <1>6, <1>7, <3>4, <4>1, <4>3
    <3> QED BY <3>3, <3>4, <3>5, <3>6
  <2> QED BY <2>2, <2>3
<1>13. Shows(r, D \cup N)
  BY <1>9, <1>10, <1>11, <1>12 DEF Shows
<1> QED
  BY <1>13 DEF r, s, F

LEMMA AckShows ==
  ASSUME PipelineInv, DeliveredInOrder, NEW sn \in SNs, sn \notin overtaken', InOrder(sn),
         InLine(Frames(sn), in, batch, batches, Items), ShadowBehind(sn),
         NEW f \in Flushers, FlushShadowAck(f)
  PROVE  InLine(Frames(sn), in, batch, batches, Items)' /\ ShadowBehind(sn)'
<1>1. TypeOK /\ HeldKinds
  BY DEF PipelineInv
<1>2. /\ fl[f].stage = "shadow" /\ fl' = [fl EXCEPT ![f] = IdleFlusher] /\ stream' = stream
      /\ in' = in /\ batch' = batch /\ batches' = batches /\ rows' = rows
      /\ \/ reported' = ShadowAfter(fl[f].items)
         \/ overtaken' = overtaken \cup SNsOf(fl[f].items) /\ reported' = reported
  BY DEF FlushShadowAck
<1>3. fl'[f] = IdleFlusher /\ \A g \in Flushers \ {f} : fl'[g] = fl[g]
  BY <1>1, <1>2, Facts
<1>4. \A e \in Entries : cons'[e] = "new" <=> cons[e] = "new"
  BY LetGoDelivers DEF DeliversNone
<1> DEFINE N == ToSet(fl[f].items) \cap Frames(sn)
<1>5. CASE N = {}
  <2>1. OfSN(fl[f].items, sn) = {}
    BY <1>1, <1>5, ItemsAre
  <2>2. reported'[sn] = reported[sn]
    BY <1>2, <2>1 DEF ShadowAfter
  <2>3. \A g \in Flushers : \/ fl'[g] = fl[g]
                            \/ /\ fl'[g] = IdleFlusher
                               /\ fl[g].stage = "shadow" => ToSet(fl[g].items) \cap Frames(sn) = {}
    BY <1>3, <1>5
  <2> QED BY <1>1, <1>2, <1>4, <2>2, <2>3, ShadowKept
<1>6. CASE N # {}
  <2>1. OfSN(fl[f].items, sn) # {} /\ sn \in SNsOf(fl[f].items)
    BY <1>1, <1>6, ItemsAre
  <2>2. reported' = ShadowAfter(fl[f].items)
    BY <1>2, <2>1
  <2>3. PICK D \in SUBSET Frames(sn) :
          /\ \A d \in D : cons[d] # "new" /\ \A e \in Channelled \cap Frames(sn) : d < e
          /\ \A e \in Frames(sn) : Key(e) \in rows <=> \E d \in D \cup Due : Key(d) = Key(e)
          /\ Shows(reported[sn], D)
    BY DEF ShadowBehind
  <2>4. N \subseteq Channelled /\ N \subseteq Frames(sn) /\ N \subseteq Held
    BY ChannelledIs, HeldIs
  <2>5. Shows(reported'[sn], D \cup N)
    <3>1. Rises(fl[f].items, Frames(sn))
      BY DEF InLine, Items
    <3>2. \A d \in D, e \in N : d < e
      BY <2>3, <2>4
    <3> QED BY <1>1, <2>1, <2>2, <2>3, <3>1, <3>2, WriteShows
  <2>6. InLine(Frames(sn), in', batch', batches', Items')
    <3>1. \A g \in Flushers : Items'[g] \in {Items[g], <<>>}
      BY <1>3 DEF Items, IdleFlusher
    <3> QED BY <1>2, <3>1, ShorterLine
  <2>7. \A e \in Channelled' \cap Frames(sn) :
          /\ e \in Channelled
          /\ \A d \in N : d < e
    <3>1. /\ \A g \in Flushers \ {f} : ToSet(fl[g].items) \cap Frames(sn) = {}
          /\ Ahead(fl[f].items, batch, Frames(sn)) /\ Ahead(fl[f].items, in, Frames(sn))
          /\ \A i \in DOMAIN batches : Ahead(fl[f].items, batches[i], Frames(sn))
      BY <1>6 DEF InLine, Items
    <3>2. \A b \in ToSet(batches) : Ahead(fl[f].items, b, Frames(sn))
      BY <3>1 DEF ToSet
    <3>3. ASSUME NEW e \in Channelled' \cap Frames(sn)
          PROVE  e \in ToSet(in) \/ e \in ToSet(batch) \/ \E b \in ToSet(batches) : e \in ToSet(b)
      <4>1. ToSet(fl'[f].items) = {}
        BY <1>3, ToSetEmpty DEF IdleFlusher
      <4>2. \A g \in Flushers : e \notin ToSet(fl'[g].items)
        BY <1>3, <3>1, <4>1
      <4> QED BY <1>2, <4>2, ChannelledIs
    <3> QED BY <3>1, <3>2, <3>3, ChannelledIs DEF Ahead
  <2>8. \A d \in D \cup N : cons'[d] # "new" /\ \A e \in Channelled' \cap Frames(sn) : d < e
    <3>1. \A d \in D \cup N : d \in Entries
      BY DEF Frames
    <3>2. \A d \in N : cons[d] # "new"
      BY <2>4 DEF DeliveredInOrder
    <3> QED BY <1>4, <2>3, <2>7, <3>1, <3>2
  <2>9. ASSUME NEW e \in Frames(sn)
        PROVE  Key(e) \in rows' <=> \E d \in (D \cup N) \cup Due' : Key(d) = Key(e)
    <3>1. \A d : d \in Due <=> d \in ToSet(fl[f].items) \/ d \in Due'
      BY <1>2, <1>3, DueIs DEF IdleFlusher
    <3>2. \A d \in ToSet(fl[f].items) : Key(d) = Key(e) => d \in N
      BY <1>1, FramesAre, HeldEntries
    <3> QED BY <1>2, <2>3, <3>1, <3>2
  <2>10. Frames(sn)' = Frames(sn) /\ (\A r, X : Shows(r, X)' <=> Shows(r, X)) /\ \A e : Key(e)' = Key(e)
    BY <1>2, FramesKept
  <2>11. ShadowBehind(sn)'
    <3>1. D \cup N \in SUBSET Frames(sn)
      BY <2>4
    <3> HIDE DEF N
    <3>2. \E X \in SUBSET Frames(sn) :
            /\ \A d \in X : cons'[d] # "new" /\ \A e \in Channelled' \cap Frames(sn) : d < e
            /\ \A e \in Frames(sn) : Key(e) \in rows' <=> \E d \in X \cup Due' : Key(d) = Key(e)
            /\ Shows(reported'[sn], X)
      BY <2>5, <2>8, <2>9, <3>1
    <3> QED BY <2>10, <3>2 DEF ShadowBehind
  <2> QED BY <2>6, <2>10, <2>11
<1> QED
  BY <1>5, <1>6

\* The steps that write no frames: those of the consume goroutine, and Redis
LEMMA QuietShows ==
  ASSUME PipelineInv, stream' = stream, NEW sn \in SNs,
         InLine(Frames(sn), in, batch, batches, Items), ShadowBehind(sn),
         \A e \in Entries : cons'[e] = "new" => cons[e] = "new",
         UNCHANGED memVars, reported' = reported,
         rows' = rows \/ (cur.pc = "insert" /\ rows' \in {rows, rows \cup {Key(cur.e)}})
  PROVE  InLine(Frames(sn), in, batch, batches, Items)' /\ ShadowBehind(sn)'
<1>1. TypeOK /\ HeldKinds
  BY DEF PipelineInv
<1>2. in' = in /\ batch' = batch /\ batches' = batches /\ fl' = fl
  BY MemKept
<1>3. \A e \in Frames(sn) : Key(e) \in rows' <=> Key(e) \in rows
  <2>1. cur.pc = "insert" => cur.e \in Entries /\ stream[cur.e].kind = "event"
    BY <1>1, HeldEntries DEF HeldKinds
  <2>2. cur.pc = "insert" => \A e \in Frames(sn) : Key(cur.e) # Key(e)
    BY <1>1, <2>1, FramesAre DEF Frames
  <2> QED BY <2>2
<1> QED
  BY <1>1, <1>2, <1>3, ShadowKept

LEMMA ErrShows ==
  ASSUME PipelineInv, NEW sn \in SNs, sn \notin overtaken',
         InLine(Frames(sn), in, batch, batches, Items), ShadowBehind(sn),
         \A e \in Entries : cons'[e] = "new" => cons[e] = "new",
         NEW f \in Flushers, FlushInsertErr(f)
  PROVE  InLine(Frames(sn), in, batch, batches, Items)' /\ ShadowBehind(sn)'
<1>1. TypeOK /\ HeldKinds
  BY DEF PipelineInv
<1>2. /\ fl[f].stage = "insert" /\ fl' = [fl EXCEPT ![f] = IdleFlusher] /\ stream' = stream
      /\ in' = in /\ batch' = batch /\ batches' = batches /\ reported' = reported
      /\ \/ rows' = rows
         \/ rows' = rows \cup KeysOf(fl[f].items) /\ sn \notin SNsOf(fl[f].items)
  BY DEF FlushInsertErr
<1>3. fl'[f] = IdleFlusher /\ \A g \in Flushers \ {f} : fl'[g] = fl[g]
  BY <1>1, <1>2, Facts
<1>4. \A e \in Frames(sn) : Key(e) \in rows' <=> Key(e) \in rows
  <2>1. ASSUME sn \notin SNsOf(fl[f].items), NEW e \in Frames(sn) PROVE Key(e) \notin KeysOf(fl[f].items)
    <3>1. \A d \in ToSet(fl[f].items) : d \notin Frames(sn) /\ d \in Entries
      BY <1>1, <2>1, ItemsAre, HeldEntries
    <3> QED BY <1>1, <3>1, FramesAre, KeysOfIs
  <2> QED BY <1>2, <2>1
<1>5. \A g \in Flushers : fl'[g] = fl[g] \/ (fl'[g] = IdleFlusher /\ fl[g].stage # "shadow")
  BY <1>2, <1>3
<1> QED
  BY <1>1, <1>2, <1>4, <1>5, ShadowKept

LEMMA CrashShows ==
  ASSUME PipelineInv, NEW sn \in SNs, sn \notin overtaken',
         InLine(Frames(sn), in, batch, batches, Items), ShadowBehind(sn), Crash
  PROVE  InLine(Frames(sn), in, batch, batches, Items)' /\ ShadowBehind(sn)'
<1>1. TypeOK /\ HeldKinds
  BY DEF PipelineInv
<1>2. /\ stream' = stream /\ in' = <<>> /\ batch' = <<>> /\ batches' = <<>>
      /\ fl' = [f \in Flushers |-> IdleFlusher] /\ UNCHANGED <<cons, rows, reported>>
  BY DEF Crash, storeVars
<1>3. ASSUME NEW f \in Flushers, fl[f].stage = "shadow" PROVE ToSet(fl[f].items) \cap Frames(sn) = {}
  <2>1. sn \notin UNION {SNsOf(fl[g].items) : g \in {h \in Flushers : fl[h].stage = "shadow"}}
    BY DEF Crash
  <2>2. sn \notin SNsOf(fl[f].items)
    BY <1>3, <2>1
  <2> QED BY <1>1, <2>2, ItemsAre
<1>4. \A f \in Flushers : fl'[f] = IdleFlusher
  BY <1>2
<1> QED
  BY <1>1, <1>2, <1>3, <1>4, ShadowKept

LEMMA ShadowStep == PipelineInv /\ ShadowInv /\ [Next]_vars => ShadowInv'
<1> SUFFICES ASSUME PipelineInv, ShadowInv, [Next]_vars PROVE ShadowInv'
  OBVIOUS
<1>1. /\ TypeOK /\ stream' = stream /\ SNs' = SNs /\ DeliveredInOrder
      /\ \A sn : InOrder(sn)' <=> InOrder(sn)
  BY StreamKept, KeyKept, FramesKept DEF PipelineInv, ShadowInv
<1>2. DeliveredInOrder' /\ \A e \in Entries : cons'[e] = "new" => cons[e] = "new"
  BY <1>1, OrderHolds
<1>3. overtaken \subseteq overtaken'
  BY DEF Next, vars, ProcessPoison, ProcessOta, ProcessDup, ProcessTelemetry, ProcessSync,
     AckWaitExpires, EventInsertOk, EventInsertErr, EventAck, CmdAckStored, CmdAckErr, BatchAdd,
     BatchDrain, FlushTake, FlushInsertOk, FlushInsertErr, FlushShadowAck, KeyExpires, Stop,
     RestartAfterDrain, Crash
<1>4. ASSUME NEW sn \in SNs, sn \notin overtaken', InOrder(sn)
      PROVE  InLine(Frames(sn), in, batch, batches, Items)' /\ ShadowBehind(sn)'
  <2>1. InLine(Frames(sn), in, batch, batches, Items) /\ ShadowBehind(sn)
    BY <1>3, <1>4 DEF ShadowInv
  <2>2. ASSUME NEW e \in Entries, ProcessTelemetry(e)
        PROVE  InLine(Frames(sn), in, batch, batches, Items)' /\ ShadowBehind(sn)'
    BY <1>1, <1>2, <1>4, <2>1, <2>2, TelemetryShows
  <2>3. ASSUME NEW e \in Entries, \/ ProcessPoison(e) \/ ProcessOta(e) \/ ProcessDup(e)
                                  \/ ProcessSync(e) \/ AckWaitExpires(e)
        PROVE  InLine(Frames(sn), in, batch, batches, Items)' /\ ShadowBehind(sn)'
    <3>1. UNCHANGED memVars /\ reported' = reported /\ rows' = rows
      BY <2>3 DEF ProcessPoison, ProcessOta, ProcessDup, ProcessSync, AckWaitExpires, storeVars
    <3> QED BY <1>1, <1>2, <2>1, <3>1, QuietShows
  <2>4. CASE EventInsertOk \/ EventInsertErr \/ EventAck \/ CmdAckStored \/ CmdAckErr
    <3>1. /\ UNCHANGED memVars /\ reported' = reported
          /\ rows' = rows \/ (cur.pc = "insert" /\ rows' \in {rows, rows \cup {Key(cur.e)}})
      BY <2>4 DEF EventInsertOk, EventInsertErr, EventAck, CmdAckStored, CmdAckErr, storeVars
    <3> QED BY <1>1, <1>2, <2>1, <3>1, QuietShows
  <2>5. CASE BatchAdd \/ BatchDrain
    BY <2>1, <2>5, AddShows
  <2>6. ASSUME NEW f \in Flushers,
               FlushTake(f) \/ FlushInsertOk(f) \/ FlushInsertErr(f) \/ FlushShadowAck(f)
        PROVE  InLine(Frames(sn), in, batch, batches, Items)' /\ ShadowBehind(sn)'
    BY <1>1, <1>2, <1>4, <2>1, <2>6, TakeShows, InsertShows, ErrShows, AckShows
  <2>7. CASE (\E k \in AllKeys : KeyExpires(k)) \/ Stop \/ RestartAfterDrain \/ UNCHANGED vars
    <3>1. UNCHANGED memVars /\ reported' = reported /\ rows' = rows
      BY <2>7 DEF KeyExpires, Stop, RestartAfterDrain, vars, memVars, storeVars
    <3> QED BY <1>1, <1>2, <2>1, <3>1, QuietShows
  <2>8. CASE Crash
    BY <1>4, <2>1, <2>8, CrashShows
  <2> QED BY <2>2, <2>3, <2>4, <2>5, <2>6, <2>7, <2>8 DEF Next
<1> QED
  BY <1>1, <1>2, <1>4 DEF ShadowInv

LEMMA ShadowInit == Init => ShadowInv
<1> SUFFICES ASSUME Init PROVE ShadowInv
  OBVIOUS
<1>1. /\ in = <<>> /\ batch = <<>> /\ batches = <<>> /\ fl = [f \in Flushers |-> IdleFlusher]
      /\ cur = IdleCur /\ rows = {} /\ cons = [e \in Entries |-> "new"]
      /\ reported = [sn \in SNs |-> Fresh]
  BY DEF Init
<1>2. \A f \in Flushers : fl[f].items = <<>> /\ fl[f].stage = "idle" /\ Items[f] = <<>>
  BY <1>1 DEF IdleFlusher, Items
<1>3. \A e : e \notin Held /\ e \notin Channelled
  BY <1>1, <1>2, ToSetEmpty, ChannelledIs, HeldIs DEF IdleCur
<1>4. DeliveredInOrder
  BY <1>1, <1>3 DEF DeliveredInOrder
<1>5. ASSUME NEW sn \in SNs PROVE InLine(Frames(sn), in, batch, batches, Items)
  <2>1. DOMAIN batches = {} /\ ToSet(<<>>) = {}
    BY <1>1, ToSetEmpty
  <2> QED BY <1>1, <1>2, <2>1, EmptyLine DEF InLine
<1>6. ASSUME NEW sn \in SNs PROVE ShadowBehind(sn)
  <2>1. \A e : e \notin Due
    BY <1>2, DueIs
  <2>2. Shows(reported[sn], {})
    BY <1>1 DEF Shows, Fresh
  <2>3. {} \in SUBSET Frames(sn)
    OBVIOUS
  <2> QED BY <1>1, <2>1, <2>2, <2>3 DEF ShadowBehind
<1> QED
  BY <1>4, <1>5, <1>6 DEF ShadowInv

\* The shadow shows the newest frame in TDengine and the last attribute that a
\* frame carried, but for devices overtaken, for any stream, batch size, number
\* of flushers and faults (worker.go flush, LatestPerSN).
THEOREM ShadowFollows == Spec => []OldShadowRaced
<1>1. PipelineInv /\ ShadowInv => OldShadowRaced
  <2> SUFFICES ASSUME PipelineInv, ShadowInv, NEW sn \in SNs \ overtaken, Written(sn) # {}, InOrder(sn),
                      \A f \in Flushers : fl[f].stage = "shadow" => OfSN(fl[f].items, sn) = {}
               PROVE  /\ reported[sn].ts = Max({stream[e].ts : e \in Written(sn)})
                      /\ LET carrying == {e \in Written(sn) : stream[e].attr # 0}
                         IN reported[sn].attr = IF carrying = {} THEN 0 ELSE stream[Max(carrying)].attr
    BY DEF OldShadowRaced
  <2> DEFINE W == Written(sn)
             r == reported[sn]
             carrying == {e \in W : stream[e].attr # 0}
  <2>1. TypeOK /\ HeldKinds
    BY DEF PipelineInv
  <2>2. PICK D \in SUBSET Frames(sn) :
          /\ \A d \in D : cons[d] # "new" /\ \A e \in Channelled \cap Frames(sn) : d < e
          /\ \A e \in Frames(sn) : Key(e) \in rows <=> \E d \in D \cup Due : Key(d) = Key(e)
          /\ Shows(reported[sn], D)
    BY DEF ShadowInv, ShadowBehind
  <2>3. /\ \A d \in Entries, e \in Frames(sn) : Key(d) = Key(e) => d \in Frames(sn)
        /\ \A e \in Frames(sn) : e \in Int /\ stream[e].ts \in Nat /\ stream[e].seq \in Nat
    <3>1. \A e \in Entries : e \in Int
      BY Assumed DEF Entries
    <3> QED BY <2>1, <3>1, FramesAre
  <2>4. \A d \in Due : d \in Entries /\ d \notin Frames(sn)
    <3> SUFFICES ASSUME NEW f \in Flushers, fl[f].stage = "shadow", NEW d \in ToSet(fl[f].items)
                 PROVE  d \in Entries /\ d \notin Frames(sn)
      BY DueIs
    <3>1. ToSet(fl[f].items) \cap Frames(sn) = {fl[f].items[i] : i \in OfSN(fl[f].items, sn)}
      BY <2>1, ItemsAre
    <3>2. OfSN(fl[f].items, sn) = {}
      OBVIOUS
    <3> QED BY <2>1, <3>1, <3>2, HeldEntries
  <2>5. D \subseteq W /\ W \subseteq Frames(sn)
    BY <2>2 DEF Written
  <2>6. ASSUME NEW e \in W PROVE \E d \in D : stream[d] = stream[e]
    <3>1. e \in Frames(sn) /\ Key(e) \in rows
      BY DEF Written
    <3>2. PICK d \in D : Key(d) = Key(e)
      BY <2>2, <2>3, <2>4, <3>1
    <3>3. d \in Frames(sn) /\ stream[d].seq = stream[e].seq
      BY <3>2 DEF Key
    <3>4. d < e \/ e < d \/ d = e
      BY <2>3, <3>1, <3>3
    <3>5. stream[d] = stream[e]
      BY <3>1, <3>3, <3>4 DEF InOrder
    <3> QED BY <3>5
  <2>7. r.ts = Max({stream[e].ts : e \in W})
    <3> DEFINE T == {stream[e].ts : e \in W}
    <3>1. D # {}
      BY <2>6
    <3>2. r.ts \in T
      BY <2>2, <2>5, <3>1 DEF Shows
    <3>3. \A t \in T : t <= r.ts /\ t \in Nat
      <4>1. \A d \in D : stream[d].ts <= r.ts
        BY <2>2 DEF Shows
      <4> QED BY <2>3, <2>5, <2>6, <4>1
    <3> HIDE DEF T, r
    <3>4. Max(T) \in T /\ \A t \in T : Max(T) >= t
      <4>1. \E x \in T : \A y \in T : x >= y
        BY <3>2, <3>3
      <4> QED BY <4>1, MaxIs
    <3>5. r.ts = Max(T)
      BY <3>2, <3>3, <3>4
    <3> QED BY <3>5 DEF T, r
  <2>8. r.attr = IF carrying = {} THEN 0 ELSE stream[Max(carrying)].attr
    <3>1. CASE r.attr = 0 /\ \A d \in D : stream[d].attr = 0
      <4>1. carrying = {}
        BY <2>6, <3>1
      <4> QED BY <3>1, <4>1
    <3>2. ASSUME NEW m \in D, stream[m].attr = r.attr, r.attr # 0,
                 \A c \in D : stream[c].attr # 0 => c <= m
          PROVE  r.attr = IF carrying = {} THEN 0 ELSE stream[Max(carrying)].attr
      <4>1. m \in carrying
        BY <2>5, <3>2
      <4>2. ASSUME NEW c \in carrying, m < c PROVE stream[c] = stream[m]
        <5>1. PICK d \in D : stream[d] = stream[c]
          BY <2>6
        <5>2. d <= m
          BY <3>2, <5>1
        <5>3. c \in Frames(sn) /\ d \in Frames(sn) /\ m \in Frames(sn)
          BY <2>5
        <5>4. d = m \/ d < m
          BY <2>3, <5>2, <5>3
        <5>5. CASE d < m
          <6>1. \/ stream[d] = stream[m]
                \/ stream[d].seq # stream[m].seq /\ Older(stream[d], stream[m])
            BY <5>3, <5>5 DEF InOrder
          <6>2. \/ stream[m] = stream[c]
                \/ stream[m].seq # stream[c].seq /\ Older(stream[m], stream[c])
            BY <4>2, <5>3 DEF InOrder
          <6>3. /\ stream[d].ts = stream[c].ts /\ stream[d].seq = stream[c].seq
                /\ stream[c].ts \in Nat /\ stream[c].seq \in Nat
                /\ stream[m].ts \in Nat /\ stream[m].seq \in Nat
            BY <2>3, <5>1, <5>3
          <6>4. ~(/\ stream[m].seq # stream[c].seq /\ Older(stream[m], stream[c])
                  /\ stream[d].seq # stream[m].seq /\ Older(stream[d], stream[m]))
            BY <6>3 DEF Older
          <6> QED BY <5>1, <6>1, <6>2, <6>4
        <5> QED BY <5>1, <5>4, <5>5
      <4>3. \E x \in carrying : \A y \in carrying : x >= y
        <5>1. carrying \subseteq 1 .. StreamLen /\ StreamLen \in Nat
          BY <2>5, Assumed DEF Frames, Entries
        <5> HIDE DEF carrying
        <5>2. PICK x \in carrying : \A y \in carrying : y <= x
          BY <4>1, <5>1, LastIndex
        <5>3. \A y \in carrying : y \in Int
          BY <5>1
        <5>4. \A y \in carrying : x >= y
          BY <5>2, <5>3
        <5> QED BY <5>4
      <4>4. Max(carrying) \in carrying /\ \A y \in carrying : Max(carrying) >= y
        <5> HIDE DEF carrying
        <5> QED BY <4>3, MaxIs
      <4>5. Max(carrying) = m \/ m < Max(carrying)
        <5>1. Max(carrying) >= m
          BY <4>1, <4>4
        <5>2. \A c \in carrying : c \in Int
          BY <2>3, <2>5
        <5> HIDE DEF carrying
        <5> QED BY <4>1, <4>4, <5>1, <5>2
      <4> QED BY <3>2, <4>1, <4>2, <4>4, <4>5
    <3>3. \/ r.attr = 0 /\ \A d \in D : stream[d].attr = 0
          \/ \E d \in D : /\ stream[d].attr = r.attr /\ r.attr # 0
                          /\ \A c \in D : stream[c].attr # 0 => c <= d
      BY <2>2 DEF Shows
    <3> QED BY <3>1, <3>2, <3>3
  <2> QED BY <2>7, <2>8
<1>2. Spec => [](PipelineInv /\ ShadowInv)
  <2>1. Init => PipelineInv /\ ShadowInv
    BY InitHolds, ShadowInit
  <2>2. PipelineInv /\ ShadowInv /\ [Next]_vars => (PipelineInv /\ ShadowInv)'
    BY NextHolds, ShadowStep
  <2> QED BY <2>1, <2>2, PTL DEF Spec
<1> QED
  BY <1>1, <1>2, PTL
=============================================================================
