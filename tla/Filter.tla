------------------------------- MODULE Filter -------------------------------
(***************************************************************************)
(* accessory-svc's FilterBatch (internal/accessory/filter.go): every hour, *)
(* and on POST /internal/filter/run-once, the hours a purifier ran since   *)
(* the last round are added to filter_life. A round treats the devices one *)
(* by one and goes on after an error, so one device is modelled; rounds of *)
(* two processes interleave between the read of filter_life, the query in  *)
(* TDengine and the write. Hours are whole, level and coefficient are 1,   *)
(* the pressure factor is 1 or 2. Predicted dates are left out.            *)
(***************************************************************************)
EXTENDS Integers, FiniteSets

CONSTANTS
    Rounds,        \* FilterBatch rounds that may overlap
    Backfill,      \* hours that are made up for at most (7 days)
    RatedVolume,
    MaxHour,       \* bound: hours
    MaxUpsets      \* bound: late frames, changes of the shadow, failed statements

FilterConstants == {Backfill, RatedVolume, MaxUpsets} \subseteq Nat /\ MaxHour \in Nat \ {0}

Hours == 1 .. MaxHour
NoHour == -1

VARIABLES
    hour,    \* the current hour
    ran,     \* hours with fan_rpm > 0 in TDengine
    shadow,  \* reported: filter_installed_at (NoHour without one), high pressure
    life,    \* the filter_life row, with history: start and missed
    round,   \* locals of runDevice
    late,    \* history: hours whose frames arrived after the hour
    upsets

vars == <<hour, ran, shadow, life, round, late, upsets>>

\* FilterLife; last is NoHour for a row without last_hour. missed are the hours
\* a round left out because it went back only Backfill hours.
NoLife == [row |-> FALSE, installed |-> NoHour, last |-> NoHour, run |-> 0, volume |-> 0, health |-> RatedVolume,
           start |-> NoHour, missed |-> {}]
IdleRound == [pc |-> "idle", cur |-> 0, life |-> NoLife, from |-> 0, high |-> FALSE]

Init ==
    /\ hour = 1
    /\ ran = {} /\ late = {}
    /\ shadow = [installed |-> NoHour, high |-> FALSE]
    /\ life = NoLife
    /\ round = [r \in Rounds |-> IdleRound]
    /\ upsets = 0

-----------------------------------------------------------------------------
(* The purifier                                                            *)

Tick == hour < MaxHour /\ hour' = hour + 1 /\ UNCHANGED <<ran, shadow, life, round, late, upsets>>
Run == ran' = ran \cup {hour} /\ UNCHANGED <<hour, shadow, life, round, late, upsets>>

Upset ==
    /\ upsets < MaxUpsets /\ upsets' = upsets + 1 /\ UNCHANGED <<hour, life, round>>
    /\ \/ /\ \E t \in 1 .. hour - 1 : t \notin ran /\ ran' = ran \cup {t} /\ late' = late \cup {t}
          /\ UNCHANGED shadow
       \/ /\ shadow' \in {[shadow EXCEPT !.installed = hour], [shadow EXCEPT !.high = ~@]}
          /\ UNCHANGED <<ran, late>>

-----------------------------------------------------------------------------
(* runDevice                                                               *)

\* FilterLifeGet and the shadow. Without a row one is made up, installed when
\* the shadow says or in the current hour. With no hour that is over nothing is
\* written: a purifier that does not report filter_installed_at gets no row.
Installed(cur) == IF shadow.installed = NoHour THEN cur ELSE shadow.installed
Life(cur) == IF life.row THEN life
             ELSE [NoLife EXCEPT !.row = TRUE, !.installed = Installed(cur), !.start = Installed(cur)]
LastHour(l) == IF l.last = NoHour THEN l.installed - 1 ELSE l.last
\* Mutant: the last hour that was charged is read again.
FromLastHour(l, cur) == IF cur - LastHour(l) > Backfill THEN cur - Backfill ELSE LastHour(l)
From(l, cur) == IF cur - (LastHour(l) + 1) > Backfill THEN cur - Backfill ELSE LastHour(l) + 1

\* RunOnce: the hour is the one in which the round began
RunOnce(r) ==
    /\ round[r].pc = "idle"
    /\ round' = [round EXCEPT ![r] = [IdleRound EXCEPT !.pc = "device", !.cur = hour]]
    /\ UNCHANGED <<hour, ran, shadow, life, late, upsets>>

RunDevice(r) ==
    LET cur == round[r].cur
        l == Life(cur)
    IN /\ round[r].pc = "device"
       /\ round' = [round EXCEPT ![r] =
              IF LastHour(l) + 1 >= cur THEN IdleRound
              ELSE [pc |-> "query", cur |-> cur, life |-> l, from |-> From(l, cur), high |-> shadow.high]]
       /\ UNCHANGED <<hour, ran, shadow, life, late, upsets>>

\* PressureFactor
PressureFactor(high) == IF high THEN 2 ELSE 1

\* FilterStep, for all the hours of the answer
FilterSteps(l, hs, high) ==
    LET volume == l.volume + Cardinality(hs) * PressureFactor(high)
    IN [l EXCEPT !.run = @ + Cardinality(hs), !.volume = volume,
                 !.health = IF volume >= RatedVolume THEN 0 ELSE RatedVolume - volume]

\* BuildHourlyQuery and ParseHourly
HourlyQuery(from, to) == {t \in ran : from <= t /\ t < to}

\* The new row: last_hour moves to the last hour that is over even when the
\* purifier did not run.
Query(r) ==
    LET q == round[r]
        l == FilterSteps(q.life, HourlyQuery(q.from, q.cur), q.high)
    IN /\ q.pc = "query"
       /\ round' = [round EXCEPT ![r] = [q EXCEPT !.pc = "write", !.from = 0, !.high = FALSE,
              !.life = [l EXCEPT !.last = q.cur - 1, !.missed = @ \cup LastHour(q.life) + 1 .. q.from - 1]]]
       /\ UNCHANGED <<hour, ran, shadow, life, late, upsets>>

\* FilterLifeUpsert: the row as computed, whatever is there now, and
\* consumable_health with it
Upsert(r) ==
    /\ round[r].pc = "write"
    /\ life' = round[r].life
    /\ round' = [round EXCEPT ![r] = IdleRound]
    /\ UNCHANGED <<hour, ran, shadow, late, upsets>>

\* A failed statement or a crash, before or after the write
Fails(r) ==
    /\ upsets < MaxUpsets /\ upsets' = upsets + 1
    /\ round[r].pc # "idle"
    /\ round' = [round EXCEPT ![r] = IdleRound]
    /\ UNCHANGED <<hour, ran, shadow, life, late>>

Next == Tick \/ Run \/ Upset \/ \E r \in Rounds : RunOnce(r) \/ RunDevice(r) \/ Query(r) \/ Upsert(r) \/ Fails(r)

Spec == Init /\ [][Next]_vars

-----------------------------------------------------------------------------
(* Properties                                                              *)

TypeOK ==
    /\ hour \in Hours /\ ran \subseteq 1 .. hour /\ late \subseteq ran /\ upsets \in 0 .. MaxUpsets
    /\ shadow \in [installed : Hours \cup {NoHour}, high : BOOLEAN]
    /\ life.row \in BOOLEAN /\ life.health \in 0 .. RatedVolume
    /\ \A r \in Rounds : round[r].pc \in {"idle", "device", "query", "write"}

(* However the rounds of two processes overlap, overwrite each other or    *)
(* fail, each hour the filter ran is charged once: what filter_life has up *)
(* to last_hour are the hours since the filter was installed, without      *)
(* those that were made up for too late and, perhaps, those whose frames   *)
(* came after their hour (runDevice, last_hour).                           *)
FilterExact ==
    LET since == {t \in ran : life.start <= t /\ t <= life.last}
    IN life.row =>
         /\ life.run <= Cardinality(since \ life.missed)
         /\ life.run >= Cardinality(since \ (life.missed \cup late))
         /\ life.run <= life.volume /\ life.volume <= 2 * life.run
         /\ life.last < hour
=============================================================================
