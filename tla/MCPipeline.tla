----------------------------- MODULE MCPipeline -----------------------------
(* Instances of Pipeline for TLC. *)
EXTENDS Pipeline, TLC

Tele(seq, attr) == [kind |-> "telemetry", sn |-> "d1", seq |-> seq, ts |-> seq, attr |-> attr]
Other(kind, seq) == [kind |-> kind, sn |-> "d1", seq |-> seq, ts |-> seq, attr |-> 0]

(* Two frames of one device, the second published twice; an event that the
   bridge replayed around a command ack; one message of each other kind.     *)
MCStreams == {<<Tele(1, 7), Tele(2, 0), Tele(2, 0)>>,
              <<Other("event", 1), Other("cmd_ack", 2), Other("event", 1)>>,
              <<Other("poison", 1), Tele(2, 0), Other("ota_progress", 3)>>}
=============================================================================
