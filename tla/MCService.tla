----------------------------- MODULE MCService ------------------------------
(* Service with the delays of the two units and systemd's defaults, with   *)
(* the default heartbeat of half a minute and one of two minutes.          *)
EXTENDS Service

MCHeartbeats == {6, 24}

MCRestartDelay == [u \in Units |-> IF u = "gateway" THEN 1 ELSE 2]
=============================================================================
