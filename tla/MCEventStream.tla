--------------------------- MODULE MCEventStream ---------------------------
(* Two clients, two kinds of event, two broadcasts. *)
EXTENDS EventStream, TLC

CONSTANTS c1, c2, e1, e2, b1, b2

MCClient == {c1, c2}
MCEventType == {e1, e2}
MCBroadcast == {b1, b2}
=============================================================================
