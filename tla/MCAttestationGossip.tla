------------------------ MODULE MCAttestationGossip ------------------------
(* This validator and two peers, one of which may be churned out.          *)
EXTENDS AttestationGossip, TLC

CONSTANTS me, p1, p2

MCNode == {me, p1, p2}
MCActive == {{me, p1, p2}, {me, p1}}
=============================================================================
