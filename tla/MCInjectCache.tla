---------------------------- MODULE MCInjectCache ----------------------------
(* Two senders; two observations of one transaction (as it was discovered   *)
(* and as it was finalised) or of two, as the configuration says.           *)
EXTENDS InjectCache, TLC

CONSTANTS s1, s2, i1, i2, a1, a2, x1

MCSender == {s1, s2}
MCItem == {i1, i2}
MCAttestation == {a1, a2}
MCTxIDs == {x1}
MCTxOf == [i \in MCItem |-> x1]
MCSendInputs == {<<i1, {a1}>>, <<i1, {a1, a2}>>, <<i2, {a2}>>}
MCBlockInputs == {<<i1, {a1}>>, <<i1, {a1, a2}>>}
=============================================================================
