------------------------- MODULE MCSignerPipeline -------------------------
(***************************************************************************)
(* Instances of SignerPipeline for TLC.                                    *)
(***************************************************************************)
EXTENDS SignerPipeline

CONSTANTS v1

OneVault == [i \in Items |-> v1]
=============================================================================
