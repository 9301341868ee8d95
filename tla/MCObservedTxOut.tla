-------------------------- MODULE MCObservedTxOut --------------------------
(* Two validators, each the only member of one of two vaults, and an       *)
(* inbound with two outbounds.  Both have to report a payment for a super  *)
(* majority; the one that is not a member is the minority that delays.     *)
EXTENDS ObservedTxOut, TLC

MCMembers == "v1" :> {1} @@ "v2" :> {2}

\* The two actions differ in nothing but their name.
ActionSymmetry == Permutations(Action)
=============================================================================
