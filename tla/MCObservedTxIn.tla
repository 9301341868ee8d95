--------------------------- MODULE MCObservedTxIn ---------------------------
(* Small instances of ObservedTxIn for TLC.                                *)
EXTENDS ObservedTxIn, TLC

CONSTANTS n1, n2, n3, n4, v1

Obs(coins, memo, bh, fh) ==
    [body |-> [coins |-> coins, memo |-> memo], pubkey |-> v1,
     bh |-> bh, fh |-> fh]

(* An inbound seen before it is final, and then final.                     *)
TwoPhase == {Obs(1, "add", 5, 6), Obs(1, "add", 6, 6)}

(* A migration, credited before it is final, and a competing report of it. *)
Migration == {Obs(1, "migrate", 5, 6), Obs(1, "migrate", 6, 6),
              Obs(2, "migrate", 6, 6)}

(* One final tx, reported in two blocks because of a reorganisation.       *)
Reorged == {Obs(1, "withdraw", 6, 6), Obs(1, "withdraw", 7, 7)}

(* Reports that disagree on the memo, each handled in its own way.         *)
Memos == {Obs(1, "bad", 6, 6), Obs(1, "out", 6, 6), Obs(1, "consolidate", 6, 6)}

(* Two final reports that disagree on the memo and the amount.             *)
Disputed == {Obs(1, "swap", 6, 6), Obs(2, "add", 6, 6)}

StableScenarios == {TwoPhase, Reorged, Memos, Disputed}
ChurnScenarios == {Migration, TwoPhase}
DisputedScenario == {Disputed}

Nodes3 == {n1, n2, n3}
Nodes4 == {n1, n2, n3, n4}
Perms3 == Permutations(Nodes3)
Perms4 == Permutations(Nodes4)

AllMemos == {"swap", "add", "withdraw", "migrate", "consolidate", "out", "bad"}
Amounts == 0 .. 4
=============================================================================
