--------------------------- MODULE ObservedTxVoter ---------------------------
(***************************************************************************)
(* The vote that the validators hold on one external transaction:          *)
(* x/switchly/types/type_observed_tx.go, with the ObservedTx it collects   *)
(* (common/type_observed_tx.go) and the thresholds of types/types.go.      *)
(*                                                                         *)
(* An observation is what one validator reports of the transaction.        *)
(*    body     what common.Tx.EqualsEx compares (coins, memo, addresses)   *)
(*    pubkey   ObservedPubKey, the vault that sent or received it          *)
(*    bh, fh   BlockHeight and FinaliseHeight on the external chain        *)
(* An ObservedTx is an observation with its Signers and its Status.  Only  *)
(* the order of Signers is abstracted away: it is a set.                   *)
(***************************************************************************)
EXTENDS Integers, FiniteSets, Sequences

CONSTANTS
    Node,           \* accounts that are, were or may become validators
    Vault,          \* public keys of the vaults
    Amount,         \* coin amounts
    Memo,           \* memos, each a string that names its type
    NoTx            \* the empty ObservedTx

Body == [coins : Amount, memo : Memo]

Observation == [body : Body, pubkey : Vault, bh : Nat, fh : Nat]

Status == {"incomplete", "done", "reverted"}

(* common.ObservedTx                                                       *)
ObservedTx == [obs : Observation, signers : SUBSET Node, status : Status]

(* The ObservedTxVoter record of the key-value store, without the fields   *)
(* that belong to the outbounds of the transaction (Actions, OutTxs).      *)
Voter == [Txs : Seq(ObservedTx), Tx : ObservedTx \cup {NoTx},
          Height : Nat, FinalisedHeight : Nat,
          UpdatedVault : BOOLEAN, Reverted : BOOLEAN]

NewVoter == [Txs |-> << >>, Tx |-> NoTx, Height |-> 0, FinalisedHeight |-> 0,
             UpdatedVault |-> FALSE, Reverted |-> FALSE]

-----------------------------------------------------------------------------
(* Thresholds                                                              *)

CeilDiv(a, b) == a \div b + IF a % b > 0 THEN 1 ELSE 0

HasSuperMajority(signers, total) ==
    /\ signers <= total
    /\ signers > 0
    /\ signers >= CeilDiv(total * 2, 3)

-----------------------------------------------------------------------------
(* ObservedTx                                                              *)

IsFinal(o) == o.fh = o.bh

EqualsEx(o1, o2) == o1.body = o2.body

(* Index of the entry of Txs that Equals the observation, 0 if none.       *)
VotedIdx(v, o) ==
    IF \E i \in DOMAIN v.Txs : v.Txs[i].obs = o
    THEN CHOOSE i \in DOMAIN v.Txs : v.Txs[i].obs = o
    ELSE 0

-----------------------------------------------------------------------------
(* ObservedTxVoter                                                         *)

(* A signer is refused only on the very observation it signed before.      *)
AlreadySigned(v, o, n) ==
    \E i \in DOMAIN v.Txs : v.Txs[i].obs = o /\ n \in v.Txs[i].signers

(* Add, for a signer that is not AlreadySigned.                            *)
Add(v, o, n) ==
    LET i == VotedIdx(v, o)
    IN  IF i # 0
        THEN [v EXCEPT !.Txs[i].signers = @ \cup {n}]
        ELSE [v EXCEPT !.Txs = Append(@, [obs |-> o, signers |-> {n},
                                          status |-> "incomplete"])]

(* Mutant: the bodies of the observations are not compared.                *)
ClassSignersAnyBody(v, o, final) ==
    {n \in Node : \E i \in DOMAIN v.Txs :
        IsFinal(v.Txs[i].obs) = final /\ n \in v.Txs[i].signers}

(* Everyone who signed an observation EqualsEx to o, of the given finality *)
ClassSigners(v, o, final) ==
    {n \in Node : \E i \in DOMAIN v.Txs :
        /\ IsFinal(v.Txs[i].obs) = final
        /\ EqualsEx(v.Txs[i].obs, o)
        /\ n \in v.Txs[i].signers}

(* Mutant: signers that are no longer validators still count.              *)
HasClassMajorityOfAnyone(v, nas, final, i) ==
    /\ IsFinal(v.Txs[i].obs) = final
    /\ HasSuperMajority(Cardinality(ClassSigners(v, v.Txs[i].obs, final)),
                        Cardinality(nas))

(* Entry i has the finality asked for and its class a super majority.      *)
HasClassMajority(v, nas, final, i) ==
    /\ IsFinal(v.Txs[i].obs) = final
    /\ HasSuperMajority(Cardinality(ClassSigners(v, v.Txs[i].obs, final) \cap nas),
                        Cardinality(nas))

(* The first such entry, as the loop over Txs returns it.                  *)
getConsensusTx(v, nas, final) ==
    LET good  == {i \in DOMAIN v.Txs : HasClassMajority(v, nas, final, i)}
        first == {i \in good : \A j \in good : i <= j}
    IN  IF first = {} THEN NoTx ELSE v.Txs[CHOOSE i \in first : TRUE]

GetTx(v, nas) ==
    LET finalTx    == getConsensusTx(v, nas, TRUE)
        discoverTx == getConsensusTx(v, nas, FALSE)
    IN  IF v.Tx # NoTx /\ IsFinal(v.Tx.obs) THEN v.Tx
        ELSE IF finalTx # NoTx THEN finalTx
        ELSE IF discoverTx # NoTx THEN discoverTx
        ELSE v.Tx

HasConsensus(v, nas) == GetTx(v, nas) # NoTx

HasFinalised(v, nas) ==
    /\ GetTx(v, nas) # NoTx
    /\ IsFinal(GetTx(v, nas).obs)

GetConsensusSigners(v) ==
    IF v.Tx = NoTx THEN {}
    ELSE ClassSigners(v, v.Tx.obs, IsFinal(v.Tx.obs))

(* setStatus ranges over copies of Txs: only Tx itself changes.            *)
setStatus(v, s) ==
    IF v.Tx = NoTx THEN v ELSE [v EXCEPT !.Tx.status = s]

SetReverted(v) == [setStatus(v, "reverted") EXCEPT !.Reverted = TRUE]

SetDone(v) == setStatus(v, "done")
=============================================================================
