---------------------------- MODULE ObservedTxIn ----------------------------
(***************************************************************************)
(* How the chain comes to act on one inbound transaction: validators       *)
(* attest what they saw, alone (MsgObservedTxIn) or gathered in a quorum   *)
(* message that the block proposer injects (MsgObservedTxQuorum), the      *)
(* voter reaches consensus on the discovered and then on the final form,   *)
(* the receiving vault is credited and the memo is carried out; an errata  *)
(* vote may later revert it.  Validators churn while the vote is open.     *)
(* x/switchly/handler_observed_tx_helpers.go, handler_observed_txin.go,    *)
(* handler_observed_tx_quorum.go, handler_errata_tx_helpers.go.            *)
(***************************************************************************)
EXTENDS ObservedTxVoter

CONSTANTS
    Scenarios,      \* the sets of observations validators may make of the tx
    Asgard,         \* the vaults that are of type Asgard
    ObservePoints,  \* constants.ObserveSlashPoints
    LackPenalty,    \* constants.LackOfObservationPenalty
    Flex,           \* constants.ObservationDelayFlexibility, in blocks
    BaseSlash,      \* slash points every node has from elsewhere
    BaseFunds,      \* what every vault holds of the asset at the start
    MinActive,      \* validators a churn leaves active at the least
    MaxHeight,      \* bound: the last block
    MaxMsgs,        \* bound: attestations sent, duplicates included
    MaxChurn,       \* bound: churns of the validator set
    NoMsg           \* no quorum message is being handled

ASSUME InAssumption ==
    /\ IsFiniteSet(Node) /\ Node # {}
    /\ Amount \subseteq Nat
    /\ Scenarios \subseteq SUBSET Observation
    /\ Asgard \subseteq Vault
    /\ {ObservePoints, LackPenalty, Flex, BaseSlash, BaseFunds,
        MinActive, MaxHeight, MaxMsgs, MaxChurn} \subseteq Nat
    /\ MinActive > 0
    /\ NoTx \notin ObservedTx

VARIABLES
    reports,        \* what validators make of this transaction; constant
    voter,          \* the ObservedTxVoter in the store
    active,         \* ListActiveValidators
    now,            \* ctx.BlockHeight()
    slash,          \* node -> slash points
    funds,          \* vault -> amount held
    inactive,       \* the vaults of status InactiveVault
    errata,         \* the ErrataTxVoter: signers and consensus height
    lastObserve,    \* node -> last height it observed on the external chain
    lastChain,      \* last height of the external chain agreed on
    observing,      \* nodes seen observing in this block (ObserverMgr)
    msg,            \* the quorum message being handled, or NoMsg
    effects,        \* history: what was carried out for this transaction
    credits,        \* history: <<vault, amount>> added to a vault
    adjusted,       \* history: times the pool was corrected by an errata
    sent, churns    \* counters for MaxMsgs and MaxChurn

vars == <<reports, voter, active, now, slash, funds, inactive, errata,
          lastObserve, lastChain, observing, msg, effects, credits, adjusted, sent, churns>>

chainVars == <<reports, active, now, inactive, churns>>

Effect == [kind : {"swap", "handled", "refund"}, body : Body]

QuorumMsg == [tx : Observation, left : SUBSET Node, seen : SUBSET Node,
              crossed : BOOLEAN]

TypeOK ==
    /\ reports \in Scenarios
    /\ voter \in Voter
    /\ active \in SUBSET Node /\ active # {}
    /\ now \in Nat
    /\ slash \in [Node -> Nat]
    /\ funds \in [Vault -> Nat]
    /\ inactive \in SUBSET Vault
    /\ errata \in [signers : SUBSET Node, height : Nat]
    /\ lastObserve \in [Node -> Nat] /\ lastChain \in Nat
    /\ observing \in SUBSET Node
    /\ msg \in QuorumMsg \cup {NoMsg}
    /\ effects \in Seq(Effect)
    /\ credits \in Seq(Vault \X Amount)
    /\ adjusted \in Nat /\ sent \in Nat /\ churns \in Nat

NewErrataTxVoter == [signers |-> {}, height |-> 0]

(* A transaction that nobody has reported yet: the keeper has no record of *)
(* it and answers with an empty voter.                                     *)
Init ==
    /\ reports \in Scenarios
    /\ voter = NewVoter
    /\ active \in {S \in SUBSET Node : Cardinality(S) >= MinActive}
    /\ now = 1
    /\ slash = [n \in Node |-> BaseSlash]
    /\ funds = [v \in Vault |-> BaseFunds]
    /\ inactive = {}
    /\ errata = NewErrataTxVoter
    /\ lastObserve = [n \in Node |-> 0] /\ lastChain = 0
    /\ observing = {}
    /\ msg = NoMsg
    /\ effects = << >> /\ credits = << >> /\ adjusted = 0
    /\ sent = 0 /\ churns = 0

-----------------------------------------------------------------------------
(* Slash points: SetNodeAccountSlashPoints does not let them go negative.  *)

(* Mutant: plain subtraction.                                              *)
SafeSubUnchecked(a, b) == a - b

SafeSub(a, b) == IF a > b THEN a - b ELSE 0

IncSlashPoints(s, pts, S) ==
    [n \in Node |-> IF n \in S THEN s[n] + pts ELSE s[n]]

DecSlashPoints(s, pts, S) ==
    [n \in Node |-> IF n \in S THEN SafeSub(s[n], pts) ELSE s[n]]

(* The signer that brings a vote to consensus: all signers get their       *)
(* points back, the active non-signers are charged.                        *)
SettleSlash(s, nas, signers) ==
    IncSlashPoints(DecSlashPoints(s, ObservePoints, signers),
                   LackPenalty, nas \ signers)

-----------------------------------------------------------------------------
(* processTxInAttestation                                                  *)

(* A vote for the agreed tx, at most Flex blocks after height h.           *)
LateVote(v, h, o, n) ==
    /\ now <= h + Flex
    /\ IsFinal(v.Tx.obs) = IsFinal(o)
    /\ EqualsEx(v.Tx.obs, o)
    /\ n \notin v.Tx.signers

(* Mutant: only the points of the vote itself are given back.              *)
AcceptLateForVoteOnly(v, s, n) ==
    [voter |-> [v EXCEPT !.Tx.signers = @ \cup {n}],
     slash |-> DecSlashPoints(s, ObservePoints, {n}),
     ok    |-> FALSE]

AcceptLate(v, s, n) ==
    [voter |-> [v EXCEPT !.Tx.signers = @ \cup {n}],
     slash |-> DecSlashPoints(s, ObservePoints + LackPenalty, {n}),
     ok    |-> FALSE]

(* The voter v has just come to consensus.                                 *)
Settle(v, s, nas) ==
    [voter |-> v, slash |-> SettleSlash(s, nas, GetConsensusSigners(v)),
     ok |-> TRUE]

(* Mutant: a final majority settles the vote anew at every attestation.    *)
TallyInRepeatedly(v, s, nas, o, n) ==
    IF HasFinalised(v, nas)
    THEN Settle([v EXCEPT !.Height = now, !.FinalisedHeight = now,
                          !.Tx = GetTx(v, nas)], s, nas)
    ELSE [voter |-> v, slash |-> s, ok |-> FALSE]

(* The rest of the function once the vote is Added to the voter.           *)
TallyIn(v, s, nas, o, n) ==
    IF HasFinalised(v, nas)
    THEN IF v.FinalisedHeight = 0
         THEN Settle([v EXCEPT !.Height = now, !.FinalisedHeight = now,
                               !.Tx = GetTx(v, nas)], s, nas)
         ELSE IF LateVote(v, v.FinalisedHeight, o, n)
              THEN AcceptLate(v, s, n)
              ELSE [voter |-> v, slash |-> s, ok |-> FALSE]
    ELSE IF HasConsensus(v, nas) /\ ~IsFinal(o) /\ v.FinalisedHeight = 0
    THEN IF v.Height = 0
         THEN Settle([v EXCEPT !.Height = now, !.Tx = GetTx(v, nas)], s, nas)
         ELSE IF LateVote(v, v.Height, o, n)
              THEN AcceptLate(v, s, n)
              ELSE [voter |-> v, slash |-> s, ok |-> FALSE]
    ELSE [voter |-> v, slash |-> s, ok |-> FALSE]

(* Mutant: a duplicate is given points back that it was never charged.     *)
processTxInAttestationLateCharge(v, nas, o, n, slashDuplicate) ==
    IF AlreadySigned(v, o, n)
    THEN [voter |-> v, ok |-> FALSE,
          slash |-> IF slashDuplicate
                    THEN IncSlashPoints(slash, ObservePoints, {n})
                    ELSE DecSlashPoints(slash, ObservePoints, {n})]
    ELSE TallyIn(Add(v, o, n), IncSlashPoints(slash, ObservePoints, {n}),
                 nas, o, n)

processTxInAttestation(v, nas, o, n, slashDuplicate) ==
    LET charged == IncSlashPoints(slash, ObservePoints, {n})
    IN  IF AlreadySigned(v, o, n)
        THEN [voter |-> v, ok |-> FALSE,
              slash |-> IF slashDuplicate THEN charged
                        ELSE DecSlashPoints(charged, ObservePoints, {n})]
        ELSE TallyIn(Add(v, o, n), charged, nas, o, n)

(* SetLastObserveHeight keeps the highest.                                 *)
SeeHeight(o, n) ==
    lastObserve' = [lastObserve EXCEPT ![n] = IF @ > o.bh THEN @ ELSE o.bh]

-----------------------------------------------------------------------------
(* handleObservedTxInQuorum                                                *)

IsInternal(memo) == memo \in {"migrate", "consolidate"}
IsOutbound(memo) == memo = "out"
HasOutbound(memo) == memo \notin {"add", "migrate"}
(* Consolidation is the vault paying itself.                               *)
FromEqualsTo(memo) == memo = "consolidate"

(* Trading is not halted, the handler of the memo's message accepts it or  *)
(* not, or is not asked because the asset is a switch asset, and a refund, *)
(* if one is needed, can be scheduled.  A memo that trading halts do not   *)
(* concern is answered as if there was none.                               *)
Answers == {a \in [trading : BOOLEAN, reply : {"accepted", "failed", "switchAsset"},
                   refundable : BOOLEAN] : ~a.trading => a.reply = "accepted"}

(* Mutant: UpdatedVault is not consulted.                                  *)
CreditDueAlways(v, o) ==
    /\ HasFinalised(v, active) \/ o.body.memo = "migrate"
    /\ o.pubkey \in Asgard

(* The vault is credited once, when the tx is final or a migration.        *)
CreditDue(v, o) ==
    /\ HasFinalised(v, active) \/ o.body.memo = "migrate"
    /\ o.pubkey \in Asgard
    /\ ~v.UpdatedVault

AddFunds(v, o) ==
    IF CreditDue(v, o) /\ ~FromEqualsTo(o.body.memo)
    THEN /\ funds' = [funds EXCEPT ![o.pubkey] = @ + o.body.coins]
         /\ credits' = Append(credits, <<o.pubkey, o.body.coins>>)
    ELSE UNCHANGED <<funds, credits>>

(* The voter as it is saved when consensus is crossed on observation o.    *)
CrossedVoter(v, o) ==
    [v EXCEPT !.Tx.obs.body.memo = o.body.memo,
              !.UpdatedVault = @ \/ CreditDue(v, o)]

(* The memo is carried out only for a final tx to an Asgard vault.         *)
Actionable(v, o) ==
    /\ o.pubkey \in Asgard
    /\ ~IsOutbound(o.body.memo) /\ ~IsInternal(o.body.memo)
    /\ HasFinalised(v, active)

(* Trading halts stop swaps and additions of liquidity.                    *)
Halted(o, answer) == ~answer.trading /\ o.body.memo \in {"swap", "add"}

(* What becomes of the tx.  A refund returns the tx of the message, the    *)
(* handlers act on voter.Tx.                                               *)
Outcome(v, o, answer) ==
    LET refused == o.pubkey \in inactive \/ o.body.memo = "bad" \/ Halted(o, answer)
        failed  == o.body.memo # "swap" /\ answer.reply # "accepted"
    IN  IF refused \/ failed THEN [kind |-> "refund", body |-> o.body]
        ELSE [kind |-> IF o.body.memo = "swap" THEN "swap" ELSE "handled", body |-> v.Tx.obs.body]

(* The refund after a handler's error is the only one whose own failure is *)
(* returned to the caller.                                                 *)
HandlerFailed(o, answer) ==
    /\ o.pubkey \notin inactive
    /\ o.body.memo \notin {"bad", "swap"}
    /\ ~Halted(o, answer)
    /\ answer.reply = "failed"

(* Mutant: the reverted voter is processed like any other.                 *)
SkipNothing(v) == FALSE

(* The early return for a tx that an errata reverted.                      *)
SkipReverted(v) == v.Reverted

handleObservedTxInQuorum(v, o, observers, crossed, answer) ==
    \/ /\ ~crossed
       /\ voter' = v
       /\ observing' = IF now \in {v.Height, v.FinalisedHeight}
                       THEN observing \cup observers ELSE observing
       /\ UNCHANGED <<funds, credits, effects, lastChain>>
    \/ /\ crossed /\ SkipReverted(v)
       /\ voter' = v
       /\ UNCHANGED <<funds, credits, effects, lastChain, observing>>
    \/ /\ crossed /\ ~SkipReverted(v)
       /\ AddFunds(v, o)
       /\ lastChain' = IF lastChain > o.bh THEN lastChain ELSE o.bh
       /\ LET w == CrossedVoter(v, o)
              outcome == Outcome(w, o, answer)
          IN  /\ observing' = IF /\ o.pubkey \in Asgard
                                 /\ ~IsOutbound(o.body.memo)
                                 /\ ~IsInternal(o.body.memo)
                              THEN observing \cup v.Tx.signers ELSE observing
              /\ effects' = IF /\ Actionable(v, o)
                               /\ outcome.kind = "refund" => answer.refundable
                            THEN Append(effects, outcome) ELSE effects
              /\ voter' = IF /\ Actionable(v, o)
                             /\ outcome.kind = "handled"
                             /\ ~HasOutbound(o.body.memo)
                          THEN SetDone(w) ELSE w

-----------------------------------------------------------------------------
(* Handlers                                                                *)

CanSend(k) == msg = NoMsg /\ sent + k <= MaxMsgs

(* MsgObservedTxIn: one attester; a failed refund fails the message, which *)
(* then leaves no trace.                                                   *)
ObservedTxInMsg(n, o, answer) ==
    /\ CanSend(1) /\ n \in active
    /\ LET r == processTxInAttestation(voter, active, o, n, TRUE)
       IN  /\ ~ (/\ r.ok /\ ~SkipReverted(r.voter) /\ Actionable(r.voter, o)
                 /\ HandlerFailed(o, answer) /\ ~answer.refundable)
           /\ slash' = r.slash
           /\ handleObservedTxInQuorum(r.voter, o,
                 IF r.voter.Tx = NoTx THEN {} ELSE r.voter.Tx.signers,
                 r.ok, answer)
    /\ SeeHeight(o, n)
    /\ sent' = sent + 1
    /\ UNCHANGED <<chainVars, errata, msg, adjusted>>

(* MsgObservedTxQuorum carries attestations of one observation.  The loop  *)
(* over them takes them one at a time, in the order of the message; no     *)
(* other handler runs until the message is done.                           *)
QuorumBegin(o, S) ==
    /\ CanSend(Cardinality(S))
    /\ msg' = [tx |-> o, left |-> S, seen |-> {}, crossed |-> FALSE]
    /\ sent' = sent + Cardinality(S)
    /\ UNCHANGED <<chainVars, voter, slash, funds, errata, lastObserve,
                   lastChain, observing, effects, credits, adjusted>>

(* An attester that is no longer active is skipped by                      *)
(* verifyQuorumAttestation.                                                *)
QuorumAttest(n) ==
    /\ msg # NoMsg /\ n \in msg.left
    /\ IF n \in active
       THEN LET r == processTxInAttestation(voter, active, msg.tx, n, FALSE)
            IN  /\ voter' = r.voter
                /\ slash' = r.slash
                /\ msg' = [msg EXCEPT !.left = @ \ {n}, !.seen = @ \cup {n},
                                      !.crossed = @ \/ r.ok]
                /\ SeeHeight(msg.tx, n)
       ELSE /\ msg' = [msg EXCEPT !.left = @ \ {n}]
            /\ UNCHANGED <<voter, slash, lastObserve>>
    /\ UNCHANGED <<chainVars, funds, errata, lastChain, observing, effects,
                   credits, adjusted, sent>>

QuorumEnd(answer) ==
    /\ msg # NoMsg /\ msg.left = {}
    /\ handleObservedTxInQuorum(voter, msg.tx, msg.seen, msg.crossed, answer)
    /\ msg' = NoMsg
    /\ UNCHANGED <<chainVars, slash, errata, lastObserve, adjusted, sent>>

-----------------------------------------------------------------------------
(* Errata: a super majority says the transaction is gone from its chain.   *)

(* processErrataTxAttestation up to the point where consensus is reached.  *)
ErrataVote(n, slashDuplicate) ==
    LET signers == errata.signers \cup {n}
        agreed  == HasSuperMajority(Cardinality(signers \cap active),
                                    Cardinality(active))
    IN  /\ \/ n \in errata.signers
           \/ ~agreed
           \/ errata.height > 0
        /\ errata' = [errata EXCEPT !.signers = signers]
        /\ slash' = IF n \in errata.signers
                    THEN IF slashDuplicate
                         THEN IncSlashPoints(slash, ObservePoints, {n}) ELSE slash
                    ELSE IF ~agreed THEN IncSlashPoints(slash, ObservePoints, {n})
                    ELSE IF now <= errata.height + Flex
                    THEN DecSlashPoints(slash, LackPenalty, {n})
                    ELSE slash
        /\ UNCHANGED <<voter, funds, inactive, adjusted>>

(* Mutant: an agreed tx is debited whether or not it was credited.         *)
ErrataDebitAlways(v, f) ==
    IF v.Tx = NoTx THEN f
    ELSE [f EXCEPT ![v.Tx.obs.pubkey] = SafeSub(@, v.Tx.obs.body.coins)]

(* The funds after what the tx brought is taken from its vault.            *)
ErrataDebit(v, f) ==
    IF v.Tx = NoTx \/ ~v.UpdatedVault THEN f
    ELSE [f EXCEPT ![v.Tx.obs.pubkey] = SafeSub(@, v.Tx.obs.body.coins)]

(* The attestation that brings the errata to consensus.  outFound: the     *)
(* outbound voter of this TxID, which an internal transfer also has, is    *)
(* known and agreed; without it the function fails, and with it a lone     *)
(* message leaves no trace while a quorum message keeps what was done.     *)
(* Of the outbound leg only a consolidation touches the vaults here: its   *)
(* vault gets the coins back and, if it had retired, retires once more.    *)
ErrataRevert(n, slashDuplicate, outFound) ==
    LET signers == errata.signers \cup {n}
        known   == Len(voter.Txs) > 0
        tx      == voter.Tx
        outLeg  == ~known \/ (tx # NoTx /\ IsFinal(tx.obs)
                              /\ IsInternal(tx.obs.body.memo))
        fails   == outLeg /\ ~outFound
        debit   == ErrataDebit(voter, funds)
        toSelf  == /\ known /\ outLeg /\ outFound
                   /\ FromEqualsTo(tx.obs.body.memo) /\ tx.obs.pubkey \in Asgard
    IN  /\ n \notin errata.signers
        /\ HasSuperMajority(Cardinality(signers \cap active),
                            Cardinality(active))
        /\ errata.height = 0
        /\ fails => ~slashDuplicate
        /\ errata' = [signers |-> signers, height |-> now]
        /\ slash' = SettleSlash(IncSlashPoints(slash, ObservePoints, {n}),
                                active, signers)
        /\ voter' = IF known THEN SetReverted(voter) ELSE voter
        /\ funds' = IF toSelf
                    THEN [debit EXCEPT ![tx.obs.pubkey] = @ + tx.obs.body.coins]
                    ELSE debit
        /\ inactive' = IF toSelf THEN inactive \ {tx.obs.pubkey} ELSE inactive
        /\ adjusted' = IF /\ known /\ tx # NoTx /\ IsFinal(tx.obs)
                          /\ tx.obs.body.memo \in {"swap", "add"}
                       THEN adjusted + 1 ELSE adjusted

ErrataTx(n, slashDuplicate, outFound) ==
    /\ CanSend(1) /\ n \in active
    /\ \/ ErrataVote(n, slashDuplicate)
       \/ ErrataRevert(n, slashDuplicate, outFound)
    /\ sent' = sent + 1
    /\ UNCHANGED <<reports, active, now, churns, lastObserve, lastChain, observing,
                   msg, effects, credits>>

-----------------------------------------------------------------------------
(* The chain around the vote                                               *)

(* ObserverMgr forgets the observers of a block when the next one begins.  *)
NextBlock ==
    /\ msg = NoMsg /\ now < MaxHeight
    /\ now' = now + 1
    /\ observing' = {}
    /\ UNCHANGED <<reports, voter, active, slash, funds, inactive, errata, lastObserve,
                   lastChain, msg, effects, credits, adjusted, sent, churns>>

(* ValidatorMgr: the validators change between blocks, those of the active *)
(* vaults' members that were not active join with no slash points.         *)
Churn(S) ==
    /\ msg = NoMsg /\ churns < MaxChurn
    /\ S # active /\ Cardinality(S) >= MinActive
    /\ active' = S
    /\ slash' = [n \in Node |-> IF n \in S \ active THEN 0 ELSE slash[n]]
    /\ churns' = churns + 1
    /\ UNCHANGED <<reports, voter, now, funds, inactive, errata, lastObserve,
                   lastChain, observing, msg, effects, credits, adjusted, sent>>

(* NetworkMgr: a retiring vault that ran empty becomes inactive.  What it  *)
(* paid out, of this asset and of others, is not counted here.             *)
VaultInactive(v) ==
    /\ msg = NoMsg /\ churns < MaxChurn
    /\ v \notin inactive
    /\ inactive' = inactive \cup {v}
    /\ churns' = churns + 1
    /\ UNCHANGED <<reports, voter, active, now, slash, funds, errata, lastObserve,
                   lastChain, observing, msg, effects, credits, adjusted, sent>>

Next ==
    \/ \E n \in Node, o \in reports, a \in Answers : ObservedTxInMsg(n, o, a)
    \/ \E o \in reports, S \in SUBSET Node \ {{}} : QuorumBegin(o, S)
    \/ \E n \in Node : QuorumAttest(n)
    \/ \E a \in Answers : QuorumEnd(a)
    \/ \E n \in Node, d, f \in BOOLEAN : ErrataTx(n, d, f)
    \/ NextBlock
    \/ \E S \in SUBSET Node : Churn(S)
    \/ \E v \in Vault : VaultInactive(v)

Spec == Init /\ [][Next]_vars

-----------------------------------------------------------------------------
(* Properties                                                              *)

(* However many attestations, duplicates, late votes, churns and quorum    *)
(* messages there are, the memo is carried out (or refunded) once at most, *)
(* the vault is credited once at most, even though a migration is credited *)
(* before it is final, and the pool is corrected once at most.             *)
AtMostOnce ==
    /\ Len(effects) <= 1
    /\ Len(credits) <= 1
    /\ adjusted <= 1

(* The observations agree in all that handleObservedTxInQuorum does not    *)
(* overwrite.                                                              *)
SameButMemo(o1, o2) ==
    /\ o1.body.coins = o2.body.coins
    /\ o1.pubkey = o2.pubkey /\ o1.bh = o2.bh /\ o1.fh = o2.fh

TwoThirds(S, T) == 3 * Cardinality(S \cap T) >= 2 * Cardinality(T)

(* A tx is declared final only if two thirds of the validators active at   *)
(* that moment attested it, in final form and with one and the same body.  *)
FinalisedByMajority ==
    [][voter'.FinalisedHeight # voter.FinalisedHeight =>
        \E j \in DOMAIN voter'.Txs :
            /\ SameButMemo(voter'.Txs[j].obs, voter'.Tx.obs)
            /\ TwoThirds({n \in Node : \E i \in DOMAIN voter'.Txs :
                            /\ voter'.Txs[i].obs.body = voter'.Txs[j].obs.body
                            /\ voter'.Txs[i].obs.bh = voter'.Txs[i].obs.fh
                            /\ n \in voter'.Txs[i].signers}, active)]_vars

(* Once final, neither a later majority for other observations nor a churn *)
(* nor an errata replaces the tx or moves its heights; only signers join.  *)
FinalTxStable ==
    [][voter.FinalisedHeight # 0 =>
        /\ voter'.Height = voter.Height
        /\ voter'.FinalisedHeight = voter.FinalisedHeight
        /\ SameButMemo(voter'.Tx.obs, voter.Tx.obs)
        /\ voter.Tx.signers \subseteq voter'.Tx.signers]_vars

(* A reverted tx has no effect any more: an attestation that crosses       *)
(* consensus after the errata moves no funds and runs no handler.          *)
RevertedIsInert ==
    [][voter.Reverted => UNCHANGED <<effects, credits, adjusted, funds>>]_vars

(* Reverting takes back exactly what was credited, from the vault that was *)
(* credited.  Not so for a vault's payment to itself, which is debited     *)
(* without having been credited.                                           *)
ErrataRestoresFunds ==
    voter.Reverted =>
        \/ \A v \in Vault : funds[v] = BaseFunds
        \/ voter.Tx # NoTx /\ FromEqualsTo(voter.Tx.obs.body.memo)

(* "enough identical observations": the coins a vault is credited with and *)
(* the tx a handler or a refund acts on have been attested, as they are,   *)
(* by two thirds of the active validators.                                 *)
Attested(v, b) ==
    TwoThirds({n \in Node : \E i \in DOMAIN v.Txs :
                  v.Txs[i].obs.body = b /\ n \in v.Txs[i].signers}, active)

ActsOnAttestedTx ==
    [][/\ effects' # effects => Attested(voter', effects'[Len(effects')].body)
       /\ credits' # credits =>
            \E j \in DOMAIN voter'.Txs :
                /\ voter'.Txs[j].obs.body.coins = credits'[Len(credits')][2]
                /\ Attested(voter', voter'.Txs[j].obs.body)]_vars

(* A node signed two observations of the same tx and finality, as it does  *)
(* when a reorganisation moves the tx to another block.                    *)
SignedVariants(n) ==
    \E i, j \in DOMAIN voter.Txs :
        /\ i # j /\ n \in voter.Txs[i].signers \cap voter.Txs[j].signers
        /\ EqualsEx(voter.Txs[i].obs, voter.Txs[j].obs)
        /\ IsFinal(voter.Txs[i].obs) = IsFinal(voter.Txs[j].obs)

(* "Track already-decremented slash points with the consensus Tx's Signers *)
(* list": attesting this tx never lowers a node's slash points below what  *)
(* it had before.                                                          *)
DecrementedOnce == \A n \in Node : slash[n] >= BaseSlash

(* The same for every node that did not sign variants of one observation.  *)
DecrementedOnceUnlessVariants ==
    \A n \in Node : SignedVariants(n) \/ slash[n] >= BaseSlash

(* As long as only final observations are made and nobody churns, the      *)
(* lack-of-observation penalty follows the votes: after consensus every    *)
(* validator that never attested the agreed tx has it, and one whose vote  *)
(* counted, however late or often it was sent, has been charged for its    *)
(* messages at the most.                                                   *)
OwesLackPenalty(n) == slash[n] >= BaseSlash + LackPenalty

LackPenaltyMatchesVotes ==
    /\ voter.FinalisedHeight # 0
    /\ errata.signers = {} /\ churns = 0
    /\ \A i \in DOMAIN voter.Txs : IsFinal(voter.Txs[i].obs)
    =>
        \A n \in active :
            /\ n \in voter.Tx.signers => slash[n] <= BaseSlash + ObservePoints * sent
            /\ n \notin GetConsensusSigners(voter) => OwesLackPenalty(n)
=============================================================================
