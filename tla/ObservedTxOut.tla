---------------------------- MODULE ObservedTxOut ----------------------------
(***************************************************************************)
(* The outbounds of one inbound transaction, from the outbound queue to    *)
(* the vault's books (x/switchly: handler_observed_tx_helpers,             *)
(* handler_common_outbound, manager_slasher_current, types of the voters). *)
(*                                                                         *)
(* Each action the inbound led to is an item of the TxOut record of some   *)
(* height, assigned to a vault.  The vault's members sign it and broadcast *)
(* it some time or never; validators report the payment; the report that   *)
(* makes a super majority closes the item it matches, or slashes the       *)
(* vault, and debits the vault.  At the end of every block LackSigning     *)
(* gives what was not paid for SigningTransactionPeriod blocks to another  *)
(* vault, or drops it.  The asset's pool may be removed meanwhile, and the *)
(* processing of a payment may fail: the chain then passes it over.        *)
(*                                                                         *)
(* The actions pay one unit of one asset each, to different addresses; gas *)
(* is not counted.  Slash points of observers are ObservedTxIn's subject.  *)
(***************************************************************************)
EXTENDS Integers, FiniteSets, Sequences

CONSTANTS
    Node,                       \* active validators
    Vault,                      \* Asgard vaults
    Members,                    \* Members[v]: the nodes that hold shares of v
    Action,                     \* voter.Actions of the inbound
    NoAction,                   \* of a payment whose memo names no inbound
    StartHeight,                \* FinalisedHeight of the inbound's voter
    SigningTransactionPeriod,
    RescheduleCoalesceBlocks,
    MaxOutboundAttempts,        \* 0: no limit
    PoolCycle,                  \* blocks between two looks at the pools
    Funds,                      \* what each vault holds at first
    Faulty,                     \* bound: the vaults that may retire or be frozen
    MaxPayments, MaxFaults,     \* bounds: payments broadcast; faults and retirements
    MaxTxHeight, MaxHeight      \* bounds: blocks with transactions, blocks

ASSUME OutAssumption ==
    /\ IsFiniteSet(Node) /\ IsFiniteSet(Vault) /\ IsFiniteSet(Action)
    /\ Members \in [Vault -> SUBSET Node]
    /\ NoAction \notin Action /\ Faulty \subseteq Vault
    /\ {StartHeight, SigningTransactionPeriod, PoolCycle} \subseteq Nat \ {0}
    /\ {RescheduleCoalesceBlocks, MaxOutboundAttempts, Funds} \subseteq Nat
    /\ {MaxPayments, MaxFaults, MaxTxHeight, MaxHeight} \subseteq Nat

\* An external transaction, by its id: the k-th that vault v pays action a with.
\* Nothing keeps a vault's signers from paying an action twice.
Payment == [a : Action \cup {NoAction}, v : Vault, k : 1 .. MaxPayments]

\* OutHash is empty, or BlankTxID: no payment.
Open == [hash |-> "empty"]
Blank == [hash |-> "blank"]

Item == [h : Nat, a : Action, v : Vault, out : {Open, Blank} \cup Payment]

Status == {"Active", "Retiring", "Inactive"}

\* The ObservedTxVoter of an outbound: the signers of its observations.
\* Of Height and FinalisedHeight only whether they are set is ever asked.
Voter == [seen : SUBSET Node, final : SUBSET Node, Height : BOOLEAN, FinalisedHeight : BOOLEAN]

VARIABLES
    height,     \* the block being processed
    todo,       \* at its end: items that LackSigning has still to look at
    txOut,      \* the items of all TxOut records
    links,      \* GetObservedLink of the inbound: payments reported, in order
    voters,     \* payment -> its ObservedTxOutVoter
    outTxs,     \* OutTxs of the inbound's voter
    vaults,     \* vault -> its record
    sent,       \* payments on the external chain
    slashed,    \* payments a vault was slashed for
    passed,     \* history: payments with consensus that the books passed over
    pool,       \* PoolExist of the asset
    faults      \* bounded by MaxFaults

outVars == <<height, todo, txOut, links, voters, outTxs, vaults, sent, slashed, passed, pool, faults>>

OutTypeOK ==
    /\ height \in Nat
    /\ todo \subseteq Item /\ txOut \subseteq Item
    /\ voters \in [Payment -> Voter]
    /\ links \in Seq(Payment) /\ outTxs \in Seq(Payment)
    /\ vaults \in [Vault -> [funds : Nat, status : Status, frozen : BOOLEAN]]
    /\ sent \subseteq Payment /\ slashed \subseteq Payment /\ passed \subseteq Payment
    /\ pool \in BOOLEAN /\ faults \in Nat

OutInit ==
    /\ height = StartHeight
    /\ todo = {}
    /\ \E assigned \in [Action -> Vault] :
         txOut = {[h |-> StartHeight, a |-> a, v |-> assigned[a], out |-> Open] : a \in Action}
    /\ links = << >> /\ outTxs = << >>
    /\ voters = [p \in Payment |-> [seen |-> {}, final |-> {}, Height |-> FALSE, FinalisedHeight |-> FALSE]]
    /\ vaults = [v \in Vault |-> [funds |-> Funds, status |-> "Active", frozen |-> FALSE]]
    /\ sent = {} /\ slashed = {} /\ passed = {}
    /\ pool = TRUE /\ faults = 0

HasSuperMajority(signers, total) ==
    /\ signers <= total
    /\ signers > 0
    /\ 3 * signers >= 2 * total

Listed(s, x) == \E i \in 1 .. Len(s) : s[i] = x

\* Mutant: down to the multiple before.
RoundDown(h) ==
    IF RescheduleCoalesceBlocks > 1 THEN h - (h % RescheduleCoalesceBlocks) ELSE h

\* The first height from h on at which items are rescheduled.
RoundUp(h) ==
    IF RescheduleCoalesceBlocks > 1 /\ h % RescheduleCoalesceBlocks # 0
    THEN h + RescheduleCoalesceBlocks - (h % RescheduleCoalesceBlocks)
    ELSE h

-----------------------------------------------------------------------------
(* The outside world *)

\* The transactions of a block are being processed.
InBlock == todo = {} /\ height <= MaxTxHeight

Fault == faults < MaxFaults /\ faults' = faults + 1

\* The members of a vault broadcast a payment of an item that they were given,
\* however long ago and whether or not they paid it before; or one that nobody
\* asked for.
Pay(p) ==
    /\ InBlock
    /\ Cardinality(sent) < MaxPayments
    /\ p \notin sent /\ p.k = 1 + Cardinality({q \in sent : q.a = p.a /\ q.v = p.v})
    /\ Cardinality({q \in sent : q.v = p.v}) < Funds
    /\ p.a \in Action => \E i \in txOut : i.a = p.a /\ i.v = p.v /\ i.h <= height
    /\ sent' = sent \cup {p}
    /\ UNCHANGED <<height, todo, txOut, links, voters, outTxs, vaults, slashed, passed, pool, faults>>

\* RotateVault: a churn has made other vaults active.
Retire(v) ==
    /\ InBlock /\ Fault
    /\ vaults[v].status = "Active"
    /\ \E w \in Vault \ {v} : vaults[w].status = "Active"
    /\ vaults' = [vaults EXCEPT ![v].status = "Retiring"]
    /\ UNCHANGED <<height, todo, txOut, links, voters, outTxs, sent, slashed, passed, pool>>

\* Validators reported a failed keysign (handler_tss_keysign).
Freeze(v) ==
    /\ InBlock /\ Fault
    /\ ~vaults[v].frozen
    /\ vaults' = [vaults EXCEPT ![v].frozen = TRUE]
    /\ UNCHANGED <<height, todo, txOut, links, voters, outTxs, sent, slashed, passed, pool>>

-----------------------------------------------------------------------------
(* A payment is reported *)

\* The open items that the payment p settles: of the inbound, for its recipient,
\* from its vault, within the signing period.
Matching(p) ==
    {i \in txOut :
        /\ i.a = p.a /\ i.v = p.v /\ i.out = Open
        /\ i.h <= RoundUp(height)
        /\ i.h >= height - SigningTransactionPeriod /\ i.h >= StartHeight}

\* voter.AddOutTx of the inbound: every payment that matches some action counts.
AddOutTx(p) == IF p.a \notin Action \/ Listed(outTxs, p) THEN outTxs ELSE Append(outTxs, p)

\* SlashVault: nobody pays for an asset without a pool, or one that the vault does
\* not hold by its books.
Slash(p) == slashed' = IF pool /\ vaults[p.v].funds > 0 THEN slashed \cup {p} ELSE slashed

\* Mutant: the record with the hash is not saved.
handleUnsaved(p) ==
    /\ outTxs' = AddOutTx(p)
    /\ IF Matching(p) = {} THEN Slash(p) ELSE UNCHANGED slashed
    /\ UNCHANGED txOut

\* CommonOutboundTxHandler.handle: the latest item that matches gets the hash;
\* without one the vault is slashed.
handle(p) ==
    /\ outTxs' = AddOutTx(p)
    /\ IF Matching(p) = {}
       THEN Slash(p) /\ UNCHANGED txOut
       ELSE LET i == CHOOSE i \in Matching(p) : \A j \in Matching(p) : j.h <= i.h
            IN  /\ txOut' = (txOut \ {i}) \cup {[i EXCEPT !.out = p]}
                /\ UNCHANGED slashed

\* Mutant: a plain subtraction of the coins and of the gas, which was debited.
DebitWithGas(v) ==
    vaults' = [vaults EXCEPT
        ![v].funds = @ - 2,
        ![v].status = IF vaults[v].funds <= 2 /\ @ = "Retiring" THEN "Inactive" ELSE @,
        ![v].frozen = FALSE]

\* SubFunds, and the end of a retiring vault; it signed, so it thaws.
Debit(v) ==
    LET f == IF vaults[v].funds > 0 THEN vaults[v].funds - 1 ELSE 0
    IN  vaults' = [vaults EXCEPT
            ![v].funds = f,
            ![v].status = IF f = 0 /\ @ = "Retiring" THEN "Inactive" ELSE @,
            ![v].frozen = FALSE]

\* Without a pool there is neither a slash nor anything to debit.
PassedOver(p) == passed' = IF pool THEN passed ELSE passed \cup {p}

\* Mutant: a payment nobody asked for is debited, and goes unpunished.
quorumUnpunished(p) ==
    /\ IF p.a \in Action
       THEN handle(p) /\ Debit(p.v)
       ELSE /\ vaults' = [vaults EXCEPT ![p.v].funds = IF @ > 0 THEN @ - 1 ELSE 0]
            /\ UNCHANGED <<txOut, outTxs, slashed>>
    /\ PassedOver(p)
    /\ UNCHANGED faults

\* handleObservedTxOutQuorum once the payment has consensus.  A memo that names
\* no outbound: the vault is slashed and debited, nothing else.
quorum(p) ==
    /\ IF p.a \in Action
       THEN handle(p) /\ Debit(p.v)
       ELSE /\ Slash(p)
            /\ vaults' = [vaults EXCEPT ![p.v].funds = IF @ > 0 THEN @ - 1 ELSE 0]
            /\ UNCHANGED <<txOut, outTxs>>
    /\ PassedOver(p)
    /\ UNCHANGED faults

\* Its early returns: the observed transaction, its gas or the handler's message is
\* refused, before or after the handler has added the payment to OutTxs.  The
\* voter's Height is set, so no later report brings the payment back.
quorumFails(p) ==
    /\ p.a \in Action /\ Fault
    /\ outTxs' \in {outTxs, AddOutTx(p)}
    /\ passed' = passed \cup {p}
    /\ UNCHANGED <<txOut, vaults, slashed>>

\* processTxOutAttestation: the voter after n's report, which is not a duplicate.
\* Height is that of the report that brings the first consensus.
Attested(vt, n, final) ==
    LET s  == IF final THEN vt.seen ELSE vt.seen \cup {n}
        f  == IF final THEN vt.final \cup {n} ELSE vt.final
        HasFinalised == HasSuperMajority(Cardinality(f), Cardinality(Node))
        HasConsensus == HasFinalised \/ HasSuperMajority(Cardinality(s), Cardinality(Node))
        now == HasFinalised \/ (HasConsensus /\ ~final)
    IN  [seen |-> s, final |-> f,
         Height |-> vt.Height \/ now,
         FinalisedHeight |-> vt.FinalisedHeight \/ HasFinalised]

\* Mutant: the payment is processed when it is seen, and when it is final.
ObserveTxOutTwice(n, p, final) ==
    /\ InBlock
    /\ p \in sent
    /\ n \notin (IF final THEN voters[p].final ELSE voters[p].seen)
    /\ voters' = [voters EXCEPT ![p] = Attested(@, n, final)]
    /\ links' = IF p.a \notin Action \/ Listed(links, p) THEN links ELSE Append(links, p)
    /\ IF \/ ~voters[p].Height /\ voters'[p].Height
          \/ ~voters[p].FinalisedHeight /\ voters'[p].FinalisedHeight
       THEN quorum(p) \/ quorumFails(p)
       ELSE UNCHANGED <<txOut, outTxs, vaults, slashed, passed, faults>>
    /\ UNCHANGED <<height, todo, sent, pool>>

\* Node n reports the payment p, seen in a block or final.
ObserveTxOut(n, p, final) ==
    /\ InBlock
    /\ p \in sent
    /\ n \notin (IF final THEN voters[p].final ELSE voters[p].seen)
    /\ voters' = [voters EXCEPT ![p] = Attested(@, n, final)]
    /\ links' = IF p.a \notin Action \/ Listed(links, p) THEN links ELSE Append(links, p)
    /\ IF ~voters[p].Height /\ voters'[p].Height
       THEN quorum(p) \/ quorumFails(p)
       ELSE UNCHANGED <<txOut, outTxs, vaults, slashed, passed, faults>>
    /\ UNCHANGED <<height, todo, sent, pool>>

-----------------------------------------------------------------------------
(* LackSigning *)

Signers(p) == voters[p].seen \cup voters[p].final

\* The reports of payments from i's vault that are not final yet, in order.
Unfinalised(i) ==
    SelectSeq(links, LAMBDA p : ~voters[p].FinalisedHeight /\ p.v = i.v)

needsNewVault(i) ==
    Unfinalised(i) # << >> =>
        LET signers == Signers(Unfinalised(i)[1])
        IN  /\ ~HasSuperMajority(Cardinality(signers \cap Members[i.v]), Cardinality(Members[i.v]))
            /\ StartHeight + (Cardinality(signers) + 1) * SigningTransactionPeriod < height

TooManyAttempts ==
    /\ MaxOutboundAttempts > 0
    /\ (height - StartHeight) \div SigningTransactionPeriod >= MaxOutboundAttempts

\* What v could pay with if it did not have to pay i.  The record that is walked
\* is saved at the end: what was rescheduled from it still counts as pending.
Available(v, i) ==
    LET pending == {j \in txOut : /\ j.v = v /\ j.out \in {Open, Blank}
                                 /\ j.h >= height - SigningTransactionPeriod}
        free    == vaults[v].funds - Cardinality(pending)
    IN  (IF free > 0 THEN free ELSE 0) + (IF v = i.v THEN 1 ELSE 0)

\* The vaults that i may be given to: another one that has the funds, if any has;
\* else the one with the most.
NewVaults(i) ==
    LET active    == {v \in Vault : vaults[v].status = "Active"}
        available == {v \in active : Available(v, i) >= 1}
    IN  IF active = {} THEN {i.v}
        ELSE IF available = {} THEN {v \in active : \A w \in active : Available(w, i) <= Available(v, i)}
        ELSE IF Cardinality(available) > 1 THEN available \ {i.v}
        ELSE available

\* voterTx.IsDone(len(voter.Actions))
IsDone == Len(outTxs) >= Cardinality(Action)

\* The item i is closed; its action is rescheduled for vault v.  Without a pool for
\* its asset it is left open, and no later block looks at it again.
Reschedule(i, v) ==
    txOut' = IF pool
             THEN (txOut \ {i}) \cup {[i EXCEPT !.out = Blank],
                                      [h |-> RoundUp(height), a |-> i.a, v |-> v, out |-> Open]}
             ELSE txOut

\* PoolMgr: the staged pool of the asset has run out of SWITCH, so it is deleted,
\* and the asset is struck from the books of every vault.  It does not come back.
Abandoned == [v \in Vault |-> [vaults[v] EXCEPT !.funds = 0]]

\* NetworkMgr: a retiring vault without funds has ended.
Ended(vs) ==
    [v \in Vault |->
        IF vs[v].status = "Retiring" /\ vs[v].funds = 0 /\ \E w \in Vault : vs[w].status = "Active"
        THEN [vs[v] EXCEPT !.status = "Inactive"] ELSE vs[v]]

\* The managers that run after LackSigning, when it has nothing left to look at.
FinishBlock ==
    IF todo' # {}
    THEN UNCHANGED <<height, vaults, pool, faults>>
    ELSE /\ height' = height + 1
         /\ \/ vaults' = Ended(vaults) /\ UNCHANGED <<pool, faults>>
            \/ pool /\ height % PoolCycle = 0 /\ Fault /\ pool' = FALSE /\ vaults' = Ended(Abandoned)

\* The items of the record of one period ago are looked at one after the other.
LackSigning(i) ==
    /\ i \in todo
    /\ todo' = todo \ {i}
    /\ IF TooManyAttempts \/ vaults[i.v].status = "Inactive"
       THEN UNCHANGED txOut
       ELSE IF vaults[i.v].frozen \/ ~needsNewVault(i)
       THEN Reschedule(i, i.v)
       ELSE IF IsDone
       THEN txOut' = (txOut \ {i}) \cup {[i EXCEPT !.out = outTxs[1]]}
       ELSE \E v \in NewVaults(i) : Reschedule(i, v)
    /\ FinishBlock
    /\ UNCHANGED <<links, voters, outTxs, sent, slashed, passed>>

\* The block's transactions have been processed; the next one comes after
\* LackSigning, if that finds anything.
EndBlock ==
    /\ todo = {}
    /\ height < MaxHeight
    /\ todo' = {i \in txOut : i.h = height - SigningTransactionPeriod /\ i.out = Open}
    /\ FinishBlock
    /\ UNCHANGED <<txOut, links, voters, outTxs, sent, slashed, passed>>

OutNext ==
    \/ \E p \in Payment : Pay(p)
    \/ \E v \in Faulty : Retire(v) \/ Freeze(v)
    \/ \E n \in Node, p \in sent, final \in BOOLEAN : ObserveTxOut(n, p, final)
    \/ \E i \in todo : LackSigning(i)
    \/ EndBlock

OutSpec == OutInit /\ [][OutNext]_outVars

-----------------------------------------------------------------------------
(* Properties *)

Acted(p) == voters[p].Height

\* The payments that came to consensus, were processed, and cost no bond.
Settled == {p \in sent : Acted(p) /\ p \notin slashed \cup passed}

\* However often an action was rescheduled, and however late, out of order or
\* half reported its payments were, by one vault or by several: of those that were
\* processed while the asset had its pool, at most one goes unpunished.
OnePaymentUnpunished ==
    \A p, q \in Settled : p.a = q.a /\ p.a \in Action => p = q

\* The books: a vault holds what it has on the external chain, what it paid
\* without consensus on it yet, and what it paid and the chain passed over.  So
\* each payment is debited once at most, to the vault that made it; and an asset
\* that lost its pool stays struck from the books.
FundsMatchWallet ==
    \A v \in Vault :
        vaults[v].funds =
            IF pool THEN Funds - Cardinality({p \in sent : p.v = v /\ Acted(p) /\ p \notin passed}) ELSE 0

\* No action is forgotten: it has a payment with consensus, or an item that is
\* still in its signing period, or one that LackSigning gave up for a reason of
\* its own: too many attempts, an inactive vault, an asset without a pool, or
\* because the inbound counted as done.  The last happens to an unpaid action only
\* after another one was paid twice, by vaults of which one was slashed for it or
\* passed over: AddOutTx counts payments, not actions.
NoneForgotten ==
    \A a \in Action :
        \/ \E p \in sent : p.a = a /\ Acted(p)
        \/ \E i \in txOut :
             /\ i.a = a /\ i.out = Open
             /\ \/ i.h >= height - SigningTransactionPeriod
                \/ TooManyAttempts
                \/ vaults[i.v].status = "Inactive"
                \/ ~pool
        \/ /\ \E i \in txOut : i.a = a /\ i.out \notin {Open, Blank} /\ i.out.a # a
           /\ \E p \in slashed \cup passed : p.a \in Action
-----------------------------------------------------------------------------
(* Refinement of the ledger *)

Ledger == INSTANCE OutboundLedger WITH
    settled  <- Settled,
    punished <- slashed,
    books    <- [v \in Vault |-> vaults[v].funds]

\* Through two votes on every payment, matching by vault and period, reschedules,
\* retiring vaults, failures and the end of the pool, the outbounds are a ledger:
\* a payment is entered once at most, at the one report that brings its consensus,
\* from funds that are there, and an action is settled once.
OutRefines == Ledger!Spec
=============================================================================
