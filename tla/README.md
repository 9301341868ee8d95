# TLA+ specifications of switchlynode

Switchly is a cross-chain liquidity network: a Cosmos SDK chain (*switchlynode*, `x/switchly`, `app`)
whose validators each run *bifrost* (`bifrost/`), which watches external chains, reports what it sees to
the chain and signs what the chain wants paid out. The specifications here follow a transaction along
that path: the way in (a node's deck of observations, the gossip that collects attestations of them, the
cache from which they get into a block, the vote that makes the chain act on them, exactly once) and the
way out (how a node signs and broadcasts what the chain decided to pay, once, and how the chain learns
of the payment, closes the item, debits the vault, or gives the item to another vault).

## 1. Inventory

| Part | State it keeps | Operations | Interacts with |
|---|---|---|---|
| Block scanner, chain clients (`bifrost/blockscanner`, `bifrost/pkg/chainclients`) | scan position, mempool and UTXO caches, reported solvency | scan a block, extract TxIn, detect reorganisations, sign and broadcast | observer, signer |
| Observer deck (`bifrost/observer/observe.go`, `observer_storage.go`) | observations not yet committed, in memory and in a LevelDB; the node's last status | accept and merge a block's observations, attest the deck every second, remove what is committed, errata, clear, restore | chain clients, gossip |
| Attestation gossip (`bifrost/observer/attestation_*.go`, `generic_attestation.go`) | per observation: attestations, sent/committed marks, times | attest, handle a peer's attestation, send quorum to ebifrost, prune | p2p peers; gRPC to ebifrost; event stream from it |
| Enshrined bifrost (`x/switchly/ebifrost`) | four inject caches, recent blocks, subscriber channels | `SendQuorum*`, `ProposalInjectTxs`, `MarkQuorum*AttestationsConfirmed`, prune timer, event streams | bifrost over gRPC; proposer (PrepareProposal); PostHandle of every injected message |
| Priority lock (`ebifrost/priority_lock.go`) | reader count, writer flag, waiting writers and priority readers | `Lock`, `Unlock`, `RLock`, `RLockPriority`, `RUnlock` | every inject cache |
| Observation handlers (`handler_observed_tx*.go`, `handler_errata*.go`) | ObservedTxVoter, ErrataTxVoter, slash points, vaults, last heights | `MsgObservedTxIn/Out`, `MsgObservedTxQuorum`, `MsgErrataTx(Quorum)` | keeper, slasher, observer manager, all memo handlers |
| Outbound (`manager_txout_current.go`, `handler_common_outbound.go`) | TxOut items per height, voter Actions/OutTxs | schedule, match an observed outbound, reschedule, slash | handlers, signer |
| Signer (`bifrost/signer`) | LevelDB of TxOutItems, vault/chain locks, signed tx and checkpoint | pick, sign, broadcast, retry, remove | switchlynode, chain clients, TSS |
| Churn (`manager_validator_current.go`, `manager_network_current.go`, `handler_tss*.go`) | node statuses, keygen votes, vault statuses | churn, keygen vote, migrate, retire | everything that counts active validators |
| Swaps, liquidity, loans, names, SWCY (`handler_*.go`, `manager_*`) | pools, liquidity providers, queues | memo handlers, end-of-block queues | keeper |
| Keeper (`keeper/v1`) | the key-value store | typed get/set | all handlers |
| p2p, TSS (`bifrost/p2p`, `bifrost/tss`) | peers, key shares | keygen, keysign | signer, gossip |

**What is hard.** Votes that stay open while the set of voters changes; attestations that come alone,
gathered, duplicated or late; a result agreed in two phases (discovered, final) that goes through one
code path twice; an errata that may arrive before or after what it reverts; goroutines that share a
cache through a hand-written lock with priorities and then use pointers outside it; channels closed
while someone sends; on the signing side, time-outs, retries and restarts around an irrevocable
broadcast, and on the chain's side payments that come after their item was given to another vault.
`PROJECT.json` lists each of these at the line where it bites ("hazards").

**What makes each part correct.** Handlers: an inbound is acted on at most once, only as two thirds of
the active validators attested it, never again once reverted; points and funds balance. Lock:
exclusion, no lost wake-up, every call returns. Cache: one entry per observation, no attestation lost
without a reason, nothing remembered or kept for ever. Event stream: a client that leaves harms nobody.
Signer: an outbound is paid once, locks and capacity are given back, and no item stays for ever.
Gossip: what a super majority attested reaches the node, what a validator saw leaves its deck, and nothing is
collected for ever. Deck: memory and storage are one map. Outbound: each payment is debited once, no
second payment of an action goes unpunished, no action is forgotten.

## 2. Modules

| Module | Models | Notes |
|---|---|---|
| `ObservedTxVoter` | `types/type_observed_tx.go`, `common/type_observed_tx.go`, `types/types.go` | constant-level: the vote as a record, its thresholds and its queries |
| `ObservedTxIn` | inbound handlers and errata | one inbound transaction, one external chain; extends `ObservedTxVoter` |
| `ObservedTxOut` | outbound handlers, `handler_common_outbound.go`, `LackSigning` and what follows it at the end of a block | the outbounds of one inbound, several vaults |
| `OutboundLedger` | what the chain promises about payments | abstract; `ObservedTxOut` implements it |
| `ObserverDeck` | `observer/observe.go`, `observer_storage.go` | the deck of one external chain at one node |
| `AttestationGossip` | `observer/attestation_*.go`, `generic_attestation.go` | one observation at one node |
| `RWLock` | what a read-write lock promises its callers | abstract; `PriorityRWLock` implements it |
| `PriorityRWLock` | `ebifrost/priority_lock.go` | any number of goroutines |
| `InjectCache` | `ebifrost/inject_cache.go`, its callers in `ebifrost.go`, `post.go` | relies on the exclusion that `PriorityRWLock` establishes: one critical section, one step |
| `EventStream` | event streams of `ebifrost.go` | |
| `SignerPipeline` | `bifrost/signer` (`pipeline.go`, `sign.go`, `storage.go`) | several items and vaults of one chain; a keysign and a broadcast succeed or fail |
| `SignAndBroadcast` | `evm/client.go` (`SignTx`, `BroadcastTx`), the signer cache, and the signer around them | one item, with nonces, signatures and the chain |
| `MC*` | instances for TLC | model values and input sets only |
| `*Proofs` | theorems and TLAPS proofs | one for each module with a run that passes; section 5 |

Operators whose comment begins with "Mutant:" are plausible mistakes in the operator that follows them.
No specification uses them; they exist so that every property can be shown to fail when the code is
wrong (`PROJECT.json`, "mutants").

### ObservedTxVoter, ObservedTxIn

*State.* `voter` is the stored ObservedTxVoter (`Txs`, the agreed `Tx`, `Height`, `FinalisedHeight`,
`UpdatedVault`, `Reverted`), `errata` the ErrataTxVoter, `slash`, `funds`, `inactive` (vaults),
`lastObserve`, `lastChain` and `observing` what the keeper and the observer manager hold, `active` the
active validators. `effects`, `credits` and `adjusted` are history. `reports` is fixed by Init: the
set of observations that validators make of this transaction. An observation has the body that
`Tx.EqualsEx` compares (amount and memo stand for it), the vault, and block and finalise height.

*Actions.* `ObservedTxInMsg` is a whole `MsgObservedTxIn`: attestation, consensus, credit, memo
dispatch, refund. `QuorumBegin`, `QuorumAttest`, `QuorumEnd` are a `MsgObservedTxQuorum`, one step per
turn of its loop; nothing else runs while `msg` is set, as a block executes one message at a time.
`ErrataTx` is one errata attestation, alone or within a quorum message. `NextBlock`, `Churn` and
`VaultInactive` are the chain around the vote. What depends on the rest of the chain (trading halted,
the memo handler's verdict, whether a refund can be scheduled) is an `answer` chosen freely.

*Abstractions.* One asset; the order of signers; memo types that the handler treats alike are one memo
(`withdraw` stands for every memo with an outbound, `add` for those without); events and logs; the pool
arithmetic of an errata is the counter `adjusted`; `outFound` stands for the outbound voter of an
internal transfer; vault lookups do not fail. A churn sets the active validators to any set that is large
enough, and the slash points of those that join to zero; which ones the churn picks, and that an inactive
vault has run empty, is left open. A lone message that fails leaves no trace
and is therefore not a step.

### PriorityRWLock

A thread's stretch under `mu`, from entry or return from `Wait` to the next `Wait` or the end of the
method, is one step. `Signal` and `Broadcast` turn sleepers into woken threads, which test their
condition again at some later step: others may come in between. The four counters are the struct's
fields. Bound: `MaxOps` calls per thread.

`RWLock` has none of this: a thread is out, asks to read or to write, reads or writes, and a grant that
is enabled again and again is given. `Abstract` in `PriorityRWLock` instantiates it with `RoleOf` of each
thread's program counter as its role (asleep and woken threads both still ask); `Refines` is its whole
specification, fairness included.

### ObserverDeck

*State.* `onDeck` is the map of the Observer, `disk` the records of the ObserverStorage, both keyed by the
height at which the entry is final. `working` are the goroutines of `processTxIns` between acceptance and
the lock; `clearing` is the gap in `sendDeck` between emptying the map and emptying the storage.
`attested`, `erred`, `clearRaced` and `erased` are history; `erased` has the keys whose record an errata
deleted although their entry is on deck.

Every change of an entry goes through `Put` (map and record) or `Drop`, which has the height under which
the code looks for the record as an argument: the entry's key after a commit, the errata's block after an errata.

*Actions.* `processTxIns`, `processObservedTx` (dedupe, merge, save), `Committed` (for anything that was attested, in any
order and repeatedly), `processErrataTx` with `filterErrataTx` as written, `sendDeck` for an active node,
`sendDeckInactive` and `RemoveAllTxs` for one that was churned out, `Restart` at any point. Blocks,
churns and reorganisations are the environment.

*Abstractions.* One chain; what a chain client reports is already filtered; items are compared by transaction and block,
which is where observations of one transaction differ here; deleting all records is one step; the store does not fail.

### AttestationGossip

*State.* `state` is the AttestationState of one observation: who attested, what was sent and committed, and
the four times as ages in ticks of the reconcile interval that stop growing where nothing depends on
them any more (`initialAttestationsSent` is zero exactly when `lastAttestationsSent` is, and left out).
`deck` is whether the observation is on this node's deck, `submitted` whether its attestation is in the inject cache,
`event` a commit event on its way. `lossy` is history.

*Actions.* `sendDeck` (fetch the active validators, attest again), `handleStreamAttestation` (a peer's, valid or not), `reconcile` (the ticker of `Start`),
`handleQuorumTxCommitted`, `AttestErrata`, `Restart`. `Commit` and `CacheExpires` are the node, as `InjectCache` and
`EventStream` allow it: a block holds what was submitted, its event is delivered or dropped, an item
that no block took expires. A handler locks the state before it lets the map's mutex go, and keeps it
during the gRPC call, so a handler is one step. Faults are bounded (`MaxFaults`), the rest is not.

*Abstractions.* One observation, inbound and of one form; the other three maps are the same generic code.
How attestations travel (batcher, exchange of state at start, peers' semaphores) is that they arrive, late,
repeatedly, or not. `AllowFutureObservation` (the keysign party instead of the active validators) is left out.

### ObservedTxOut

*State.* `txOut` are the items of all TxOut records (height, action, vault, and `out`: open, blank or the
payment that closed it), `links` and `outTxs` what the inbound's voter and its link record hold, `voters` the
ObservedTxOutVoter of each payment, `vaults` funds, status and freeze, `pool` whether the asset has a pool,
`todo` the items of a record that `LackSigning` has still to visit; nothing else runs until it has. `sent` is
the external chain: a payment is an external transaction, and a vault may make several for one action. `slashed` are
the payments a vault was slashed for. `passed` is history: payments that came to consensus and left no
trace in the books.

*Actions.* `ObserveTxOut` is one attestation of a payment, alone or in a quorum message, with all that
follows when it brings consensus: `quorum`, `handle` (match or slash), `Debit`; or `quorumFails`, the
early returns of `handleObservedTxOutQuorum` (`handler_observed_tx_helpers.go:525-536, 555-558`) and of the
handler it calls (`handler_common_outbound.go:55, 98, 247`), after which the payment is neither debited nor tried
again. `EndBlock` and `LackSigning` are the end of a block; with the last item come the managers that
run next (`module.go:232-245`): every `PoolCycle` blocks the pool may be removed and the asset struck from the
books of all vaults, and a retiring vault without funds ends. `LackSigning` has the exits of the code: too many
attempts, an inactive vault, an inbound that is done, and, in `Reschedule`, an asset without a pool
(`manager_slasher_current.go:422`), which leaves the item open and unvisited for good. `Pay`, `Retire` and `Freeze`
are the signers and the rest of the chain.

*Abstractions.* One asset, one unit per action, no gas; actions differ by recipient, so that an observed
payment matches one action; the choice by hash among the vaults with funds is free; aggregators,
migrations and ragnarok (a second way for a pool to go) are left out, and so are the slash points of observers,
which `ObservedTxIn` treats. The consensus height and the finalised height of the inbound are one `StartHeight`.
A pool that was removed is not created again, and its balance is always enough for a slash. The store
does not fail, which leaves out the exits that only a failing read or write takes: of `LackSigning`
`manager_slasher_current.go:281-286` and `428-433` (there also a BCH address that cannot be converted), of the outbound handlers `handler_observed_tx_helpers.go:563-567`
and `594-597` and `handler_common_outbound.go:50`. Addresses are of this network (`manager_slasher_current.go:228-230`
skips an item that is not).

`OutboundLedger` knows only payments and books: each payment made is entered at most once, and then either settles an
action that no other payment settled, or is punished; and the asset may be written off. `Ledger` in `ObservedTxOut`
instantiates it: a payment is settled when the chain processed it and slashed nobody, and the books of a vault are its
`funds`; `OutRefines` is its specification. Attestations, items, rescheduling, freezing, the end of a
vault and payments that the chain passes over are stutters of the ledger.

### InjectCache

`obj` is the heap of QuorumTx objects, `items` the pointers in the cache (allocation order is list
order), `recent` the map `recentBlockItems`. A gRPC call is `SendQuorumTx`, one `FilterAttestation` per
attestation, `MergeWithExisting`; an executed message is `BlockMessage`, `MarkAttestationsConfirmed`,
`AddToBlock`, `CleanOldBlocks`; a proposal is `ProposeGet` and, per item, `ProposeSize` and
`ProposeWrite` without the lock. `Tick` and `PruneExpiredItems` are the timer. `known` in a job is
history: what blocks were recorded to hold when the call began. The model is of the cache of
observed transactions; the other three caches are the same generic code. Left out: the byte budget by
which `ProposalInjectTxs` drops messages, and `Add`/`RemoveAt`, which only tests call.

### EventStream

`SubscribeToEvents` registers a channel, `StreamSend` and `removeSubscriber` are the two branches of its
loop, `broadcastEvent` copies the list under the mutex and `SendToSubscriber` sends to one channel.

### SignerPipeline, SignAndBroadcast

Two views of the signer of one node. `SignerPipeline` is about the items of a chain against each other;
`SignAndBroadcast` follows one item down to the nonces of an EVM chain. The loop and the locks are in
both, in full in the first and as far as one item can tell in the second.

*State.* `store` is the LevelDB (an entry has `Round7Retry`, and whether or which `SignedTx` and
`Checkpoint` it carries), `sem` and `lock` the pipeline's channels, `sp` the locals of `SpawnSignings`
(the list, the capacity held, the locks seen), `mutex` the chain client's vault lock. A routine in
`rt` is the two goroutines of `runWithContext`: `outer` waits, settles the result, unlocks and releases;
`inner` is `signAndBroadcast`. A time-out ends the first and leaves the second running. `cached` is
the signer cache; `nonce`, `sigs`, `landed` are the chain and what the vault's members hold.

*Actions.* `List`, `Acquire`, `Skip`, `Spawn`, `GetVaultFails`, `SpawnDone` are one call of
`SpawnSignings`, cut where routines can interfere: the list is read before the capacity and the locks.
`CheckFails`, `Discard`, `NotNeeded`, `CheckPasses`, `VaultLock`, `SignFails`, `Sign`, `Send`, `SendFails`
are the exits and stages of `signAndBroadcast`; `SignAndBroadcast` splits signing into `HasSigned`,
`GetNonce`, `Sign`, `StoreSigned` and broadcasting into `Send`, `SetSigned`. `Settle`, `Unlock`, `Release`
are the outer goroutine. `Crash` is a crash or a `Stop`, which does not wait for routines; the block
may be scanned again. `PeerBroadcast` and `OtherTx` are the rest of the vault and its account.

*History.* `exposed` records that the records which should prevent a second payment were outrun: a
routine abandoned on time-out, a routine spawned from an outdated list, an item stored anew, a crash
between a signature and its record. `PileUpExposed` and `PaidAtMostOnce` hold outside these. In
`SignAndBroadcast` none of the four can be dropped: without any one of them TLC finds a second
payment in about 16 steps (for instance: a time-out drops the checkpoint of a round 7 failure, a peer
broadcasts, and the retry signs with the next nonce).

*Abstractions.* Items of one height; a routine's name is reused when both its goroutines have ended;
sending a transaction and its inclusion in the pending nonce are one step; a failed broadcast may still
get through, as a peer's. Left out: a change of `SignerConcurrency`, `AutoObserve`, LevelDB errors,
`unstuck.go`. A second item scheduled by the chain for the same payment is another item.

## 3. Runs

| Run | Instance | Shows |
|---|---|---|
| `in_stable` | 3 validators, 4 scenarios, 5 messages, 2 blocks, no churn | inbound acted on as attested; errata restores funds and silences the tx; slash points balance, and the lack penalty is on those who did not vote |
| `in_churn` | 3 validators of whom 2 or 3 are active, 1 churn or vault retirement, 4 messages, migration and two-phase scenarios | finality needs two thirds of the validators of the moment and is never undone; still acted on once |
| `in_dispute` | 4 validators, 1 churn, two versions of the tx | **violation** of `ActsOnAttestedTx` (finding 1) |
| `lock` | 4 goroutines, 2 calls each, deadlock checked | exclusion, wake-ups, every call returns, refinement of `RWLock` |
| `cache` | 2 senders, 2 observations of one tx, 2 attestations, 2 block messages, 4 blocks, window of 1 block | one entry, filter, window, nothing lost, cache drains |
| `signer_pipeline` | UTXO chain, 2 items of 1 vault, 2 routines, capacity 1, 1 time-out or crash, 1 block to expiry | capacity and lock are conserved, two retries only after exposure, the store drains |
| `signer_payment` | EVM, 1 item, 2 routines, 4 nonces, 1 time-out or crash | paid at most once unless exposed; no signature once cached |
| `gossip` | this validator and 2 peers, one of whom may be churned out and in again for ever; time-outs of 0, 1 and 2 ticks; 1 fault | a quorum is sent at once; the observation leaves the deck; the state is pruned |
| `deck` | 2 transactions, 3 blocks: two with the same final height and one that is final at the height of another block; any number of churns, restarts and erratas | memory and storage agree but for the cases that the properties name |
| `deck_errata` | the same | **violation** of `ErrataLeavesDeck` (finding 3) |
| `out` | 2 validators, each alone in a vault, 2 actions, 2 payments, period of 1 block rounded up to 2, 5 attempts, heights 2 to 8 with transactions up to 5, pools looked at every 4 blocks, 1 fault: a vault retires or freezes, the processing of a payment fails, or the pool goes | one payment unpunished, each debited once, no action forgotten, refinement of `OutboundLedger` |
| `events_closed` | 2 clients, 2 event types, 2 broadcasts | **violation** of `ClosedChannelIsPassedOver` (finding 2) |

*Why the bounds are enough to matter.* Three validators have a threshold of two, so that votes can be
short of, at and beyond consensus; four with one leaving (threshold 3, then 2) is the smallest set in
which a vote crosses without being cast. Five messages allow two versions to be voted, agreed, voted late and
reverted. Four goroutines are a holder, a waiting writer, a waiting priority reader and a waiting
reader; a second call lets one barge in between a wake-up and its retry. Two senders overlap; a
window of one block and four blocks let a record be remembered, reach the edge and be forgotten.
In the signer a second routine is the one that runs beside an abandoned one, and two items of a vault
are what a lock and a retry are about; four nonces leave room for two payments and another transaction
between them. In `gossip` the three time-outs are as small as their order allows (minimum between sends
below late observation below no quorum), so that each of them ends a behaviour before and after each
other one; two peers make two of three and three of three. In `deck` two transactions of a block share an entry, and the
one that is in two blocks gives an entry transactions of different heights, for which the key
must be kept when the first one leaves; the third block is final at the height of the first, whose errata then
finds the wrong record. In `out` both validators must report a payment, so that one report is the minority
which delays a rescheduling; two actions and two payments are one each, two of one action by one vault or by two, or one nobody asked
for; rounding up to 2 with a period of 1 puts items into the next block but one, so that `LackSigning` looks at the heights 3, 5
and 7: before the pool can go, after it, and when there were too many attempts. Transactions up to block 5 leave
room for a payment before and after a rescheduling, and after the pool has gone. `ObservedTxIn`, `ObservedTxOut`, `InjectCache`, `EventStream`, `ObserverDeck` and the signer modules switch deadlock checking off because they stop at their
bounds; `PriorityRWLock` checks it, with `Done` for the state in which every call has returned, and so does `AttestationGossip`.
Symmetry over validators or actions is used only in runs without liveness properties.

*Fairness.* Lock: weak fairness of each goroutine's retry and release; critical sections are short, end
in a deferred unlock and do not wait, and Go's `sync.Mutex` is starvation free. Callers are bounded:
with unbounded arrivals of priority readers a writer can starve, and this is not excluded by the code.
Cache: weak fairness of time and of the prune timer's goroutine. Nothing is assumed of senders,
proposers or blocks. Signer: weak fairness of the loop (`signTransactions` runs every second), of each
goroutine and of blocks; strong fairness of spawning, of discarding an old item and of the chain
client's mutex: switchlynode does not fail at every attempt, and a keysign ends (TSS has its own
time-out), so that the holder of the mutex returns. Nothing is assumed of keysigns or broadcasts
succeeding. Gossip: weak fairness of the two tickers (the deck's and that of `Start`) and of the handling of an
event that was received, strong fairness of a block that takes this validator's attestation from the
cache and whose event is delivered: cached items go into the next proposals, and events are dropped
only now and then. Nothing is assumed of peers. A reconcile comes only after the deck was attested since the last one: the intervals
are 1 s and 15 s. `Refines` adds none: the fairness of `RWLock` follows from that of `PriorityRWLock`.

## 4. Findings

1. **`in_dispute`** A churn can make the votes for version A cross the threshold when an attestation of
   version B is processed. `handleObservedTxInQuorum` then credits the coins and the memo of B, the
   tx of the message, although consensus is on A (`handler_observed_tx_helpers.go:169,185`).
2. **`events_closed`** A send to a channel that `removeSubscriber` has just closed panics; the `default`
   branch of the select does not prevent it.
3. **`deck_errata`** `filterErrataTx` leaves the loop over the block's transactions with the first one that it
   finds on deck (`observe.go:625`); the others, which the reorganisation also removed, are attested further.
   It also removes the record of an emptied entry under the height of the block instead of
   the entry's key (`observe.go:613`): with confirmations required the record survives and a restart brings the
   transaction back, which `DiskHoldsDeckOrErrata` allows for; and if another entry is final at that height, its
   record is the one that goes, and a restart forgets an observation that no errata concerned
   (`erased`, excepted by `DeckSurvivesRestart`).
4. **`gossip`** (a comment, not the code) `attestation_gossip.go:35`: "If chain halts for longer than this, validators will need to restart
   their bifrosts to re-share their attestations." They need not: `sendDeck` attests everything on deck every second
   (`observe.go:305`), which after the prune makes a new `AttestationState` and gossips it
   (`attestation_handlers.go:16`). The run passes: `DeckDrains` holds where the inject cache has forgotten the attestation and the
   state has expired, without a `Restart`.

Known from the models and without a run of their own:

* A node that signs two variants of one final observation (a reorganised transaction) has its points given
  back twice; `DecrementedOnce` states what would be violated, `DecrementedOnceUnlessVariants` is what holds.
* `AddItem` filters and merges in separate critical sections; attestations that a block confirms in between
  go back into the cache and are proposed again (`RecentNotCached` of `InjectCache`, as INVARIANT in
  `InjectCache.cfg`, shows it). They are duplicates to the handler, which does not charge for them.
* Items are marshalled through shared pointers outside the lock while senders merge into them
  (`MarshalsOneVersion`, the same way).
* Several Stellar items of a vault are in flight at once, and two of them can be left in retry, which
  `SpawnSignings` takes for impossible: it then signs nothing more for that vault (`AtMostOneRetry` of
  `SignerPipeline`, with a Stellar chain, capacity 2 and no faults).
* With the asset's pool removed, `LackSigning` leaves an unpaid item open and never returns to it
  (`manager_slasher_current.go:422`): the action is forgotten. And a payment whose processing fails after its consensus
  is never debited. Both are what the code does about an error; `NoneForgotten` and `FundsMatchWallet` name them.
* `ObservedTx.IsDone` counts payments, not actions: after an action was paid twice (and the second one slashed or passed over) the inbound counts
  as done, and `LackSigning` closes the other, unpaid action with the first payment's hash. `NoneForgotten` excepts this.
* `needsNewVault` returns at the first unfinalised payment of the vault for the inbound. A minority
  report of one action's payment thus decides for another action's item, which can be given to a
  second vault although a super majority of the first one's members reported its payment;
  `OnePaymentUnpunished` still holds, at the cost of a slashed vault.

## 5. Proofs

All proofs are for every value of the constants: any number of validators, vaults, goroutines, items,
transactions, blocks, faults and messages. They rest on one named assumption per module (`InAssumption`,
`OutAssumption`, `LockAssumption`, `CacheAssumption`, `GossipAssumption`, `SignAssumption`,
`SignerAssumption`, `DeckAssumption`): finiteness of the sets that are counted, numbers that are natural numbers, periods
that are positive, time-outs in the order of the configuration, special values that are not records, and
for the deck that what is reported is final at a height within the bound. TLC evaluates each on the runs. Two results have a
hypothesis on the constants, named in their statement: `ReportsAgree` and `MaxChurn = 0`; for the second there is a
form without it.

The argument has the same form everywhere: an invariant that holds initially, is kept by each action (one
lemma or step per action) and implies the property. Each strengthened invariant was checked with TLC before it was proved.

**ObservedTxInProofs**

| Theorem | States | From |
|---|---|---|
| `TypeCorrect` | `TypeOK` | `IInv` |
| `ActedOnAtMostOnce` | `AtMostOnce` | `IInv` |
| `FinalStays`, `RevertedStaysInert`, `FinalNeedsMajority` | `FinalTxStable`, `RevertedIsInert`, `FinalisedByMajority` | `IInv`, `StableInv` |
| `ActsOnlyWhenFinal` | what was handled or refunded is final, through any churn | `IInv` |
| `ErrataRestores` | `ReportsAgree => ErrataRestoresFunds` | and `FundsInv` |
| `ActsOnWhatIsAttested` | `MaxChurn = 0 => ActsOnAttestedTx` | and `NoChurnInv` |
| `ActsAsAttestedUntilChurn` | every step up to the first churn acts as attested | and `NoChurnInv` |
| `DecrementsOnce` | `DecrementedOnceUnlessVariants` while `churns = 0` | and `SlashInv` |
| `MissedVoteIsCharged` | while `churns = 0`: who missed the agreed tx owes the penalty | and `SlashInv` |
| `PenaltyFollowsVotes` | `LackPenaltyMatchesVotes`: while `churns = 0`, final reports only, who signed the agreed tx has at most one charge per message sent, who did not has the penalty | and `PenaltyInv` |

* `AtMostOnce` is not inductive: a second effect is excluded only because the branch that acts is reached
  with `FinalisedHeight` just set. `IInv` adds `VoterInv` (an agreed height comes with an agreed tx, a
  finalised height with one that is final), `MarkInv` (an effect implies a finalised height, a credit implies
  `UpdatedVault`), `CrossedInv` (while a quorum message has crossed and is not handled, there is an agreed
  tx, nothing has been done for it, and what has finalised has its height), and that a correction implies
  an errata height. `TallyFacts` and `HandleLemma` say what the two helper functions do to any voter.
* The action properties need that a final agreed tx is marked (`FinalMarked`) and that a revert
  closes the errata (`StableInv`). `ChainStep` is what every step does to the voter and to the history.
* `FundsInv` follows the money: whatever is agreed or credited is one of the reports up to its memo, the vault
  holds what the credit says, and a revert finds it there. Without `ReportsAgree` the property is false: a
  migration is credited when it is discovered and debited as it was agreed when final, which may be another amount;
  two reports may differ in the vault only, which `EqualsEx` does not compare; and under a churn, for the
  reason of finding 1, the vault is credited with the message's coins.
* `NoChurnInv`: a class of observations with a super majority has been settled (`CountInv`), so the
  vote that crosses is one of the class it makes agreed, and an open quorum message that crossed is for the
  agreed body. A vote moves the count of its own class only (`ClassUnmoved`). With a churn this is false
  (`in_dispute`).
* `SlashInv` is a balance: a node that signed no variants has at least what it had before, plus the points
  of a vote whose phase is open (`VoteOwed`, `FinalOwed`), plus the penalty if it missed the agreed tx
  (`LackOwed`), plus the same for the errata (`ErrataOwed`). Each time points are given back, one of
  these terms pays for it. Variants break it: the late vote on the second one is given a penalty back that was not charged.
* `PenaltyInv` bounds the points from both sides, as long as reports are final and no errata is voted: before
  the agreement nobody was given anything back; after it, who is not among the attesters of the agreed body has the
  penalty, and who is on the list of the agreed tx has at most `ObservePoints` for each message handled so far
  (`Handled`: a quorum message counts as its attestations are taken). The upper bound has to count messages because a repeated lone
  message can be charged again. In the code the penalty is 2 and a charge 1 (`constants_v1.go`), so that for more than one
  message the points alone do not tell a missed vote from charges; the property and the theorem therefore state the two
  bounds, which hold for any sizes. The run has a penalty of 10, so that they are apart. TLC checked `PenaltyInv` with both.

**ObservedTxOutProofs** `OutTypeCorrect`, `BooksMatchWallet` (`FundsMatchWallet`), `PaidOnceUnpunished`
(`OnePaymentUnpunished`), `ActionsAreKept` (`NoneForgotten`), `OutImplementsLedger` (`OutSpec => OutRefines`). `OutInv`: what was
acted on was sent, and what was slashed or passed over was acted on (`Wallets`), an action has at most one item that is open or
paid for it (`OneLiveItem`), and a settled payment closed an item of its action (`SettledClosedItem`); so two settled payments
of an action close the same item and are one, by whichever vaults (`SettledIsUnique`). `QuorumMarks` and `FailsKeepsBooks` say what
the report that brings consensus does in its two outcomes, `FinishBooks` what the managers do at the end of a block. `KeptInv`: an action is
paid, awaited by an item (in its period, or given up for one of the reasons), or was counted as done, which takes a payment of
another action that was slashed or passed over, by counting `OutTxs` (`DoneUnpaidMeansUnsettled`); that the reasons
persist (an inactive vault, a missing pool, too many attempts stay so) is part of each step. For the refinement, only two steps change the
ledger: the report that brings a payment to consensus, and the end of the pool. That the payment was sent and is not in
the books follows from `Wallets`, that no other one settled its action from `OneLiveItem` and `SettledClosedItem`, and
that the books are not empty from `FundsMatchWallet`.

**PriorityRWLockProofs** `LockTypeCorrect`, `LockExcludes` (`MutualExclusion`), `WakeupsReach`
(`NoLostWakeup`), `LockImplementsRWLock` (`Spec => Abstract!Safety`). The counters are cardinalities of sets of
threads (`Counts`), a set writer flag is one writer (`WriterKnown`, `WriterAlone`), and who sleeps has a
reason (`PrioritySafe`, `SleepersSafe`). For the refinement, a thread that takes the lock finds no
incompatible holder by the same invariant, so every step is one of `RWLock` or leaves all roles alone.

**InjectCacheProofs** `CacheTypeCorrect`, `OneEntry` (`OneEntryPerItem`), `FilterIsSound` (`FilterHolds`),
`WindowIsBounded` (`WindowBounded`), `NothingIsLost` (`LeavesForAReason`). The invariant relates pointers
to the allocation counter, calls under way to the calls left, what a job knows to what is still recorded,
and the step of a confirmation to the window. For `NothingIsLost`, one entry per item is what
makes a merge keep what others brought.

**AttestationGossipProofs** `GossipTypeCorrect`, `QuorumAlwaysSent` (`QuorumIsSent`). With `TypeOK` the second
is inductive: a handler that leaves a super majority has sent or has failed (`lossy`); one that leaves none
has nothing to show; a timed send only empties what is unsent; and a change of the active validators, which may
turn a minority into a quorum without an attestation, is what `lossy` records until the next state.

**SignAndBroadcastProofs** `SignTypeCorrect`, `LandsAtMostOnce` (`PaidAtMostOnce`), `CacheStopsSigning`
(`NotSignedOnceCached`). `SignInv`: unless exposed, there is one routine at most, it holds the lock and its copy of the
item is the stored one (`OneRoutine`, `Sound`); and all nonces that were ever tried and still count are one nonce, to which
every further attempt is bound by the cache, the stored transaction, the checkpoint or
the routine that carries it (`OneNonce`, `BoundTo`).

**SignerPipelineProofs** `PipelineTypeCorrect`, `SemaphoresConserved` (`CapacityConserved`),
`OneRoutinePerLock` (`LockIsOneRoutine`), `RetriesPileUpOnlyExposed` (`PileUpExposed`). `PipeInv`: a routine's
fields fit its program counters (`RoutineOK`), the loop's list and tokens fit its position (`LoopOK`), a lock
is one routine (`LockOfOne`), and for a vault that is not exposed what a routine works on is the
only item that can be in retry (`NoPileUp`).

**ObserverDeckProofs** `DeckTypeCorrect`, `RestartRestoresDeck` (`DeckSurvivesRestart`), `DiskIsDeckOrErrata`
(`DiskHoldsDeckOrErrata`). `DeckInv`: every entry and every record is under the key that its first
transaction computes to, for blocks that have been seen (`Good`), and a record beside an entry is that entry
(`Mirror`). The recomputed `ConfirmationRequired` is what keeps `Good` when a first transaction leaves.

*What proving changed in the models.* `DeckSurvivesRestart` had been true of the earlier, smaller instance
only: its invariant was not inductive, and TLC then found, with a third block, the entry whose record an errata of
another block erases (finding 3). The history variable `erased` names the case and the
instance now has it. In `SignerPipeline.SetRoutine` and `ObservedTxIn.Outcome` overlapping arms of a `CASE` became
an `IF`: the arms agreed, but nothing said which one applied.

*Only model-checked.* The liveness properties (`EveryCallReturns`, `CacheDrains`, `StoreDrains`, `DeckDrains`,
`StatesArePruned`, the fairness in `Refines`): liveness under fairness is out of the prover's reach.
Every invariant, action property and refinement that a passing run checks is proved, the refinements in their safety part.
The three violations are runs by nature; `EventStream` has no other property.

## 6. Plan

1. `ObservedTxIn` and `ObservedTxOut` composed over the funds of two vaults, for migrations.
2. `VaultChurn`: keygen votes, vault statuses, migration rounds.
3. `peer_manager.go` and `attestation_batcher.go`: semaphores that are pruned while held, and batches that overlap.

## 7. Not modelled

Pool and swap arithmetic (256-bit fixed point; small ranges would show little), the memo handlers
beyond their verdict, TSS and p2p (cryptography and transport, adapted third-party code), chain
clients other than EVM signing, and scanners (I/O against external chains; their reports are the inputs here),
the splitting, delay and fees of outbounds, solvency and network-fee votes (the errata vote again), the
exchange of attestation state between peers beyond its effect, the keeper's encoding, generated protobuf and OpenAPI code, command line tools, the `denom` module.
