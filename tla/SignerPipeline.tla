--------------------------- MODULE SignerPipeline ---------------------------
(***************************************************************************)
(* The signer of one bifrost node (bifrost/signer): the store of outbound  *)
(* items, the loop that spawns a signing routine per item under a lock per *)
(* vault/chain and a semaphore per vault status, the routine itself        *)
(* (processTransaction and signAndBroadcast), and what survives a restart. *)
(* One chain is modelled, so a vault stands for a vault/chain.  A routine  *)
(* is two goroutines: the outer one waits for the inner one, which signs,  *)
(* and returns without it when 5 minutes have passed (runWithContext).     *)
(* What is signed and what the chain makes of it is in SignAndBroadcast;   *)
(* here a keysign and a broadcast only succeed or fail.                    *)
(***************************************************************************)
EXTENDS Integers, FiniteSets, FiniteSetsExt

CONSTANTS
    Items,          \* outbounds of one block: numbers, in the order of List
    Vaults, VaultOf,
    Chain,          \* "evm" (and the like), "utxo" or "stellar"
    Concurrency,    \* the mimir SignerConcurrency
    VaultStatus,    \* what the bridge may answer for the status of a vault
    Period, Buffer, \* SigningTransactionPeriod and RescheduleBufferBlocks
    MaxAttempts,    \* the mimir MaxOutboundAttempts
    Routines,       \* names for the routines alive at one time: numbers
    MaxClock, MaxFaults,    \* bounds
    None            \* no entry or item

Statuses == {"Active", "Retiring", "Inactive"}  \* VaultStatus_ActiveVault and so on
Entry    == [round7 : BOOLEAN, signed : BOOLEAN]   \* Round7Retry; SignedTx is not empty
Listing  == [Items -> Entry \cup {None}]

ASSUME SignerAssumption ==
    /\ Items \subseteq Nat /\ IsFiniteSet(Items)
    /\ Routines \subseteq Nat /\ IsFiniteSet(Routines)
    /\ VaultOf \in [Items -> Vaults] /\ IsFiniteSet(Vaults)
    /\ Chain \in {"evm", "utxo", "stellar"}
    /\ Concurrency \in Nat \ {0} /\ VaultStatus \subseteq Statuses
    /\ {Period, Buffer, MaxClock, MaxFaults} \subseteq Nat
    /\ Period > 0 /\ MaxAttempts \in Int
    /\ None \notin Entry \cup Items

VARIABLES
    store,          \* item -> what is stored of it, or None
    inbox,          \* vaults whose TxOut of the block is to be stored
    sem, lock,      \* status -> tokens taken; vaults whose lock is taken
    sp,             \* the loop: where it is, and the locals of SpawnSignings
    rt,             \* the routines
    mutex,          \* vaults whose lock in the chain client is taken
    clock,          \* blocks since the items' height
    faults,         \* time-outs and crashes, for MaxFaults
    exposed         \* history: vaults with a routine abandoned, spawned from an
                    \* outdated list or signing an item that was stored anew

vars == <<store, inbox, sem, lock, sp, rt, mutex, clock, faults, exposed>>

Fresh == [round7 |-> FALSE, signed |-> FALSE]
Blank == [outer |-> "idle", inner |-> "done", item |-> None, entry |-> None,
          res |-> "err", status |-> "Active"]
Idle  == [pc |-> "idle", list |-> [i \in Items |-> None], todo |-> {}, locked |-> {},
          held |-> [s \in Statuses |-> 0]]

ItemsOf(v)  == {i \in Items : VaultOf[i] = v}
IsRetry(e)  == e # None /\ (e.round7 \/ e.signed)
Retries(l, v) == {i \in ItemsOf(v) : IsRetry(l[i])}
Capacity(s) == IF s = "Inactive" THEN 1 ELSE Concurrency
Locks   == Chain # "stellar"                \* the pipeline locks the vault
Mutexes == Chain \in {"utxo", "stellar"}    \* the chain client does

Init ==
    /\ store = [i \in Items |-> None] /\ inbox = Vaults
    /\ sem = [s \in Statuses |-> 0] /\ lock = {} /\ mutex = {}
    /\ sp = Idle
    /\ rt = [r \in Routines |-> Blank]
    /\ clock = 0 /\ faults = 0
    /\ exposed = {}

-----------------------------------------------------------------------------
(* The items come in *)

\* processTxnOut and storage.Batch: a vault's TxOut is stored, over what may be stored already.
Batch(v) ==
    /\ v \in inbox
    /\ inbox' = inbox \ {v}
    /\ store' = [i \in Items |-> IF VaultOf[i] = v THEN Fresh ELSE store[i]]
    /\ exposed' = IF \E i \in ItemsOf(v) : store[i] # None THEN exposed \cup {v} ELSE exposed
    /\ UNCHANGED <<sem, lock, sp, rt, mutex, clock, faults>>

-----------------------------------------------------------------------------
(* SpawnSignings *)

unSpawn == <<store, inbox, mutex, clock, faults>>

\* Mutant: a vault's retry item is passed over instead of the vault's other items.
ItemsToSignNew(l) == {i \in Items : l[i] # None /\ ~IsRetry(l[i])}

\* Items with a retry go alone; a vault with two of them is not touched.
ItemsToSign(l) ==
    {i \in Items : l[i] # None /\ Retries(l, VaultOf[i]) \in {{}, {i}}}

\* processTransactions up to the list of SpawnSignings.
List ==
    /\ sp.pc = "idle"
    /\ \E i \in Items : store[i] # None
    /\ sp' = [sp EXCEPT !.pc = "acquire", !.list = store, !.todo = ItemsToSign(store)]
    /\ UNCHANGED <<unSpawn, sem, lock, rt, exposed>>

\* All the capacity that is left is taken, and the locks that are taken at this moment hold
\* for the whole call.
Acquire ==
    /\ sp.pc = "acquire"
    /\ sp' = [sp EXCEPT !.pc = "loop", !.locked = lock,
                        !.held = [s \in Statuses |-> Capacity(s) - sem[s]]]
    /\ sem' = [s \in Statuses |-> Capacity(s)]
    /\ UNCHANGED <<unSpawn, lock, rt, exposed>>

\* Retry items first, in the order of a Go map; the others in the order of List.
IsNext(i) ==
    LET retries == {j \in sp.todo : IsRetry(sp.list[j])} IN
    /\ sp.pc = "loop"
    /\ i \in IF retries # {} THEN retries ELSE {j \in sp.todo : \A k \in sp.todo : j <= k}

\* Mutant: the deferred release gives back the whole capacity.
ReturnAll == /\ sem' = [s \in Statuses |-> sem[s] - Capacity(s)]
             /\ sp' = Idle

\* The deferred release of the capacity not handed to a routine.
Return == /\ sem' = [s \in Statuses |-> sem[s] - sp.held[s]]
          /\ sp' = Idle

\* The loop is done with an item; a vault's list is forgotten with its last item.
Done(i) ==
    LET todo == sp.todo \ {i}
        left == {VaultOf[j] : j \in todo} IN
    [sp EXCEPT !.todo = todo, !.list = [j \in Items |-> IF VaultOf[j] \in left THEN @[j] ELSE None]]

Skip(i) ==
    /\ IsNext(i)
    /\ VaultOf[i] \in sp.locked \/ \E s \in VaultStatus : sp.held[s] = 0
    /\ sp' = Done(i)
    /\ UNCHANGED <<unSpawn, sem, lock, rt, exposed>>

Spawn(i, s) ==
    LET v == VaultOf[i]
        r == Min({q \in Routines : rt[q] = Blank}) IN
    /\ IsNext(i)
    /\ v \notin sp.locked /\ sp.held[s] > 0
    /\ Locks => v \notin lock
    /\ \E q \in Routines : rt[q] = Blank
    /\ sp' = [Done(i) EXCEPT !.held[s] = @ - 1,
                        !.locked = IF Locks THEN @ \cup {v} ELSE @]
    /\ lock' = IF Locks THEN lock \cup {v} ELSE lock
    /\ rt' = [rt EXCEPT ![r] = [Blank EXCEPT !.outer = "run", !.inner = "check", !.item = i,
                                             !.entry = sp.list[i], !.status = s]]
    /\ exposed' = IF \E j \in ItemsOf(v) : store[j] # sp.list[j] THEN exposed \cup {v} ELSE exposed
    /\ UNCHANGED <<unSpawn, sem>>

\* Mutant: the early return comes before the release is deferred.
GetVaultFailsLeaking(i) ==
    /\ IsNext(i)
    /\ VaultOf[i] \notin sp.locked
    /\ sp' = Idle
    /\ UNCHANGED <<unSpawn, sem, lock, rt, exposed>>

\* GetVault fails.
GetVaultFails(i) ==
    /\ IsNext(i)
    /\ VaultOf[i] \notin sp.locked
    /\ Return
    /\ UNCHANGED <<unSpawn, lock, rt, exposed>>

SpawnDone ==
    /\ sp.pc = "loop" /\ sp.todo = {}
    /\ Return
    /\ UNCHANGED <<unSpawn, lock, rt, exposed>>

-----------------------------------------------------------------------------
(* signAndBroadcast: the inner goroutine *)

unSign == <<inbox, sem, lock, sp, clock, faults, exposed>>

\* A routine whose two goroutines have ended is no more; its data goes with the inner one.
SetRoutine(r, x) ==
    rt' = [rt EXCEPT ![r] =
             IF x.inner # "done" \/ x.outer = "run" THEN x
             ELSE IF x.outer = "idle" THEN Blank
             ELSE [Blank EXCEPT !.outer = x.outer, !.item = x.item, !.status = x.status]]

Goto(r, pc) == SetRoutine(r, [rt[r] EXCEPT !.inner = pc])

\* The function returns: the result goes to the outer goroutine, if that still waits.
Returns(r, res) ==
    /\ SetRoutine(r, [rt[r] EXCEPT !.inner = "done", !.res = res])
    /\ mutex' = IF rt[r].inner = "check" THEN mutex ELSE mutex \ {VaultOf[rt[r].item]}

\* storage.Set under the item's key, whether or not the item is still stored.
StoreSet(i, e) == store' = [store EXCEPT ![i] = e]

\* Too old to be signed: an item in round 7 retry has its own limit, and the usual one only if
\* its vault is inactive.
Expired(e, s) ==
    \/ e.round7 /\ clock \div Period > MaxAttempts
    \/ (e.round7 => s = "Inactive") /\ clock - Period > 0 - Buffer

\* The bridge fails, or the block scanner of the chain is not healthy.
CheckFails(r) ==
    /\ rt[r].inner = "check"
    /\ Returns(r, "err")
    /\ UNCHANGED <<unSign, store>>

\* Mutant: a discarded item is reported as an error, and so is kept.
DiscardAsError(r) ==
    /\ rt[r].inner = "check"
    /\ \E s \in VaultStatus : Expired(rt[r].entry, s)
    /\ Returns(r, "err")
    /\ UNCHANGED <<unSign, store>>

\* Too old: the item is discarded, which the caller takes for a success.
Discard(r) ==
    /\ rt[r].inner = "check"
    /\ \E s \in VaultStatus : Expired(rt[r].entry, s)
    /\ Returns(r, "ok")
    /\ UNCHANGED <<unSign, store>>

\* So it is when signing is halted, the vault is not ours, or the network has seen the payment.
NotNeeded(r) ==
    /\ rt[r].inner = "check"
    /\ Returns(r, "ok")
    /\ UNCHANGED <<unSign, store>>

\* All checks pass.  A stored signed transaction is sent again, else the item is signed; the
\* chain client's lock on the vault comes first, where it has one.
CheckPasses(r) ==
    /\ rt[r].inner = "check"
    /\ \E s \in VaultStatus : ~Expired(rt[r].entry, s)
    /\ Goto(r, IF Mutexes THEN "mutex" ELSE IF rt[r].entry.signed THEN "send" ELSE "sign")
    /\ UNCHANGED <<unSign, store, mutex>>

VaultLock(r) ==
    /\ rt[r].inner = "mutex"
    /\ VaultOf[rt[r].item] \notin mutex
    /\ mutex' = mutex \cup {VaultOf[rt[r].item]}
    /\ Goto(r, IF rt[r].entry.signed THEN "send" ELSE "sign")
    /\ UNCHANGED <<unSign, store>>

\* SignTx fails, in round 7 or before, or has nothing to return.
SignFails(r) ==
    /\ rt[r].inner = "sign"
    /\ \E res \in {"err", "round7"} : Returns(r, res)
    /\ UNCHANGED <<unSign, store>>

\* SignTx succeeds and the signed transaction is stored.
Sign(r) ==
    LET e == [rt[r].entry EXCEPT !.signed = TRUE] IN
    /\ rt[r].inner = "sign"
    /\ StoreSet(rt[r].item, e)
    /\ SetRoutine(r, [rt[r] EXCEPT !.inner = "send", !.entry = e])
    /\ UNCHANGED <<unSign, mutex>>

Send(r) ==
    /\ rt[r].inner = "send"
    /\ Returns(r, "ok")
    /\ UNCHANGED <<unSign, store>>

\* BroadcastTx fails: the signed transaction is kept for the next attempt, or (Stellar, with
\* tx_bad_seq or tx_malformed) dropped.
SendFails(r) ==
    /\ rt[r].inner = "send"
    /\ \E keep \in {TRUE} \cup (IF Chain = "stellar" THEN {FALSE} ELSE {}) :
           StoreSet(rt[r].item, [rt[r].entry EXCEPT !.signed = keep])
    /\ Returns(r, "err")
    /\ UNCHANGED unSign

-----------------------------------------------------------------------------
(* processTransaction and the deferred releases: the outer goroutine *)

unOuter == <<inbox, sp, mutex, clock>>

\* 5 minutes have passed; the result is dropped even if it is there.
Timeout(r) ==
    /\ rt[r].outer = "run" /\ faults < MaxFaults
    /\ faults' = faults + 1
    /\ SetRoutine(r, [rt[r] EXCEPT !.outer = "unlock"])
    /\ exposed' = exposed \cup {VaultOf[rt[r].item]}
    /\ UNCHANGED <<unOuter, store, sem, lock>>

\* A round 7 failure marks the routine's own copy of the item; a success removes the item.
Settle(r) ==
    LET x == rt[r] IN
    /\ x.outer = "run" /\ x.inner = "done"
    /\ CASE x.res = "ok"     -> StoreSet(x.item, None)
         [] x.res = "round7" -> StoreSet(x.item, [x.entry EXCEPT !.round7 = TRUE])
         [] OTHER            -> UNCHANGED store
    /\ SetRoutine(r, [x EXCEPT !.outer = "unlock"])
    /\ UNCHANGED <<unOuter, sem, lock, faults, exposed>>

\* Mutant: the vault's lock is not released.
UnlockForgotten(r) ==
    /\ rt[r].outer = "unlock"
    /\ SetRoutine(r, [rt[r] EXCEPT !.outer = "release"])
    /\ UNCHANGED <<unOuter, store, sem, lock, faults, exposed>>

\* The deferred release of the vault's lock, then of the capacity.
Unlock(r) ==
    /\ rt[r].outer = "unlock"
    /\ lock' = lock \ {VaultOf[rt[r].item]}
    /\ SetRoutine(r, [rt[r] EXCEPT !.outer = "release"])
    /\ UNCHANGED <<unOuter, store, sem, faults, exposed>>

Release(r) ==
    /\ rt[r].outer = "release"
    /\ sem' = [sem EXCEPT ![rt[r].status] = @ - 1]
    /\ SetRoutine(r, [rt[r] EXCEPT !.outer = "idle"])
    /\ UNCHANGED <<unOuter, store, lock, faults, exposed>>

-----------------------------------------------------------------------------
(* The chain and the process *)

NewBlock ==
    /\ clock < MaxClock
    /\ clock' = clock + 1
    /\ UNCHANGED <<store, inbox, sem, lock, sp, rt, mutex, faults, exposed>>

\* A crash, or a stop: Stop does not wait for the routines.  The store is on disk; the block is
\* scanned again if the scan position was not saved.
Crash ==
    /\ faults < MaxFaults
    /\ faults' = faults + 1
    /\ inbox' \in {{}, Vaults}
    /\ sp' = Idle
    /\ rt' = [r \in Routines |-> Blank]
    /\ sem' = [s \in Statuses |-> 0] /\ lock' = {} /\ mutex' = {}
    /\ UNCHANGED <<store, clock, exposed>>

SpawnStep == List \/ Acquire \/ SpawnDone
ItemStep(i) == Skip(i) \/ GetVaultFails(i) \/ \E s \in VaultStatus : Spawn(i, s)
InnerStep(r) ==
    \/ CheckFails(r) \/ Discard(r) \/ NotNeeded(r) \/ CheckPasses(r) \/ VaultLock(r)
    \/ SignFails(r) \/ Sign(r) \/ Send(r) \/ SendFails(r)
OuterStep(r) == Settle(r) \/ Unlock(r) \/ Release(r)

Next ==
    \/ \E v \in Vaults : Batch(v)
    \/ SpawnStep \/ NewBlock \/ Crash
    \/ \E i \in Items : ItemStep(i)
    \/ \E r \in Routines : InnerStep(r) \/ OuterStep(r) \/ Timeout(r)

(***************************************************************************)
(* The loop and the goroutines go on, blocks are made, the signer's node   *)
(* does not fail for ever, and a keysign ends one way or the other.        *)
(***************************************************************************)
Fairness ==
    /\ WF_vars(SpawnStep) /\ WF_vars(NewBlock)
    /\ \A v \in Vaults : WF_vars(Batch(v))
    /\ \A i \in Items : WF_vars(ItemStep(i)) /\ SF_vars(\E s \in VaultStatus : Spawn(i, s))
    /\ \A r \in Routines :
         WF_vars(InnerStep(r)) /\ WF_vars(OuterStep(r)) /\ SF_vars(Discard(r)) /\ SF_vars(VaultLock(r))

Spec == Init /\ [][Next]_vars /\ Fairness

-----------------------------------------------------------------------------
(* Properties *)

Routine == [outer : {"idle", "run", "unlock", "release"},
            inner : {"check", "mutex", "sign", "send", "done"},
            item : Items \cup {None}, entry : Entry \cup {None},
            res : {"ok", "err", "round7"}, status : Statuses]

\* The type of the state: what the store, the locals of SpawnSignings and the routines can hold.
TypeOK ==
    /\ store \in Listing /\ inbox \subseteq Vaults
    /\ sem \in [Statuses -> Nat] /\ lock \subseteq Vaults /\ mutex \subseteq Vaults
    /\ sp \in [pc : {"idle", "acquire", "loop"}, list : Listing,
               todo : SUBSET Items, locked : SUBSET Vaults, held : [Statuses -> Nat]]
    /\ rt \in [Routines -> Routine]
    /\ clock \in 0..MaxClock /\ faults \in 0..MaxFaults /\ exposed \subseteq Vaults

Holding(s) == {r \in Routines : rt[r].outer # "idle" /\ rt[r].status = s}
Locking(v) == {r \in Routines : rt[r].outer \in {"run", "unlock"} /\ VaultOf[rt[r].item] = v}

\* The tokens of a semaphore are those SpawnSignings holds and one for each routine that has not
\* released its own: SpawnSignings takes all that is left and gives back what it did not hand
\* out, on every return, while routines release theirs at any moment.
CapacityConserved ==
    \A s \in Statuses :
        /\ sem[s] = sp.held[s] + Cardinality(Holding(s))
        /\ sem[s] <= Capacity(s)

\* A vault is locked exactly while one routine answers for it.  The lock is a channel that the
\* loop tests through its own list of locked vaults and that the routine drains in a deferred
\* function, after a time-out too.
LockIsOneRoutine ==
    Locks => \A v \in Vaults : Cardinality(Locking(v)) = IF v \in lock THEN 1 ELSE 0

\* What a comment of SpawnSignings says: "there should be no vault/chain with more than 1 item in
\* retry".  A vault with two is not signed for any more.  It does not hold: Stellar items are spawned
\* together, and a vault that locks can be exposed (below).
AtMostOneRetry == \A v \in Vaults : Cardinality(Retries(store, v)) <= 1

\* Where the pipeline locks vaults, two retries of one vault arise only after a routine of it was
\* abandoned on time-out, was spawned from a list read before an earlier routine had stored its
\* result, or was signing when the block's items were stored anew.
PileUpExposed ==
    Locks => \A v \in Vaults : Cardinality(Retries(store, v)) > 1 => v \in exposed

\* Every item leaves the store for good (paid, discarded as too old or not needed), retries,
\* time-outs and a restart notwithstanding, unless its vault is stuck with two retries.
StoreDrains ==
    <>[](\A i \in Items : store[i] = None \/ Cardinality(Retries(store, VaultOf[i])) > 1)
=============================================================================
