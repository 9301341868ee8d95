-------------------------- MODULE SignAndBroadcast --------------------------
(***************************************************************************)
(* One outbound item of an EVM chain, from the signer's store to the chain *)
(* (bifrost/signer/sign.go, bifrost/pkg/chainclients/evm): how often can   *)
(* it be paid?  Three records stand against a second payment: the item's   *)
(* stored SignedTx (sent again instead of signed again), its Checkpoint    *)
(* (the nonce to sign with after a round 7 failure) and the signer cache   *)
(* of the chain client (not to be signed at all).  SignerPipeline has the  *)
(* loop and the locks in full; here a routine starts with the copy of the  *)
(* item that some earlier list returned, when the vault's lock is free.    *)
(* A signed transaction is the nonce it uses.  The other members of the    *)
(* vault sign the same message, and may broadcast it before this node.     *)
(***************************************************************************)
EXTENDS Integers, FiniteSets, FiniteSetsExt

CONSTANTS
    Routines,       \* names for the routines alive at one time: numbers
    MaxNonce, MaxFaults,    \* bounds; a fault is a time-out or a crash
    None            \* no entry, checkpoint or signed transaction

Nonces == 0..MaxNonce
Entry  == [round7 : BOOLEAN, Checkpoint : Nonces \cup {None}, SignedTx : Nonces \cup {None}]

ASSUME SignAssumption ==
    /\ Routines \subseteq Nat /\ IsFiniteSet(Routines)
    /\ MaxNonce \in Nat /\ MaxFaults \in Nat
    /\ None \notin Nonces \cup Entry

VARIABLES
    store,          \* what is stored of the item, or None
    list,           \* what the loop's last list had of it, or None
    lock,           \* the vault/chain lock
    rt,             \* the routines
    cached,         \* the signer cache has the item
    nonce,          \* the next nonce of the vault's account
    sigs,           \* nonces the item was signed with and that are not used up
    landed,         \* nonces of the item's transactions on the chain
    faults,         \* counter for MaxFaults
    exposed         \* history: a routine was abandoned or started from an
                    \* outdated list, or a crash lost track of a signature

chainVars == <<nonce, sigs, landed>>
vars == <<store, list, lock, rt, cached, chainVars, faults, exposed>>

Fresh == [round7 |-> FALSE, Checkpoint |-> None, SignedTx |-> None]
Blank == [outer |-> "idle", inner |-> "done", entry |-> None, nonce |-> None, res |-> "err"]

\* The item has just been stored.
Init ==
    /\ store = Fresh /\ list = None /\ lock = FALSE
    /\ rt = [r \in Routines |-> Blank]
    /\ cached = FALSE
    /\ nonce = 0 /\ sigs = {} /\ landed = {}
    /\ faults = 0 /\ exposed = FALSE

-----------------------------------------------------------------------------
(* The loop *)

\* storageList at the start of SpawnSignings; the list is used later.
List ==
    /\ store # None /\ list = None
    /\ list' = store
    /\ UNCHANGED <<store, lock, rt, cached, chainVars, faults, exposed>>

\* Lock taken, no capacity, another item first, or GetVault fails.
Skip ==
    /\ list # None
    /\ list' = None
    /\ UNCHANGED <<store, lock, rt, cached, chainVars, faults, exposed>>

Spawn ==
    LET r == Min({q \in Routines : rt[q] = Blank}) IN
    /\ list # None /\ ~lock
    /\ \E q \in Routines : rt[q] = Blank
    /\ lock' = TRUE /\ list' = None
    /\ rt' = [rt EXCEPT ![r] = [Blank EXCEPT !.outer = "run", !.inner = "check", !.entry = list]]
    /\ exposed' = (exposed \/ list # store)
    /\ UNCHANGED <<store, cached, chainVars, faults>>

-----------------------------------------------------------------------------
(* signAndBroadcast: the inner goroutine *)

unSign == <<list, lock, faults, exposed>>

\* A routine whose two goroutines have ended is no more.
SetRoutine(r, x) ==
    rt' = [rt EXCEPT ![r] = IF x.outer = "idle" /\ x.inner = "done" THEN Blank ELSE x]

Returns(r, n, res) == SetRoutine(r, [rt[r] EXCEPT !.inner = "done", !.nonce = n, !.res = res])

\* The checks before signing: an error, or the item is discarded (too old, halted, ...) ...
CheckFails(r) ==
    /\ rt[r].inner = "check"
    /\ \E res \in {"err", "ok"} : Returns(r, None, res)
    /\ UNCHANGED <<unSign, store, cached, chainVars>>

\* ... or they pass: the stored SignedTx is sent again; else SignTx asks the signer cache.
CheckPasses(r) ==
    LET x == rt[r] IN
    /\ x.inner = "check"
    /\ SetRoutine(r, IF x.entry.SignedTx # None
                     THEN [x EXCEPT !.inner = "send", !.nonce = x.entry.SignedTx]
                     ELSE [x EXCEPT !.inner = "cache"])
    /\ UNCHANGED <<unSign, store, cached, chainVars>>

\* Mutant: SignTx does not ask the signer cache.
HasSignedIgnored(r) ==
    /\ rt[r].inner = "cache"
    /\ SetRoutine(r, [rt[r] EXCEPT !.inner = "nonce"])
    /\ UNCHANGED <<unSign, store, cached, chainVars>>

\* SignTx returns nothing for an item that the cache has: no signed transaction, an error.
HasSigned(r) ==
    /\ rt[r].inner = "cache"
    /\ IF cached THEN Returns(r, None, "err")
                 ELSE SetRoutine(r, [rt[r] EXCEPT !.inner = "nonce"])
    /\ UNCHANGED <<unSign, store, cached, chainVars>>

\* The nonce of the checkpoint, or the account's next one.
GetNonce(r) ==
    LET x == rt[r] IN
    /\ x.inner = "nonce"
    /\ SetRoutine(r, [x EXCEPT !.inner = "sign",
                        !.nonce = IF x.entry.Checkpoint # None THEN x.entry.Checkpoint ELSE nonce])
    /\ UNCHANGED <<unSign, store, cached, chainVars>>

\* A signature exists; it is of use while its nonce is not used up.
NewSignature(n) == sigs' = sigs \cup {m \in {n} : m >= nonce}

\* The keysign fails for everybody, ...
SignFails(r) ==
    /\ rt[r].inner = "sign"
    /\ Returns(r, None, "err")
    /\ UNCHANGED <<unSign, store, cached, chainVars>>

\* Mutant: the checkpoint is the nonce after the one that was tried.
SignRound7NextNonce(r) ==
    /\ rt[r].inner = "sign"
    /\ NewSignature(rt[r].nonce)
    /\ Returns(r, rt[r].nonce + 1, "round7")
    /\ UNCHANGED <<unSign, store, cached, nonce, landed>>

\* ... fails here in round 7, where others may have got the signature, ...
SignRound7(r) ==
    /\ rt[r].inner = "sign"
    /\ NewSignature(rt[r].nonce)
    /\ Returns(r, rt[r].nonce, "round7")
    /\ UNCHANGED <<unSign, store, cached, nonce, landed>>

\* ... or succeeds.
Sign(r) ==
    /\ rt[r].inner = "sign"
    /\ NewSignature(rt[r].nonce)
    /\ SetRoutine(r, [rt[r] EXCEPT !.inner = "store"])
    /\ UNCHANGED <<unSign, store, cached, nonce, landed>>

\* The signed transaction is stored before it is sent, with the checkpoint a success returns: none.
StoreSigned(r) ==
    LET e == [rt[r].entry EXCEPT !.SignedTx = rt[r].nonce, !.Checkpoint = None] IN
    /\ rt[r].inner = "store"
    /\ store' = e
    /\ SetRoutine(r, [rt[r] EXCEPT !.inner = "send", !.entry = e])
    /\ UNCHANGED <<unSign, cached, chainVars>>

\* The chain includes the item's transaction with the account's next nonce.
Land(n) ==
    /\ n = nonce /\ nonce < MaxNonce
    /\ nonce' = nonce + 1
    /\ landed' = landed \cup {n}
    /\ sigs' = sigs \ {n}

\* SendTransaction: included, or the nonce is used up, which isAcceptableError takes for success.
Send(r) ==
    /\ rt[r].inner = "send"
    /\ Land(rt[r].nonce) \/ (rt[r].nonce < nonce /\ UNCHANGED chainVars)
    /\ SetRoutine(r, [rt[r] EXCEPT !.inner = "mark"])
    /\ UNCHANGED <<unSign, store, cached>>

\* The signer cache is told at the end of BroadcastTx.
SetSigned(r) ==
    /\ rt[r].inner = "mark"
    /\ cached' = TRUE
    /\ Returns(r, None, "ok")
    /\ UNCHANGED <<unSign, store, chainVars>>

\* BroadcastTx fails, and the signed transaction is stored for the next attempt.
SendFails(r) ==
    /\ rt[r].inner = "send"
    /\ store' = [rt[r].entry EXCEPT !.SignedTx = rt[r].nonce]
    /\ Returns(r, None, "err")
    /\ UNCHANGED <<unSign, cached, chainVars>>

-----------------------------------------------------------------------------
(* processTransaction: the outer goroutine *)

\* Mutant: the nonce of the failed attempt is not kept.
SettleNoCheckpoint(r) ==
    LET x == rt[r] IN
    /\ x.outer = "run" /\ x.inner = "done"
    /\ store' = CASE x.res = "ok"     -> None
                  [] x.res = "round7" -> [x.entry EXCEPT !.round7 = TRUE]
                  [] OTHER            -> store
    /\ lock' = FALSE
    /\ SetRoutine(r, Blank)
    /\ UNCHANGED <<list, cached, chainVars, faults, exposed>>

\* A success removes the item, a round 7 failure marks the copy of it that the routine started
\* with; then the lock is released.
Settle(r) ==
    LET x == rt[r] IN
    /\ x.outer = "run" /\ x.inner = "done"
    /\ store' = CASE x.res = "ok"     -> None
                  [] x.res = "round7" -> [x.entry EXCEPT !.round7 = TRUE, !.Checkpoint = x.nonce]
                  [] OTHER            -> store
    /\ lock' = FALSE
    /\ SetRoutine(r, Blank)
    /\ UNCHANGED <<list, cached, chainVars, faults, exposed>>

\* 5 minutes have passed: the lock is released, the result dropped, and the inner one goes on.
Timeout(r) ==
    /\ rt[r].outer = "run" /\ faults < MaxFaults
    /\ faults' = faults + 1
    /\ lock' = FALSE
    /\ SetRoutine(r, [rt[r] EXCEPT !.outer = "idle"])
    /\ exposed' = TRUE
    /\ UNCHANGED <<store, list, cached, chainVars>>

-----------------------------------------------------------------------------
(* The other members of the vault, its other transactions, and the process *)

PeerBroadcast(n) ==
    /\ Land(n)
    /\ UNCHANGED <<store, list, lock, rt, cached, faults, exposed>>

OtherTx ==
    /\ nonce < MaxNonce
    /\ nonce' = nonce + 1
    /\ sigs' = sigs \ {nonce}
    /\ UNCHANGED <<store, list, lock, rt, cached, landed, faults, exposed>>

\* The node holds or has contributed to a signature that the item's entry does not tell of.
Unrecorded(r) == rt[r].inner = "store" \/ (rt[r].outer = "run" /\ rt[r].res = "round7")

\* A crash, or a stop.  The store and the signer cache are on disk.  If the scan position was
\* not saved the block is scanned again, and Batch stores the item anew.
Crash ==
    /\ faults < MaxFaults
    /\ faults' = faults + 1
    /\ rt' = [r \in Routines |-> Blank]
    /\ lock' = FALSE /\ list' = None
    /\ \E again \in BOOLEAN :
         /\ store' = IF again THEN Fresh ELSE store
         /\ exposed' = (exposed \/ (again /\ store # Fresh /\ ~cached) \/ \E r \in Routines : Unrecorded(r))
    /\ UNCHANGED <<cached, chainVars>>

Next ==
    \/ List \/ Skip \/ Spawn \/ OtherTx \/ Crash
    \/ \E n \in sigs : PeerBroadcast(n)
    \/ \E r \in Routines :
         \/ CheckFails(r) \/ CheckPasses(r) \/ HasSigned(r) \/ GetNonce(r)
         \/ SignFails(r) \/ SignRound7(r) \/ Sign(r) \/ StoreSigned(r)
         \/ Send(r) \/ SetSigned(r) \/ SendFails(r) \/ Settle(r) \/ Timeout(r)

Spec == Init /\ [][Next]_vars

-----------------------------------------------------------------------------
(* Properties *)

\* The type of the state: one stored entry at most, with a nonce for checkpoint and signed
\* transaction.
TypeOK ==
    /\ store \in Entry \cup {None} /\ list \in Entry \cup {None} /\ lock \in BOOLEAN
    /\ rt \in [Routines -> [outer : {"idle", "run"},
                  inner : {"check", "cache", "nonce", "sign", "store", "send", "mark", "done"},
                  entry : Entry \cup {None}, nonce : Nonces \cup {None}, res : {"ok", "err", "round7"}]]
    /\ cached \in BOOLEAN /\ nonce \in Nonces /\ sigs \subseteq Nonces /\ landed \subseteq Nonces
    /\ faults \in 0..MaxFaults /\ exposed \in BOOLEAN

\* The outbound is on the chain at most once: the stored SignedTx and Checkpoint keep a retry on
\* the nonce of the attempt before, whoever of the vault's members broadcasts it.  Not so once a
\* routine was abandoned on time-out, worked from an outdated list, or a crash came between a
\* signature and its record.
PaidAtMostOnce == ~exposed => Cardinality(landed) <= 1

\* An item that BroadcastTx has marked in the signer cache gets no further signature of use, with
\* the same exceptions: the cache is asked at the start of SignTx and set at the end of BroadcastTx.
NotSignedOnceCached == [][cached /\ sigs' \ sigs # {} => exposed]_vars
=============================================================================
