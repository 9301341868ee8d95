---------------------------- MODULE ObserverDeck ----------------------------
(***************************************************************************)
(* The observer's deck (bifrost/observer/observe.go, observer_storage.go): *)
(* the transactions of an external chain that this validator has seen and  *)
(* that Switchly has not committed with its attestation yet.  Every second *)
(* the deck is attested again; what is on it is kept in a LevelDB as well, *)
(* so that it survives a restart.  Entries are keyed by the height at      *)
(* which their transactions are final: the height of the first one's block *)
(* plus the confirmations required.                                        *)
(***************************************************************************)
EXTENDS Integers, Sequences, FiniteSets

CONSTANTS
    Tx,             \* transactions of the external chain
    Input,          \* what chain clients report: a block's transactions, filtered
    MaxHeight       \* bound: the last block of the external chain

Key == 0 .. MaxHeight

Item == [tx : Tx, bh : Key, committedUnFinalised : BOOLEAN]

Entry == [txs : Seq(Item), conf : Nat]

NoEntry == [txs |-> << >>, conf |-> 0]

ASSUME DeckAssumption ==
    /\ MaxHeight \in Nat
    /\ Input \subseteq [txs : Seq(Tx) \ {<< >>}, bh : Key, conf : Nat]
    /\ \A in \in Input : in.bh + in.conf \in Key

VARIABLES
    onDeck,         \* key -> entry, or NoEntry
    disk,           \* the same map in the ObserverStorage
    height,         \* the external chain's height
    working,        \* inputs that goroutines of processTxIns have accepted
    nodeStatus,     \* what Switchly says this node is: is it Active?
    lastNodeStatus, \* what sendDeck last saw; "Unknown" after a start
    clearing,       \* sendDeck has emptied the map and not the storage yet
    attested,       \* history: the observations attested, [tx, key, final]
    erred,          \* history: <<tx, height>> that a reorganisation removed
    clearRaced,     \* history: the storage was emptied under a non-empty map
    erased          \* history: keys of entries whose record went with another entry

deckVars == <<onDeck, disk, height, working, nodeStatus, lastNodeStatus, clearing,
              attested, erred, clearRaced, erased>>

Status == {"Active", "Standby"}

DeckTypeOK ==
    /\ onDeck \in [Key -> Entry] /\ disk \in [Key -> Entry]
    /\ height \in Key
    /\ working \subseteq Input
    /\ nodeStatus \in Status /\ lastNodeStatus \in Status \cup {"Unknown"}
    /\ clearing \in BOOLEAN /\ clearRaced \in BOOLEAN
    /\ attested \subseteq [tx : Tx, key : Key, final : BOOLEAN]
    /\ erred \subseteq Tx \X Key /\ erased \subseteq Key

DeckInit ==
    /\ onDeck = [k \in Key |-> NoEntry] /\ disk = onDeck
    /\ height = 0
    /\ working = {}
    /\ nodeStatus = "Active" /\ lastNodeStatus = "Unknown"
    /\ clearing = FALSE /\ clearRaced = FALSE
    /\ attested = {}
    /\ erred = {} /\ erased = {}

-----------------------------------------------------------------------------
(* ObserverStorage *)

Present(e) == e.txs # << >>

TxInKey(e) == e.txs[1].bh + e.conf

AddOrUpdateTx(d, e) == [d EXCEPT ![TxInKey(e)] = e]

RemoveTx(d, finalizeHeight) == [d EXCEPT ![finalizeHeight] = NoEntry]

GetOnDeckTxs(d) == {d[k] : k \in {j \in Key : Present(d[j])}}

\* The entry of key k changes, in the map and in the storage ...
Put(k, e) ==
    /\ onDeck' = [onDeck EXCEPT ![k] = e]
    /\ disk' = AddOrUpdateTx(disk, e)
    /\ erased' = erased \ {TxInKey(e)}

\* ... or goes, its record being looked for under some height.
Drop(k, finalizeHeight) ==
    /\ onDeck' = [onDeck EXCEPT ![k] = NoEntry]
    /\ disk' = RemoveTx(disk, finalizeHeight)
    /\ erased' = IF Present(onDeck[finalizeHeight]) THEN (erased \cup {finalizeHeight}) \ {k} ELSE erased

\* restoreDeck: the records of the storage, under the keys they compute to.
restoreDeck(d) ==
    [k \in Key |->
       LET here == {e \in GetOnDeckTxs(d) : TxInKey(e) = k}
       IN  IF here = {} THEN NoEntry ELSE CHOOSE e \in here : TRUE]

-----------------------------------------------------------------------------
(* New observations *)

\* A chain client reports a block; processTxIns hands it to a goroutine unless
\* the node was not active when sendDeck last looked.
processTxIns(in) ==
    /\ in.bh <= height
    /\ \A i \in 1 .. Len(in.txs) : <<in.txs[i], in.bh>> \notin erred
    /\ lastNodeStatus = "Active"
    /\ working' = working \cup {in}
    /\ UNCHANGED <<onDeck, disk, height, nodeStatus, lastNodeStatus, clearing, attested, erred, clearRaced, erased>>

ItemsOf(in) ==
    [i \in 1 .. Len(in.txs) |-> [tx |-> in.txs[i], bh |-> in.bh, committedUnFinalised |-> FALSE]]

SameItem(a, b) == a.tx = b.tx /\ a.bh = b.bh

\* The transactions of in that the entry e does not have, in their order: a set
\* of one sequence.
NewTxs(e, in) ==
    LET new == {i \in 1 .. Len(in.txs) : \A j \in 1 .. Len(e.txs) : ~SameItem(e.txs[j], ItemsOf(in)[i])}
    IN  {[n \in 1 .. Cardinality(new) |-> ItemsOf(in)[f[n]]] :
            f \in {g \in [1 .. Cardinality(new) -> new] : \A m, n \in DOMAIN g : m < n => g[m] < g[n]}}

\* Mutant: what a known height gains is not saved.
mergeUnsaved(in) ==
    LET k == in.bh + in.conf IN
    IF Present(onDeck[k])
    THEN /\ \E new \in NewTxs(onDeck[k], in) : onDeck' = [onDeck EXCEPT ![k].txs = @ \o new]
         /\ UNCHANGED <<disk, erased>>
    ELSE Put(k, [txs |-> ItemsOf(in), conf |-> in.conf])

merge(in) ==
    LET k == in.bh + in.conf IN
    IF Present(onDeck[k])
    THEN \E new \in NewTxs(onDeck[k], in) :
           IF new = << >> THEN UNCHANGED <<onDeck, disk, erased>>
           ELSE Put(k, [onDeck[k] EXCEPT !.txs = @ \o new])
    ELSE Put(k, [txs |-> ItemsOf(in), conf |-> in.conf])

processObservedTx(in) ==
    /\ in \in working
    /\ working' = working \ {in}
    /\ merge(in)
    /\ UNCHANGED <<height, nodeStatus, lastNodeStatus, clearing, attested, erred, clearRaced>>

-----------------------------------------------------------------------------
(* Transactions leave the deck *)

Indices(e, t) == {i \in 1 .. Len(e.txs) : e.txs[i].tx = t}

First(S) == CHOOSE i \in S : \A j \in S : i <= j

\* Mutant: the confirmations required are not adjusted when the first one goes.
WithoutStale(k, e, i) ==
    [txs |-> SubSeq(e.txs, 1, i - 1) \o SubSeq(e.txs, i + 1, Len(e.txs)), conf |-> e.conf]

\* Mutant: they are, the wrong way round.
WithoutSwapped(k, e, i) ==
    LET rest == SubSeq(e.txs, 1, i - 1) \o SubSeq(e.txs, i + 1, Len(e.txs))
    IN  [txs |-> rest, conf |-> IF i = 1 /\ rest # << >> THEN rest[1].bh - k ELSE e.conf]

\* The entry of key k without its i-th transaction: the key stays what it was.
Without(k, e, i) ==
    LET rest == SubSeq(e.txs, 1, i - 1) \o SubSeq(e.txs, i + 1, Len(e.txs))
    IN  [txs |-> rest, conf |-> IF i = 1 /\ rest # << >> THEN k - rest[1].bh ELSE e.conf]

\* Mutant: the record is looked for under the height of its block.
CommittedAtBlock(t, k, final) ==
    LET e == onDeck[k]
        i == First(Indices(e, t))
        r == IF final THEN Without(k, e, i)
             ELSE [e EXCEPT !.txs[i].committedUnFinalised = TRUE]
    IN  IF Indices(e, t) = {} THEN UNCHANGED <<onDeck, disk, erased>>
        ELSE IF Present(r) THEN Put(k, r) ELSE Drop(k, e.txs[1].bh)

\* handleObservedTxCommitted: Switchly committed tx t of key k with this node's
\* attestation.
handleObservedTxCommitted(t, k, final) ==
    LET e == onDeck[k]
        i == First(Indices(e, t))
        r == IF final THEN Without(k, e, i)
             ELSE [e EXCEPT !.txs[i].committedUnFinalised = TRUE]
    IN  IF Indices(e, t) = {} THEN UNCHANGED <<onDeck, disk, erased>>
        ELSE IF Present(r) THEN Put(k, r) ELSE Drop(k, k)

Committed(t, k, final) ==
    /\ handleObservedTxCommitted(t, k, final)
    /\ UNCHANGED <<height, working, nodeStatus, lastNodeStatus, clearing, attested, erred, clearRaced>>

\* filterErrataTx: the loop over the block's transactions ends with the first
\* one that is on deck, and its record is removed under the block's height.
filterErrataTx(h, txs) ==
    LET found == {j \in 1 .. Len(txs) : \E k \in Key : Indices(onDeck[k], txs[j]) # {}}
        t     == txs[First(found)]
    IN  IF found = {} THEN UNCHANGED <<onDeck, disk, erased>>
        ELSE \E k \in Key :
               /\ Indices(onDeck[k], t) # {}
               /\ LET r == Without(k, onDeck[k], First(Indices(onDeck[k], t)))
                  IN  IF Present(r) THEN Put(k, r) ELSE Drop(k, h)

\* A reorganisation removed txs from the block at height h (ErrataBlock); the
\* chain clients report only transactions that no block holds any more.
processErrataTx(h, txs) ==
    /\ \E in \in Input :
         /\ in.bh = h /\ h <= height
         /\ \A j \in 1 .. Len(txs) : \E i \in 1 .. Len(in.txs) : in.txs[i] = txs[j] /\ <<in.txs[i], h>> \notin erred
    /\ filterErrataTx(h, txs)
    /\ erred' = erred \cup {<<txs[j], g>> : j \in 1 .. Len(txs), g \in 0 .. height}
    /\ UNCHANGED <<height, working, nodeStatus, lastNodeStatus, clearing, attested, clearRaced>>

-----------------------------------------------------------------------------
(* sendDeck *)

ConfirmationCountReady(k) == height >= k

\* getSwitchlyTxIns for every entry: an observation committed before it was
\* final is not attested again until it is.
Attestable ==
    UNION {{[tx |-> onDeck[k].txs[i].tx, key |-> k, final |-> ConfirmationCountReady(k)] :
               i \in {j \in 1 .. Len(onDeck[k].txs) :
                        onDeck[k].txs[j].committedUnFinalised => ConfirmationCountReady(k)}} :
           k \in Key}

\* The node is active: everything on deck goes to AttestObservedTx.
sendDeck ==
    /\ ~clearing
    /\ nodeStatus = "Active"
    /\ lastNodeStatus' = nodeStatus
    /\ attested' = attested \cup Attestable
    /\ UNCHANGED <<onDeck, disk, height, working, nodeStatus, clearing, erred, clearRaced, erased>>

\* The node is no longer active: the map is emptied under the lock ...
sendDeckInactive ==
    /\ ~clearing
    /\ nodeStatus # "Active" /\ lastNodeStatus # nodeStatus
    /\ lastNodeStatus' = nodeStatus
    /\ onDeck' = [k \in Key |-> NoEntry]
    /\ clearing' = TRUE
    /\ UNCHANGED <<disk, height, working, nodeStatus, attested, erred, clearRaced, erased>>

\* ... and the storage after it, without the lock.
RemoveAllTxs ==
    /\ clearing
    /\ disk' = [k \in Key |-> NoEntry]
    /\ clearing' = FALSE
    /\ clearRaced' = (clearRaced \/ \E k \in Key : Present(onDeck[k]))
    /\ UNCHANGED <<onDeck, height, working, nodeStatus, lastNodeStatus, attested, erred, erased>>

-----------------------------------------------------------------------------
(* The world around it *)

NewBlock ==
    /\ height < MaxHeight
    /\ height' = height + 1
    /\ UNCHANGED <<onDeck, disk, working, nodeStatus, lastNodeStatus, clearing, attested, erred, clearRaced, erased>>

Churn ==
    /\ nodeStatus' \in Status \ {nodeStatus}
    /\ UNCHANGED <<onDeck, disk, height, working, lastNodeStatus, clearing, attested, erred, clearRaced, erased>>

\* The process ends at any point and starts again.
Restart ==
    /\ onDeck' = restoreDeck(disk)
    /\ working' = {}
    /\ lastNodeStatus' = "Unknown"
    /\ clearing' = FALSE
    /\ clearRaced' = FALSE /\ erased' = {}
    /\ UNCHANGED <<disk, height, nodeStatus, attested, erred>>

\* The transactions of one block that a reorganisation may remove together.
ErrataTxs == {<<t>> : t \in Tx} \cup {p \in Tx \X Tx : p[1] # p[2]}

DeckNext ==
    \/ \E in \in Input : processTxIns(in) \/ processObservedTx(in)
    \/ \E a \in attested : Committed(a.tx, a.key, a.final)
    \/ \E h \in Key : \E txs \in ErrataTxs : processErrataTx(h, txs)
    \/ sendDeck \/ sendDeckInactive \/ RemoveAllTxs
    \/ NewBlock \/ Churn \/ Restart

DeckSpec == DeckInit /\ [][DeckNext]_deckVars

-----------------------------------------------------------------------------
(* Properties *)

\* Whatever was merged, committed, dropped by an errata or restored before, a
\* restart brings back every transaction on deck, under its key and with its
\* flag: nothing observed is forgotten.  There are two exceptions: an observation that
\* a goroutine stored between the two halves of sendDeck's clearing, and an entry
\* that is final at the height of a block whose errata emptied another entry: that
\* errata removed this entry's record (below), and nothing else does.
DeckSurvivesRestart ==
    ~clearing /\ ~clearRaced =>
        \A k \in Key \ erased : Present(onDeck[k]) => restoreDeck(disk)[k] = onDeck[k]

\* What the storage holds beyond the deck is what an errata took off the deck:
\* RemoveTx is called with the height of the errata's block there, which is not
\* the record's key unless no confirmations are required.
DiskHoldsDeckOrErrata ==
    ~clearing =>
        \A k \in Key : Present(disk[k]) /\ ~Present(onDeck[k]) =>
            \A i \in 1 .. Len(disk[k].txs) : <<disk[k].txs[i].tx, disk[k].txs[i].bh>> \in erred

\* Every transaction of the errata's block leaves the deck: "the transaction that
\* has been re-org out ,still in bifrost memory waiting for confirmation, as such,
\* it should be removed from ondeck tx queue, and not forward it to SWITCHLYChain"
\* (observe.go:598-599).
ErrataLeavesDeck ==
    [][\A k \in Key : \A i \in 1 .. Len(onDeck'[k].txs) :
         <<onDeck'[k].txs[i].tx, onDeck'[k].txs[i].bh>> \notin erred' \ erred]_deckVars
=============================================================================
