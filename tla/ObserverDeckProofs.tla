------------------------- MODULE ObserverDeckProofs -------------------------
(***************************************************************************)
(* For any transactions, blocks and chain height: the deck in memory and   *)
(* its records on disk are one map but for the cases ObserverDeck names,   *)
(* so that a restart at any point brings the deck back.                    *)
(***************************************************************************)
EXTENDS ObserverDeck, FiniteSetTheorems, SequenceTheorems, WellFoundedInduction, TLAPS

-----------------------------------------------------------------------------
(* The inductive invariant *)

\* An entry of key k at chain height h: its key is that of its first transaction,
\* and every transaction is from a block that exists and is not above the key.
Good(e, k, h) ==
    /\ e \in Entry
    /\ Present(e) => /\ TxInKey(e) = k
                     /\ \A i \in 1 .. Len(e.txs) : e.txs[i].bh <= k /\ e.txs[i].bh <= h

\* A record under the key of an entry on deck is that entry, and it is missing
\* only after the clearing was raced or an errata erased it.
Mirror ==
    ~clearing =>
        \A k \in Key : Present(onDeck[k]) =>
            /\ Present(disk[k]) => disk[k] = onDeck[k]
            /\ clearRaced \/ k \in erased \/ Present(disk[k])

DeckInv ==
    /\ DeckTypeOK
    /\ \A k \in Key : Good(onDeck[k], k, height)
    /\ \A k \in Key : Good(disk[k], k, height)
    /\ \A in \in working : in.bh <= height
    /\ Mirror
    /\ DiskHoldsDeckOrErrata

-----------------------------------------------------------------------------
(* Entries *)

\* The keys of the deck are the heights.
LEMMA KeyIsNat == MaxHeight \in Nat /\ Key \subseteq Nat /\ 0 \in Key
BY DeckAssumption DEF Key

\* The lowest of some heights is one of them.
LEMMA FirstIsMember ==
    ASSUME NEW S, S \subseteq Nat, S # {}
    PROVE  First(S) \in S
<1>1. IsWellFoundedOn(OpToRel(<, Nat), Nat)
    BY NatLessThanWellFounded
<1>2. PICK x \in S : \A y \in S : ~(<<y, x>> \in OpToRel(<, Nat))
    BY <1>1, WFMin
<1>3. \A y \in S : y < x => <<y, x>> \in OpToRel(<, Nat)
    BY DEF OpToRel
<1>4. \A y \in S : ~(y < x)
    BY <1>2, <1>3
<1>5. \A y \in S : x <= y
    BY <1>4
<1> QED
    BY <1>5 DEF First

\* The entry that stands for no entry is absent.
LEMMA NoEntryType == NoEntry \in Entry /\ ~Present(NoEntry)
BY DEF NoEntry, Entry, Present

\* An entry is present when it has transactions.
LEMMA PresentLen ==
    ASSUME NEW e \in Entry
    PROVE  Len(e.txs) \in Nat /\ (Present(e) <=> Len(e.txs) > 0)
BY EmptySeq, LenProperties DEF Entry, Present

\* The transactions of an entry are items.
LEMMA ItemType ==
    ASSUME NEW e \in Entry
    PROVE  \A i \in 1 .. Len(e.txs) : e.txs[i] \in Item /\ e.txs[i].bh \in Nat
<1>1. e.txs \in Seq(Item)
    BY DEF Entry
<1>2. \A i \in 1 .. Len(e.txs) : e.txs[i] \in Item
    BY <1>1, ElementOfSeq
<1> QED
    BY <1>2, KeyIsNat DEF Item

\* What a report becomes on the deck.
LEMMA ItemsOfType ==
    ASSUME NEW in \in Input
    PROVE  /\ ItemsOf(in) \in Seq(Item) /\ Len(ItemsOf(in)) = Len(in.txs) /\ Len(in.txs) \in Nat /\ Len(in.txs) > 0
           /\ \A i \in 1 .. Len(in.txs) : ItemsOf(in)[i] \in Item /\ ItemsOf(in)[i].bh = in.bh
           /\ in.bh \in Key /\ in.conf \in Nat /\ in.bh + in.conf \in Key
<1>1. in \in [txs : Seq(Tx) \ {<< >>}, bh : Key, conf : Nat] /\ in.bh + in.conf \in Key
    BY DeckAssumption
<1>2. in.txs \in Seq(Tx) /\ in.txs # << >> /\ in.bh \in Key /\ in.conf \in Nat
    BY <1>1
<1>3. Len(in.txs) \in Nat /\ Len(in.txs) > 0 /\ \A i \in 1 .. Len(in.txs) : in.txs[i] \in Tx
    BY <1>2
<1>4. \A i \in 1 .. Len(in.txs) : [tx |-> in.txs[i], bh |-> in.bh, committedUnFinalised |-> FALSE] \in Item
    BY <1>2, <1>3 DEF Item
<1>5. ItemsOf(in) \in [1 .. Len(in.txs) -> Item]
    BY <1>4 DEF ItemsOf
<1>6. ItemsOf(in) \in Seq(Item) /\ Len(ItemsOf(in)) = Len(in.txs)
    BY <1>3, <1>5, IsASeq
<1> QED
    BY <1>1, <1>2, <1>3, <1>4, <1>6 DEF ItemsOf

\* A report makes a new entry.
LEMMA NewEntryGood ==
    ASSUME NEW in \in Input, NEW h \in Nat, in.bh <= h
    PROVE  LET e == [txs |-> ItemsOf(in), conf |-> in.conf]
           IN  Good(e, in.bh + in.conf, h) /\ Present(e)
<1> DEFINE e == [txs |-> ItemsOf(in), conf |-> in.conf]
<1>1. e \in Entry /\ Len(e.txs) = Len(in.txs)
    BY ItemsOfType DEF Entry
<1>2. Present(e)
    BY <1>1, ItemsOfType, PresentLen
<1>3. in.bh <= in.bh + in.conf
    BY ItemsOfType, KeyIsNat
<1>4. \A i \in 1 .. Len(e.txs) : e.txs[i].bh = in.bh
    BY <1>1, ItemsOfType
<1>5. 1 \in 1 .. Len(e.txs)
    BY <1>1, ItemsOfType
<1>6. TxInKey(e) = in.bh + in.conf
    BY <1>4, <1>5 DEF TxInKey
<1> QED
    BY <1>1, <1>2, <1>3, <1>4, <1>6 DEF Good

\* The new transactions of a report are transactions of it.
LEMMA NewTxsType ==
    ASSUME NEW in \in Input, NEW e, NEW new \in NewTxs(e, in)
    PROVE  new \in Seq(Item) /\ \A i \in 1 .. Len(new) : new[i].bh = in.bh
<1> DEFINE fresh == {i \in 1 .. Len(in.txs) : \A j \in 1 .. Len(e.txs) : ~SameItem(e.txs[j], ItemsOf(in)[i])}
           c == Cardinality(fresh)
<1>1. c \in Nat
    <2>1. IsFiniteSet(1 .. Len(in.txs))
        BY ItemsOfType, FS_Interval
    <2> QED
        BY <2>1, FS_Subset, FS_CardinalityType
<1>2. PICK f \in [1 .. c -> fresh] : new = [n \in 1 .. c |-> ItemsOf(in)[f[n]]]
    BY DEF NewTxs
<1> HIDE DEF c
<1>3. \A n \in 1 .. c : ItemsOf(in)[f[n]] \in Item /\ ItemsOf(in)[f[n]].bh = in.bh
    BY ItemsOfType
<1>4. new \in [1 .. c -> Item]
    BY <1>2, <1>3
<1>5. new \in Seq(Item) /\ Len(new) = c
    BY <1>1, <1>4, IsASeq
<1> QED
    BY <1>2, <1>3, <1>5

\* They are appended to the entry of the report's key.
LEMMA MergedGood ==
    ASSUME NEW in \in Input, NEW h \in Nat, in.bh <= h, NEW e, Good(e, in.bh + in.conf, h), Present(e),
           NEW new \in NewTxs(e, in)
    PROVE  LET m == [e EXCEPT !.txs = @ \o new]
           IN  Good(m, in.bh + in.conf, h) /\ Present(m)
<1> DEFINE m == [e EXCEPT !.txs = @ \o new]
           k == in.bh + in.conf
<1>1. e \in Entry /\ e.txs \in Seq(Item) /\ Len(e.txs) \in Nat /\ Len(e.txs) > 0
    BY PresentLen DEF Good, Entry
<1>2. new \in Seq(Item) /\ \A i \in 1 .. Len(new) : new[i].bh = in.bh
    BY NewTxsType
<1>3. m.txs = e.txs \o new /\ m.conf = e.conf
    BY <1>1 DEF Entry
<1>4. /\ e.txs \o new \in Seq(Item) /\ Len(e.txs \o new) = Len(e.txs) + Len(new)
      /\ \A i \in 1 .. Len(e.txs) + Len(new) :
            (e.txs \o new)[i] = IF i <= Len(e.txs) THEN e.txs[i] ELSE new[i - Len(e.txs)]
    BY <1>1, <1>2, ConcatProperties
<1>5. m \in Entry
    BY <1>1, <1>4 DEF Entry
<1>6. Len(new) \in Nat
    BY <1>2
<1>7. Present(m)
    <2>1. Len(m.txs) > 0
        BY <1>1, <1>3, <1>4, <1>6
    <2> QED
        BY <1>5, <2>1, PresentLen
<1>8. m.txs[1] = e.txs[1]
    BY <1>1, <1>3, <1>4, <1>6
<1>9. TxInKey(m) = k
    BY <1>3, <1>8 DEF TxInKey, Good
<1>10. in.bh <= k
    <2>1. in.bh \in Nat /\ in.conf \in Nat
        BY ItemsOfType, KeyIsNat
    <2> QED
        BY <2>1
<1>11. \A i \in 1 .. Len(e.txs) : e.txs[i].bh <= k /\ e.txs[i].bh <= h
    BY DEF Good
<1>12. ASSUME NEW i \in 1 .. Len(m.txs) PROVE m.txs[i].bh <= k /\ m.txs[i].bh <= h
    <2>1. CASE i <= Len(e.txs)
        BY <1>1, <1>3, <1>4, <1>6, <1>11, <2>1
    <2>2. CASE ~(i <= Len(e.txs))
        <3>1. i - Len(e.txs) \in 1 .. Len(new) /\ m.txs[i] = new[i - Len(e.txs)]
            BY <1>1, <1>3, <1>4, <1>6, <2>2
        <3> QED
            BY <1>2, <1>10, <3>1
    <2> QED
        BY <2>1, <2>2
<1> QED
    BY <1>5, <1>7, <1>9, <1>12 DEF Good

\* A transaction leaves an entry: the key stays, and only the last one empties it.
LEMMA WithoutGood ==
    ASSUME NEW k \in Key, NEW h \in Nat, NEW e, Good(e, k, h), NEW i \in 1 .. Len(e.txs)
    PROVE  /\ Good(Without(k, e, i), k, h)
           /\ ~Present(Without(k, e, i)) => Len(e.txs) = 1 /\ i = 1
<1> DEFINE before == SubSeq(e.txs, 1, i - 1)
           after  == SubSeq(e.txs, i + 1, Len(e.txs))
           rest   == before \o after
           w      == Without(k, e, i)
<1>1. e \in Entry /\ e.txs \in Seq(Item) /\ Len(e.txs) \in Nat /\ i \in Nat /\ i >= 1 /\ i <= Len(e.txs)
    BY PresentLen DEF Good, Entry
<1>2. Present(e) /\ e.conf \in Nat /\ k \in Nat
    BY <1>1, PresentLen, KeyIsNat DEF Entry
<1>3. TxInKey(e) = k /\ \A j \in 1 .. Len(e.txs) : e.txs[j].bh <= k /\ e.txs[j].bh <= h /\ e.txs[j] \in Item
    BY <1>1, <1>2 DEF Good
<1>4. before \in Seq(Item) /\ Len(before) = i - 1 /\ \A j \in 1 .. i - 1 : before[j] = e.txs[j]
    BY <1>1, SubSeqProperties
<1>5. /\ after \in Seq(Item) /\ Len(after) = Len(e.txs) - i
      /\ \A j \in 1 .. Len(e.txs) - i : after[j] = e.txs[i + j]
    BY <1>1, SubSeqProperties
<1> HIDE DEF before, after
<1>6. rest \in Seq(Item) /\ Len(rest) = Len(e.txs) - 1
    <2>1. rest \in Seq(Item) /\ Len(rest) = Len(before) + Len(after)
        BY <1>4, <1>5, ConcatProperties
    <2> QED
        BY <1>1, <1>4, <1>5, <2>1
<1>7. ASSUME NEW j \in 1 .. Len(rest)
      PROVE  rest[j] = IF j < i THEN e.txs[j] ELSE e.txs[j + 1]
    <2>1. rest[j] = IF j <= Len(before) THEN before[j] ELSE after[j - Len(before)]
        <3>1. j \in 1 .. Len(before) + Len(after)
            BY <1>1, <1>4, <1>5, <1>6
        <3> QED
            BY <1>4, <1>5, <3>1, ConcatProperties
    <2>2. CASE j < i
        <3>1. j \in 1 .. i - 1
            BY <1>1, <2>2
        <3> QED
            BY <1>1, <1>4, <2>1, <2>2, <3>1
    <2>3. CASE ~(j < i)
        <3>1. j - (i - 1) \in 1 .. Len(e.txs) - i /\ ~(j <= Len(before)) /\ i + (j - (i - 1)) = j + 1
            BY <1>1, <1>4, <1>6, <2>3
        <3>2. rest[j] = after[j - (i - 1)]
            BY <1>4, <2>1, <3>1
        <3>3. after[j - (i - 1)] = e.txs[i + (j - (i - 1))]
            BY <1>5, <3>1
        <3> QED
            BY <2>3, <3>1, <3>2, <3>3
    <2> QED
        BY <2>2, <2>3
<1>8. ASSUME NEW j \in 1 .. Len(rest) PROVE rest[j].bh <= k /\ rest[j].bh <= h /\ rest[j].bh \in Nat
    <2>1. j \in 1 .. Len(e.txs) /\ j + 1 \in 1 .. Len(e.txs)
        BY <1>1, <1>6
    <2>2. \A m \in 1 .. Len(e.txs) : e.txs[m].bh <= k /\ e.txs[m].bh <= h /\ e.txs[m].bh \in Nat
        BY <1>3, KeyIsNat DEF Item
    <2> QED
        BY <1>7, <2>1, <2>2
<1> HIDE DEF rest
<1>9. w = [txs |-> rest, conf |-> IF i = 1 /\ rest # << >> THEN k - rest[1].bh ELSE e.conf]
    BY DEF Without, rest, before, after
<1>10. rest # << >> <=> Len(rest) > 0
    BY <1>6, EmptySeq
<1>11. rest # << >> => 1 \in 1 .. Len(rest) /\ rest[1].bh \in Nat /\ rest[1].bh <= k
    BY <1>1, <1>6, <1>8, <1>10
<1>12. w \in Entry
    <2>1. i = 1 /\ rest # << >> => k - rest[1].bh \in Nat
        BY <1>2, <1>11
    <2> QED
        BY <1>2, <1>6, <1>9, <2>1 DEF Entry
<1>13. Present(w) <=> rest # << >>
    BY <1>9 DEF Present
<1>14. ASSUME Present(w) PROVE TxInKey(w) = k
    <2>1. CASE i = 1
        BY <1>2, <1>9, <1>11, <1>13, <1>14, <2>1 DEF TxInKey
    <2>2. CASE i # 1
        <3>1. rest[1] = e.txs[1]
            BY <1>1, <1>7, <1>11, <1>13, <1>14, <2>2
        <3> QED
            BY <1>3, <1>9, <2>2, <3>1 DEF TxInKey
    <2> QED
        BY <2>1, <2>2
<1>15. Good(w, k, h)
    BY <1>8, <1>9, <1>12, <1>14 DEF Good
<1>16. ~Present(w) => Len(e.txs) = 1 /\ i = 1
    <2>1. \A n \in Nat : i <= n /\ ~(n - 1 > 0) => n = 1 /\ i = 1
        BY <1>1
    <2>2. ~Present(w) => ~(Len(e.txs) - 1 > 0)
        BY <1>6, <1>10, <1>13
    <2> HIDE DEF w
    <2> QED
        BY <1>1, <2>1, <2>2
<1> QED
    BY <1>15, <1>16

\* A transaction is marked as committed before it was final.
LEMMA MarkedGood ==
    ASSUME NEW k \in Key, NEW h \in Nat, NEW e, Good(e, k, h), NEW i \in 1 .. Len(e.txs)
    PROVE  LET m == [e EXCEPT !.txs[i].committedUnFinalised = TRUE]
           IN  Good(m, k, h) /\ Present(m)
<1> DEFINE m == [e EXCEPT !.txs[i].committedUnFinalised = TRUE]
           x == [e.txs[i] EXCEPT !.committedUnFinalised = TRUE]
           s == [e.txs EXCEPT ![i] = x]
<1>1. e \in Entry /\ e.txs \in Seq(Item) /\ Len(e.txs) \in Nat /\ e.conf \in Nat
    BY PresentLen DEF Good, Entry
<1>2. Present(e)
    BY <1>1, PresentLen
<1>3. \A j \in 1 .. Len(e.txs) : e.txs[j] \in Item
    BY <1>1
<1>4. x \in Item /\ x.bh = e.txs[i].bh
    BY <1>3 DEF Item
<1>5. m.txs = s /\ m.conf = e.conf
    BY <1>1 DEF Entry
<1>6. s \in Seq(Item) /\ Len(s) = Len(e.txs) /\ \A j \in 1 .. Len(e.txs) : s[j] = IF j = i THEN x ELSE e.txs[j]
    BY <1>1, <1>4, ExceptSeq
<1>7. m \in Entry
    BY <1>1, <1>6 DEF Entry
<1>8. \A j \in 1 .. Len(e.txs) : s[j].bh = e.txs[j].bh
    BY <1>4, <1>6
<1>9. Len(m.txs) > 0 /\ Len(m.txs) = Len(e.txs)
    BY <1>1, <1>5, <1>6
<1>10. Present(m)
    BY <1>7, <1>9, PresentLen
<1>11. TxInKey(m) = TxInKey(e)
    <2>1. 1 \in 1 .. Len(e.txs)
        BY <1>1
    <2> QED
        BY <1>5, <1>8, <2>1 DEF TxInKey
<1> QED
    BY <1>2, <1>5, <1>7, <1>8, <1>9, <1>10, <1>11 DEF Good

-----------------------------------------------------------------------------
(* The storage *)

\* The records come back under their keys.
LEMMA RestoreEffect ==
    ASSUME NEW d, \A k \in Key : Good(d[k], k, height)
    PROVE  \A k \in Key : restoreDeck(d)[k] = IF Present(d[k]) THEN d[k] ELSE NoEntry
<1> SUFFICES ASSUME NEW k \in Key PROVE restoreDeck(d)[k] = IF Present(d[k]) THEN d[k] ELSE NoEntry
    OBVIOUS
<1> DEFINE here == {e \in GetOnDeckTxs(d) : TxInKey(e) = k}
<1>1. \A e \in here : e = d[k] /\ Present(d[k])
    BY DEF GetOnDeckTxs, Good
<1>2. Present(d[k]) => d[k] \in here
    BY DEF GetOnDeckTxs, Good
<1>3. restoreDeck(d)[k] = IF here = {} THEN NoEntry ELSE CHOOSE e \in here : TRUE
    BY DEF restoreDeck
<1> QED
    BY <1>1, <1>2, <1>3

\* What the saving of an entry under its key keeps, whatever else is done with it.
LEMMA PutKeepsInv ==
    ASSUME DeckInv, NEW k \in Key, NEW e, Good(e, k, height), Present(e), Put(k, e),
           erred \subseteq erred', erred' \subseteq Tx \X Key, working' \subseteq working,
           UNCHANGED <<height, nodeStatus, lastNodeStatus, clearing, attested, clearRaced>>
    PROVE  DeckInv'
<1>1. onDeck \in [Key -> Entry] /\ disk \in [Key -> Entry] /\ e \in Entry /\ TxInKey(e) = k
    BY DEF DeckInv, DeckTypeOK, Good
<1>2. onDeck' = [onDeck EXCEPT ![k] = e] /\ disk' = [disk EXCEPT ![k] = e] /\ erased' = erased \ {k}
    BY <1>1 DEF Put, AddOrUpdateTx
<1>3. /\ onDeck'[k] = e /\ disk'[k] = e
      /\ \A j \in Key : j # k => onDeck'[j] = onDeck[j] /\ disk'[j] = disk[j] /\ (j \in erased => j \in erased')
    BY <1>1, <1>2
<1>4. DeckTypeOK'
    BY <1>1, <1>2 DEF DeckInv, DeckTypeOK
<1>5. \A j \in Key : Good(onDeck'[j], j, height) /\ Good(disk'[j], j, height)
    BY <1>3 DEF DeckInv
<1>6. \A in \in working' : in.bh <= height
    BY DEF DeckInv
<1>7. Mirror'
    BY <1>3 DEF DeckInv, Mirror
<1>8. DiskHoldsDeckOrErrata'
    BY <1>3 DEF DeckInv, DiskHoldsDeckOrErrata
<1> QED
    BY <1>4, <1>5, <1>6, <1>7, <1>8 DEF DeckInv, Good, TxInKey, Present

\* What the removal of an emptied entry keeps: its record goes with it, or what is
\* left on disk is of the errata.
LEMMA DropKeepsInv ==
    ASSUME DeckInv, NEW k \in Key, NEW h \in Key, Present(onDeck[k]), Drop(k, h),
           \/ h = k
           \/ \A i \in 1 .. Len(onDeck[k].txs) : <<onDeck[k].txs[i].tx, onDeck[k].txs[i].bh>> \in erred',
           erred \subseteq erred', erred' \subseteq Tx \X Key, working' \subseteq working,
           UNCHANGED <<height, nodeStatus, lastNodeStatus, clearing, attested, clearRaced>>
    PROVE  DeckInv'
<1> USE NoEntryType
<1>1. onDeck \in [Key -> Entry] /\ disk \in [Key -> Entry]
    BY DEF DeckInv, DeckTypeOK
<1>2. onDeck' = [onDeck EXCEPT ![k] = NoEntry] /\ disk' = [disk EXCEPT ![h] = NoEntry]
    BY DEF Drop, RemoveTx
<1>3. /\ onDeck'[k] = NoEntry /\ disk'[h] = NoEntry
      /\ \A j \in Key : j # k => onDeck'[j] = onDeck[j]
      /\ \A j \in Key : j # h => disk'[j] = disk[j]
    BY <1>1, <1>2
<1>4. erased' \subseteq Key
    BY DEF Drop, DeckInv, DeckTypeOK
<1>5. \A j \in Key : j # k /\ j \in erased => j \in erased'
    BY DEF Drop
<1>6. h # k /\ Present(onDeck[h]) => h \in erased'
    BY DEF Drop
<1>7. DeckTypeOK'
    BY <1>1, <1>2, <1>4 DEF DeckInv, DeckTypeOK
<1>8. \A j \in Key : Good(NoEntry, j, height)
    BY DEF Good
<1>9. \A j \in Key : Good(onDeck'[j], j, height) /\ Good(disk'[j], j, height)
    BY <1>3, <1>8 DEF DeckInv
<1>10. \A in \in working' : in.bh <= height
    BY DEF DeckInv
<1>11. Mirror'
    BY <1>3, <1>5, <1>6 DEF DeckInv, Mirror
<1>12. DiskHoldsDeckOrErrata'
    <2> SUFFICES ASSUME ~clearing, NEW j \in Key, Present(disk'[j]), ~Present(onDeck'[j]),
                        NEW i \in 1 .. Len(disk'[j].txs)
                 PROVE  <<disk'[j].txs[i].tx, disk'[j].txs[i].bh>> \in erred'
        BY DEF DiskHoldsDeckOrErrata
    <2>1. j # h /\ disk'[j] = disk[j]
        BY <1>3
    <2>2. CASE j = k
        <3>1. disk[k] = onDeck[k]
            BY <2>1, <2>2 DEF DeckInv, Mirror
        <3> QED
            BY <2>1, <2>2, <3>1
    <2>3. CASE j # k
        BY <1>3, <2>1, <2>3 DEF DeckInv, DiskHoldsDeckOrErrata
    <2> QED
        BY <2>2, <2>3
<1> QED
    BY <1>7, <1>9, <1>10, <1>11, <1>12 DEF DeckInv, Good, TxInKey, Present

\* What a step that touches neither the deck nor its records keeps.
LEMMA FrameKeepsInv ==
    ASSUME DeckInv, DeckTypeOK', UNCHANGED <<onDeck, disk, clearing, erred, clearRaced, erased>>,
           height <= height', \A in \in working' : in.bh <= height'
    PROVE  DeckInv'
<1>1. height \in Nat /\ height' \in Nat /\ onDeck \in [Key -> Entry] /\ disk \in [Key -> Entry]
    BY KeyIsNat DEF DeckInv, DeckTypeOK
<1>2. ASSUME NEW e \in Entry, NEW k \in Key, Good(e, k, height) PROVE Good(e, k, height')
    <2>1. \A i \in 1 .. Len(e.txs) : e.txs[i].bh \in Nat
        BY ItemType
    <2> QED
        BY <1>1, <1>2, <2>1 DEF Good
<1>3. \A k \in Key : Good(onDeck[k], k, height') /\ Good(disk[k], k, height')
    BY <1>1, <1>2 DEF DeckInv
<1>4. Mirror'
    BY DEF DeckInv, Mirror
<1>5. DiskHoldsDeckOrErrata'
    BY DEF DeckInv, DiskHoldsDeckOrErrata
<1> QED
    BY <1>3, <1>4, <1>5 DEF DeckInv, Good, TxInKey, Present

-----------------------------------------------------------------------------
(* The actions *)

\* A scanned block waits for its goroutine.
LEMMA processTxInsKeepsInv ==
    ASSUME DeckInv, NEW in \in Input, processTxIns(in)
    PROVE  DeckInv'
<1>1. DeckTypeOK'
    BY DEF DeckInv, DeckTypeOK, processTxIns
<1>2. height \in Nat /\ height' = height
    BY KeyIsNat DEF DeckInv, DeckTypeOK, processTxIns
<1>3. \A o \in working' : o.bh <= height'
    BY <1>2 DEF DeckInv, processTxIns
<1> QED
    BY <1>1, <1>2, <1>3, FrameKeepsInv DEF processTxIns

\* A scanned block is merged into the deck and its entry stored.
LEMMA processObservedTxKeepsInv ==
    ASSUME DeckInv, NEW in \in Input, processObservedTx(in)
    PROVE  DeckInv'
<1>1. in.bh <= height /\ working' \subseteq working /\ height \in Nat /\ erred' = erred /\ erred \subseteq Tx \X Key
    BY KeyIsNat DEF DeckInv, DeckTypeOK, processObservedTx
<1>2. PICK k : k = in.bh + in.conf
    OBVIOUS
<1>3. k \in Key /\ Good(onDeck[k], k, height)
    BY <1>2, ItemsOfType DEF DeckInv
<1>4. CASE ~Present(onDeck[k])
    <2>1. PICK e : e = [txs |-> ItemsOf(in), conf |-> in.conf]
        OBVIOUS
    <2>2. Good(e, k, height) /\ Present(e)
        BY <1>1, <1>2, <2>1, NewEntryGood
    <2>3. Put(k, e)
        BY <1>2, <1>4, <2>1 DEF processObservedTx, merge
    <2> QED
        BY <1>1, <1>3, <2>2, <2>3, PutKeepsInv DEF processObservedTx
<1>5. CASE Present(onDeck[k])
    <2>1. PICK new \in NewTxs(onDeck[k], in) :
             IF new = << >> THEN UNCHANGED <<onDeck, disk, erased>>
             ELSE Put(k, [onDeck[k] EXCEPT !.txs = @ \o new])
        BY <1>2, <1>5 DEF processObservedTx, merge
    <2>2. CASE new = << >>
        <3>1. DeckTypeOK'
            BY <2>1, <2>2 DEF DeckInv, DeckTypeOK, processObservedTx
        <3>2. height' = height /\ \A o \in working' : o.bh <= height'
            BY <1>1 DEF DeckInv, processObservedTx
        <3> QED
            BY <1>1, <2>1, <2>2, <3>1, <3>2, FrameKeepsInv DEF processObservedTx
    <2>3. CASE new # << >>
        <3>1. PICK e : e = [onDeck[k] EXCEPT !.txs = @ \o new]
            OBVIOUS
        <3>2. Good(e, k, height) /\ Present(e)
            BY <1>1, <1>2, <1>3, <1>5, <3>1, MergedGood
        <3>3. Put(k, e)
            BY <2>1, <2>3, <3>1
        <3> QED
            BY <1>1, <1>3, <3>2, <3>3, PutKeepsInv DEF processObservedTx
    <2> QED
        BY <2>2, <2>3
<1> QED
    BY <1>4, <1>5

\* The transaction that a commit or an errata finds.
LEMMA FoundIndex ==
    ASSUME NEW e, NEW t, Indices(e, t) # {}
    PROVE  First(Indices(e, t)) \in 1 .. Len(e.txs) /\ e.txs[First(Indices(e, t))].tx = t
<1>1. Indices(e, t) \subseteq Nat
    BY DEF Indices
<1>2. First(Indices(e, t)) \in Indices(e, t)
    BY <1>1, FirstIsMember
<1> QED
    BY <1>2 DEF Indices

\* A committed observation is marked, or taken out, and the entry stored or erased.
LEMMA CommittedKeepsInv ==
    ASSUME DeckInv, NEW t \in Tx, NEW k \in Key, NEW final \in BOOLEAN, Committed(t, k, final)
    PROVE  DeckInv'
<1>1. height \in Nat /\ Good(onDeck[k], k, height) /\ erred \subseteq Tx \X Key /\ onDeck[k] \in Entry
    BY KeyIsNat DEF DeckInv, DeckTypeOK
<1>2. CASE Indices(onDeck[k], t) = {}
    <2>1. UNCHANGED deckVars
        BY <1>2 DEF Committed, handleObservedTxCommitted, deckVars
    <2>2. DeckTypeOK'
        BY <2>1 DEF DeckInv, DeckTypeOK, deckVars
    <2>3. height' = height /\ \A o \in working' : o.bh <= height'
        BY <2>1 DEF DeckInv, deckVars
    <2> QED
        BY <1>1, <2>1, <2>2, <2>3, FrameKeepsInv DEF deckVars
<1>3. CASE Indices(onDeck[k], t) # {}
    <2>1. PICK i : i = First(Indices(onDeck[k], t))
        OBVIOUS
    <2>2. i \in 1 .. Len(onDeck[k].txs)
        BY <1>3, <2>1, FoundIndex
    <2>3. Present(onDeck[k])
        BY <1>1, <2>2, PresentLen
    <2>4. PICK r : r = IF final THEN Without(k, onDeck[k], i)
                       ELSE [onDeck[k] EXCEPT !.txs[i].committedUnFinalised = TRUE]
        OBVIOUS
    <2>5. Good(r, k, height)
        BY <1>1, <2>2, <2>4, WithoutGood, MarkedGood
    <2>6. IF Present(r) THEN Put(k, r) ELSE Drop(k, k)
        BY <1>3, <2>1, <2>4 DEF Committed, handleObservedTxCommitted
    <2>7. CASE Present(r)
        BY <1>1, <2>5, <2>6, <2>7, PutKeepsInv DEF Committed
    <2>8. CASE ~Present(r)
        BY <1>1, <2>3, <2>6, <2>8, DropKeepsInv DEF Committed
    <2> QED
        BY <2>7, <2>8
<1> QED
    BY <1>2, <1>3

\* An errata takes out transactions, and may erase the record of another entry.
LEMMA processErrataTxKeepsInv ==
    ASSUME DeckInv, NEW h \in Key, NEW txs \in ErrataTxs, processErrataTx(h, txs)
    PROVE  DeckInv'
<1>1. height \in Key /\ height \in Nat /\ erred \subseteq Tx \X Key /\ onDeck \in [Key -> Entry]
    BY KeyIsNat DEF DeckInv, DeckTypeOK
<1>2. Len(txs) \in Nat /\ \A j \in 1 .. Len(txs) : txs[j] \in Tx
    BY DEF ErrataTxs
<1>3. 0 .. height \subseteq Key
    BY <1>1, KeyIsNat DEF Key
<1>4. erred \subseteq erred' /\ erred' \subseteq Tx \X Key
    BY <1>1, <1>2, <1>3 DEF processErrataTx
<1>5. ASSUME UNCHANGED <<onDeck, disk, erased>> PROVE DeckInv'
    <2>1. DeckTypeOK'
        BY <1>4, <1>5 DEF DeckInv, DeckTypeOK, processErrataTx
    <2>2. /\ \A k \in Key : Good(onDeck'[k], k, height') /\ Good(disk'[k], k, height')
          /\ \A o \in working' : o.bh <= height'
        BY <1>5 DEF DeckInv, processErrataTx
    <2>3. Mirror'
        BY <1>5 DEF DeckInv, Mirror, processErrataTx
    <2>4. DiskHoldsDeckOrErrata'
        BY <1>4, <1>5 DEF DeckInv, DiskHoldsDeckOrErrata, processErrataTx
    <2> QED
        BY <2>1, <2>2, <2>3, <2>4 DEF DeckInv, Good, TxInKey, Present
<1>6. ASSUME NEW j \in 1 .. Len(txs), NEW k \in Key, NEW t, t = txs[j], Indices(onDeck[k], t) # {},
             LET r == Without(k, onDeck[k], First(Indices(onDeck[k], t)))
             IN  IF Present(r) THEN Put(k, r) ELSE Drop(k, h)
      PROVE  DeckInv'
    <2>1. PICK i : i = First(Indices(onDeck[k], t))
        OBVIOUS
    <2>2. i \in 1 .. Len(onDeck[k].txs) /\ onDeck[k].txs[i].tx = t
        BY <1>6, <2>1, FoundIndex
    <2>3. onDeck[k] \in Entry /\ Present(onDeck[k]) /\ Good(onDeck[k], k, height)
        <3>1. onDeck[k] \in Entry /\ Good(onDeck[k], k, height)
            BY <1>1 DEF DeckInv
        <3> QED
            BY <2>2, <3>1, PresentLen
    <2>4. PICK r : r = Without(k, onDeck[k], i)
        OBVIOUS
    <2>5. Good(r, k, height) /\ (~Present(r) => Len(onDeck[k].txs) = 1 /\ i = 1)
        BY <1>1, <2>2, <2>3, <2>4, WithoutGood
    <2>6. IF Present(r) THEN Put(k, r) ELSE Drop(k, h)
        BY <1>6, <2>1, <2>4
    <2>7. CASE Present(r)
        BY <1>4, <2>5, <2>6, <2>7, PutKeepsInv DEF processErrataTx
    <2>8. CASE ~Present(r)
        <3>1. \A m \in 1 .. Len(onDeck[k].txs) : m = 1 /\ onDeck[k].txs[m].tx = t
            <4>1. Len(onDeck[k].txs) = 1 /\ i = 1
                BY <2>5, <2>8
            <4>2. \A m \in 1 .. 1 : m = 1
                OBVIOUS
            <4> QED
                BY <2>2, <4>1, <4>2
        <3>2. \A m \in 1 .. Len(onDeck[k].txs) : onDeck[k].txs[m].bh \in 0 .. height
            <4>1. \A m \in 1 .. Len(onDeck[k].txs) : onDeck[k].txs[m].bh \in Nat
                BY <2>3, ItemType
            <4>2. \A m \in 1 .. Len(onDeck[k].txs) : onDeck[k].txs[m].bh <= height
                BY <2>3 DEF Good
            <4> QED
                BY <1>1, <4>1, <4>2
        <3>3. \A g \in 0 .. height : <<t, g>> \in erred'
            BY <1>6 DEF processErrataTx
        <3>4. \A m \in 1 .. Len(onDeck[k].txs) : <<onDeck[k].txs[m].tx, onDeck[k].txs[m].bh>> \in erred'
            BY <3>1, <3>2, <3>3
        <3> QED
            BY <1>4, <2>3, <2>6, <2>8, <3>4, DropKeepsInv DEF processErrataTx
    <2> QED
        BY <2>7, <2>8
<1> DEFINE found == {j \in 1 .. Len(txs) : \E k \in Key : Indices(onDeck[k], txs[j]) # {}}
<1>7. CASE found = {}
    BY <1>5, <1>7 DEF processErrataTx, filterErrataTx
<1>8. CASE found # {}
    <2>1. PICK j : j = First(found)
        OBVIOUS
    <2>2. j \in 1 .. Len(txs)
        <3>1. found \subseteq Nat
            OBVIOUS
        <3>2. First(found) \in found
            BY <1>8, <3>1, FirstIsMember
        <3> QED
            BY <2>1, <3>2
    <2>3. PICK t : t = txs[j]
        OBVIOUS
    <2>4. \E k \in Key :
             /\ Indices(onDeck[k], t) # {}
             /\ LET r == Without(k, onDeck[k], First(Indices(onDeck[k], t)))
                IN  IF Present(r) THEN Put(k, r) ELSE Drop(k, h)
        BY <1>8, <2>1, <2>3 DEF processErrataTx, filterErrataTx
    <2> QED
        BY <1>6, <2>2, <2>3, <2>4
<1> QED
    BY <1>7, <1>8

\* Sending changes no entry.
LEMMA sendDeckKeepsInv ==
    ASSUME DeckInv, sendDeck
    PROVE  DeckInv'
<1>1. onDeck \in [Key -> Entry] /\ height \in Nat
    BY KeyIsNat DEF DeckInv, DeckTypeOK
<1>2. Attestable \subseteq [tx : Tx, key : Key, final : BOOLEAN]
    <2>1. \A k \in Key : \A i \in 1 .. Len(onDeck[k].txs) : onDeck[k].txs[i].tx \in Tx
        BY <1>1, ItemType DEF Item
    <2>2. \A k \in Key : ConfirmationCountReady(k) \in BOOLEAN
        BY DEF ConfirmationCountReady
    <2> QED
        BY <2>1, <2>2 DEF Attestable
<1>3. DeckTypeOK'
    BY <1>2 DEF DeckInv, DeckTypeOK, sendDeck
<1>4. height' = height /\ \A o \in working' : o.bh <= height'
    BY DEF DeckInv, sendDeck
<1> QED
    BY <1>1, <1>3, <1>4, FrameKeepsInv DEF sendDeck

\* A node that is not active sends nothing.
LEMMA sendDeckInactiveKeepsInv ==
    ASSUME DeckInv, sendDeckInactive
    PROVE  DeckInv'
<1> USE NoEntryType
<1>1. DeckTypeOK'
    BY DEF DeckInv, DeckTypeOK, sendDeckInactive
<1>2. \A k \in Key : onDeck'[k] = NoEntry /\ Good(NoEntry, k, height)
    BY DEF sendDeckInactive, Good
<1>3. Mirror' /\ DiskHoldsDeckOrErrata'
    BY DEF Mirror, DiskHoldsDeckOrErrata, sendDeckInactive
<1> QED
    BY <1>1, <1>2, <1>3 DEF DeckInv, sendDeckInactive, Good, TxInKey, Present

\* Erasing everything leaves deck and disk alike.
LEMMA RemoveAllTxsKeepsInv ==
    ASSUME DeckInv, RemoveAllTxs
    PROVE  DeckInv'
<1> USE NoEntryType
<1>1. DeckTypeOK'
    BY DEF DeckInv, DeckTypeOK, RemoveAllTxs
<1>2. \A k \in Key : disk'[k] = NoEntry /\ Good(NoEntry, k, height)
    BY DEF RemoveAllTxs, Good
<1>3. Mirror'
    BY <1>2 DEF Mirror, RemoveAllTxs
<1>4. DiskHoldsDeckOrErrata'
    BY <1>2 DEF DiskHoldsDeckOrErrata, RemoveAllTxs
<1> QED
    BY <1>1, <1>2, <1>3, <1>4 DEF DeckInv, RemoveAllTxs, Good, TxInKey, Present

\* A new block of the external chain.
LEMMA NewBlockKeepsInv ==
    ASSUME DeckInv, NewBlock
    PROVE  DeckInv'
<1>1. height \in Nat /\ height' \in Key /\ height' = height + 1
    BY KeyIsNat DEF DeckInv, DeckTypeOK, NewBlock, Key
<1>2. DeckTypeOK'
    BY <1>1 DEF DeckInv, DeckTypeOK, NewBlock
<1>3. \A o \in working' : o.bh \in Nat /\ o.bh <= height
    BY KeyIsNat, ItemsOfType DEF DeckInv, DeckTypeOK, NewBlock
<1>4. \A o \in working' : o.bh <= height'
    BY <1>1, <1>3
<1> QED
    BY <1>1, <1>2, <1>4, FrameKeepsInv DEF NewBlock

\* The node joins or leaves the validators.
LEMMA ChurnKeepsInv ==
    ASSUME DeckInv, Churn
    PROVE  DeckInv'
<1>1. DeckTypeOK'
    BY DEF DeckInv, DeckTypeOK, Churn
<1>2. height \in Nat /\ height' = height /\ \A o \in working' : o.bh <= height'
    BY KeyIsNat DEF DeckInv, DeckTypeOK, Churn
<1> QED
    BY <1>1, <1>2, FrameKeepsInv DEF Churn

\* A restart makes the deck what the storage holds, from any state.
LEMMA RestartKeepsInv ==
    ASSUME DeckInv, Restart
    PROVE  DeckInv'
<1> USE NoEntryType
<1>1. \A k \in Key : onDeck'[k] = IF Present(disk[k]) THEN disk[k] ELSE NoEntry
    BY RestoreEffect DEF DeckInv, Restart
<1>2. disk \in [Key -> Entry] /\ disk' = disk /\ height' = height
    BY DEF DeckInv, DeckTypeOK, Restart
<1>3. onDeck' = [k \in Key |-> onDeck'[k]]
    BY DEF Restart, restoreDeck
<1>4. \A k \in Key : onDeck'[k] \in Entry
    BY <1>1, <1>2
<1>5. onDeck' \in [Key -> Entry]
    BY <1>3, <1>4
<1>6. DeckTypeOK'
    BY <1>5 DEF DeckInv, DeckTypeOK, Restart
<1>7. \A k \in Key : Good(onDeck'[k], k, height) /\ Good(disk[k], k, height)
    <2>1. \A k \in Key : Good(NoEntry, k, height) /\ Good(disk[k], k, height)
        BY DEF DeckInv, Good
    <2> QED
        BY <1>1, <2>1
<1>8. Mirror'
    BY <1>1, <1>2 DEF Mirror
<1>9. DiskHoldsDeckOrErrata'
    BY <1>1, <1>2 DEF DiskHoldsDeckOrErrata
<1>10. \A o \in working' : o.bh <= height
    BY DEF Restart
<1> QED
    BY <1>2, <1>6, <1>7, <1>8, <1>9, <1>10 DEF DeckInv, Good, TxInKey, Present

\* Deck and disk start empty.
LEMMA DeckInvInit == DeckInit => DeckInv
<1> USE NoEntryType
<1> SUFFICES ASSUME DeckInit PROVE DeckInv
    OBVIOUS
<1>1. DeckTypeOK
    BY KeyIsNat DEF DeckInit, DeckTypeOK, Status
<1>2. \A k \in Key : onDeck[k] = NoEntry /\ disk[k] = NoEntry /\ Good(NoEntry, k, height)
    BY DEF DeckInit, Good
<1> QED
    BY <1>1, <1>2 DEF DeckInv, DeckInit, Mirror, DiskHoldsDeckOrErrata

\* Each step keeps the invariant.
LEMMA DeckInvNext == DeckInv /\ [DeckNext]_deckVars => DeckInv'
<1> SUFFICES ASSUME DeckInv, [DeckNext]_deckVars PROVE DeckInv'
    OBVIOUS
<1>1. ASSUME NEW in \in Input, processTxIns(in) \/ processObservedTx(in) PROVE DeckInv'
    BY <1>1, processTxInsKeepsInv, processObservedTxKeepsInv
<1>2. ASSUME NEW a \in attested, Committed(a.tx, a.key, a.final) PROVE DeckInv'
    <2>1. PICK t, k, final : t = a.tx /\ k = a.key /\ final = a.final
        OBVIOUS
    <2>2. t \in Tx /\ k \in Key /\ final \in BOOLEAN
        BY <2>1 DEF DeckInv, DeckTypeOK
    <2>3. Committed(t, k, final)
        BY <1>2, <2>1
    <2> QED
        BY <2>2, <2>3, CommittedKeepsInv
<1>3. ASSUME NEW h \in Key, NEW txs \in ErrataTxs, processErrataTx(h, txs) PROVE DeckInv'
    BY <1>3, processErrataTxKeepsInv
<1>4. CASE sendDeck \/ sendDeckInactive \/ RemoveAllTxs
    BY <1>4, sendDeckKeepsInv, sendDeckInactiveKeepsInv, RemoveAllTxsKeepsInv
<1>5. CASE NewBlock \/ Churn \/ Restart
    BY <1>5, NewBlockKeepsInv, ChurnKeepsInv, RestartKeepsInv
<1>6. CASE UNCHANGED deckVars
    <2>1. DeckTypeOK'
        BY <1>6 DEF DeckInv, DeckTypeOK, deckVars
    <2>2. height \in Nat /\ height' = height /\ \A o \in working' : o.bh <= height'
        BY <1>6, KeyIsNat DEF DeckInv, DeckTypeOK, deckVars
    <2> QED
        BY <1>6, <2>1, <2>2, FrameKeepsInv DEF deckVars
<1> QED
    BY <1>1, <1>2, <1>3, <1>4, <1>5, <1>6 DEF DeckNext

\* The invariant holds throughout.
LEMMA DeckInvariant == DeckSpec => []DeckInv
BY DeckInvInit, DeckInvNext, PTL DEF DeckSpec

-----------------------------------------------------------------------------
(* Theorems *)

\* The deck and its storage have their types: in particular the confirmations
\* recomputed when the first transaction of an entry goes are never negative.
THEOREM DeckTypeCorrect == DeckSpec => []DeckTypeOK
<1>1. DeckInv => DeckTypeOK
    BY DEF DeckInv
<1> QED
    BY <1>1, DeckInvariant, PTL

\* Outside the two named cases a restart brings back every entry on deck under its key.
THEOREM RestartRestoresDeck == DeckSpec => []DeckSurvivesRestart
<1>1. DeckInv => DeckSurvivesRestart
    <2> SUFFICES ASSUME DeckInv, ~clearing, ~clearRaced, NEW k \in Key \ erased, Present(onDeck[k])
                 PROVE  restoreDeck(disk)[k] = onDeck[k]
        BY DEF DeckSurvivesRestart
    <2>1. Present(disk[k]) /\ disk[k] = onDeck[k]
        BY DEF DeckInv, Mirror
    <2>2. restoreDeck(disk)[k] = disk[k]
        BY <2>1, RestoreEffect DEF DeckInv
    <2> QED
        BY <2>1, <2>2
<1> QED
    BY <1>1, DeckInvariant, PTL

\* What is on disk and not on deck is what an errata took off the deck.
THEOREM DiskIsDeckOrErrata == DeckSpec => []DiskHoldsDeckOrErrata
<1>1. DeckInv => DiskHoldsDeckOrErrata
    BY DEF DeckInv
<1> QED
    BY <1>1, DeckInvariant, PTL
=============================================================================
