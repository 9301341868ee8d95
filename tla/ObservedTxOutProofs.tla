------------------------- MODULE ObservedTxOutProofs -------------------------
(***************************************************************************)
(* For any validators, vaults, outbounds, periods and bounds: the books of *)
(* the vaults match their wallets, an action is settled at most once       *)
(* without punishment, and no action is forgotten.                         *)
(***************************************************************************)
EXTENDS ObservedTxOut, FiniteSetTheorems, TLAPS

-----------------------------------------------------------------------------
(* The inductive invariants *)

Record == [funds : Nat, status : Status, frozen : BOOLEAN]

PaidBy(v) == {p \in sent : p.v = v}

DebitedTo(v) == {p \in sent : p.v = v /\ Acted(p) /\ p \notin passed}

\* Only what is on the external chain gets consensus, only what has it is slashed
\* or passed over, and no vault pays what it does not have: SubFunds never
\* saturates while the asset has its pool.
Wallets ==
    /\ IsFiniteSet(sent)
    /\ \A p \in Payment : Acted(p) => p \in sent
    /\ \A p \in slashed \cup passed : Acted(p)
    /\ \A v \in Vault : Cardinality(PaidBy(v)) <= Funds

\* An action has one item that is open or holds a hash; LackSigning looks at
\* open items only.
OneLiveItem ==
    /\ \A i, j \in txOut : i.a = j.a /\ i.out # Blank /\ j.out # Blank => i = j
    /\ \A i \in todo : i \in txOut /\ i.out = Open

\* The payment of an action that was settled closed an item of the action.
SettledClosedItem ==
    \A p \in Settled : p.a \in Action => \E i \in txOut : i.a = p.a /\ i.out = p

OutInv ==
    /\ OutTypeOK
    /\ Wallets
    /\ FundsMatchWallet
    /\ OneLiveItem
    /\ SettledClosedItem

-----------------------------------------------------------------------------
(* The operators of the model *)

\* The marks of an item that is open or blank are no payments.
LEMMA Marks == Open \notin Payment /\ Blank \notin Payment /\ Open # Blank
BY DEF Open, Blank, Payment

\* RoundUp never goes back in time.
LEMMA RoundUpType ==
    ASSUME NEW h \in Nat
    PROVE  RoundUp(h) \in Nat /\ RoundUp(h) >= h
BY OutAssumption DEF RoundUp

\* A vote does not undo the consensus of its voter.
LEMMA AttestedType ==
    ASSUME NEW vt \in Voter, NEW n \in Node, NEW final \in BOOLEAN
    PROVE  /\ Attested(vt, n, final) \in Voter
           /\ vt.Height => Attested(vt, n, final).Height
BY DEF Attested, Voter, HasSuperMajority

\* With one live item per action, what a payment matches is one item at most,
\* and the latest item is that one.
LEMMA MatchingIsUnique ==
    ASSUME OutTypeOK, OneLiveItem, NEW p \in Payment, Matching(p) # {}
    PROVE  \E i \in txOut :
               /\ i \in Item /\ i.a = p.a /\ i.v = p.v /\ i.out = Open
               /\ i = CHOOSE k \in Matching(p) : \A j \in Matching(p) : j.h <= k.h
<1>1. PICK i \in Matching(p) : TRUE
    OBVIOUS
<1>2. i \in txOut /\ i \in Item /\ i.a = p.a /\ i.v = p.v /\ i.out = Open
    BY <1>1 DEF Matching, OutTypeOK
<1>3. \A j \in Matching(p) : j = i
    BY <1>2, Marks DEF Matching, OneLiveItem
<1>4. i.h <= i.h
    BY <1>2 DEF Item
<1>5. i = CHOOSE k \in Matching(p) : \A j \in Matching(p) : j.h <= k.h
    BY <1>1, <1>3, <1>4
<1> QED
    BY <1>2, <1>5

\* OutTxs stays a list of payments.
LEMMA AddOutTxType ==
    ASSUME OutTypeOK, NEW p \in Payment
    PROVE  AddOutTx(p) \in Seq(Payment)
BY DEF OutTypeOK, AddOutTx

\* The end of a retiring vault changes nothing but its status.
LEMMA EndedType ==
    ASSUME NEW vs \in [Vault -> Record]
    PROVE  /\ Ended(vs) \in [Vault -> Record]
           /\ \A v \in Vault : /\ Ended(vs)[v].funds = vs[v].funds
                               /\ vs[v].status = "Inactive" => Ended(vs)[v].status = "Inactive"
<1>1. ASSUME NEW v \in Vault
      PROVE  /\ [vs[v] EXCEPT !.status = "Inactive"] \in Record
             /\ [vs[v] EXCEPT !.status = "Inactive"].funds = vs[v].funds
             /\ [vs[v] EXCEPT !.status = "Inactive"].status = "Inactive"
    BY DEF Record, Status
<1>2. \A v \in Vault : Ended(vs)[v] \in {vs[v], [vs[v] EXCEPT !.status = "Inactive"]}
    BY DEF Ended
<1>3. Ended(vs) \in [Vault -> Record]
    BY <1>1 DEF Ended
<1> QED
    BY <1>1, <1>2, <1>3

\* The asset is struck from the books of every vault.
LEMMA AbandonedType ==
    ASSUME OutTypeOK
    PROVE  /\ Abandoned \in [Vault -> Record]
           /\ \A v \in Vault : Abandoned[v].funds = 0 /\ Abandoned[v].status = vaults[v].status
BY DEF OutTypeOK, Abandoned, Record

-----------------------------------------------------------------------------
(* Each action preserves the first invariant *)

\* The books are in order when the outbounds are scheduled.
LEMMA OutInvInit == OutInit => OutInv
<1> SUFFICES ASSUME OutInit PROVE OutInv
    OBVIOUS
<1>1. PICK assigned \in [Action -> Vault] :
          txOut = {[h |-> StartHeight, a |-> a, v |-> assigned[a], out |-> Open] : a \in Action}
    BY DEF OutInit
<1>2. OutTypeOK
    BY <1>1, OutAssumption DEF OutInit, OutTypeOK, Item, Voter, Status
<1>3. \A p \in Payment : ~Acted(p)
    BY DEF OutInit, Acted
<1>4. Wallets
    <2>1. sent = {} /\ slashed = {} /\ passed = {} /\ \A v \in Vault : PaidBy(v) = {}
        BY DEF OutInit, PaidBy
    <2> QED
        BY <1>3, <2>1, FS_EmptySet, OutAssumption DEF Wallets
<1>5. FundsMatchWallet
    <2>1. \A v \in Vault : {p \in sent : p.v = v /\ Acted(p) /\ p \notin passed} = {}
        BY DEF OutInit
    <2> QED
        BY <2>1, FS_EmptySet, OutAssumption DEF OutInit, FundsMatchWallet
<1>6. OneLiveItem
    BY <1>1 DEF OneLiveItem, OutInit
<1>7. SettledClosedItem
    BY DEF SettledClosedItem, Settled, OutInit
<1> QED
    BY <1>2, <1>4, <1>5, <1>6, <1>7 DEF OutInv

\* A payment leaves the wallet before the books know of it.
LEMMA PayKeepsOutInv ==
    ASSUME OutInv, NEW p \in Payment, Pay(p)
    PROVE  OutInv' /\ Settled' = Settled
<1>1. OutTypeOK'
    BY DEF OutInv, OutTypeOK, Pay
<1>2. p \notin sent /\ ~Acted(p) /\ sent' = sent \cup {p} /\ IsFiniteSet(sent)
    BY DEF OutInv, Pay, Wallets
<1>3. Wallets'
    <2>1. IsFiniteSet(sent')
        BY <1>2, FS_AddElement
    <2>2. /\ \A q \in Payment : Acted(q)' => q \in sent'
          /\ \A q \in slashed' \cup passed' : Acted(q)'
        BY <1>2 DEF OutInv, Wallets, Pay, Acted
    <2>3. ASSUME NEW v \in Vault PROVE Cardinality(PaidBy(v)') <= Funds
        <3>1. CASE p.v = v
            <4>1. PaidBy(v)' = PaidBy(v) \cup {p}
                BY <1>2, <3>1 DEF PaidBy
            <4>2. IsFiniteSet(PaidBy(v))
                BY <1>2, FS_Subset DEF PaidBy
            <4>3. Cardinality(PaidBy(v)) \in Nat /\ Funds \in Nat
                BY <4>2, FS_CardinalityType, OutAssumption
            <4>4. Cardinality(PaidBy(v)) < Funds
                BY <3>1 DEF Pay, PaidBy
            <4>5. p \notin PaidBy(v)
                BY <1>2 DEF PaidBy
            <4>6. Cardinality(PaidBy(v) \cup {p}) = Cardinality(PaidBy(v)) + 1
                BY <4>2, <4>5, FS_AddElement
            <4> QED
                BY <4>1, <4>3, <4>4, <4>6
        <3>2. CASE p.v # v
            <4>1. PaidBy(v)' = PaidBy(v)
                BY <1>2, <3>2 DEF PaidBy
            <4> QED
                BY <4>1 DEF OutInv, Wallets
        <3> QED
            BY <3>1, <3>2
    <2> QED
        BY <2>1, <2>2, <2>3 DEF Wallets
<1>4. FundsMatchWallet'
    <2>1. \A v \in Vault : DebitedTo(v)' = DebitedTo(v)
        BY <1>2 DEF Pay, Acted, DebitedTo
    <2> QED
        BY <2>1 DEF FundsMatchWallet, DebitedTo, OutInv, Pay
<1>5. Settled' = Settled
    BY <1>2 DEF Settled, Pay, Acted
<1>6. OneLiveItem' /\ SettledClosedItem'
    BY <1>5 DEF OutInv, OneLiveItem, SettledClosedItem, Pay
<1> QED
    BY <1>1, <1>3, <1>4, <1>5, <1>6 DEF OutInv

\* A step that changes neither what was paid nor the voters leaves the books alone.
LEMMA BooksUntouched ==
    ASSUME OutInv, UNCHANGED <<voters, sent, slashed, passed, pool>>,
           \A v \in Vault : vaults'[v].funds = vaults[v].funds
    PROVE  Wallets' /\ FundsMatchWallet'
<1>1. \A p : Acted(p)' = Acted(p)
    BY DEF Acted
<1>2. \A v \in Vault : PaidBy(v)' = PaidBy(v) /\ DebitedTo(v)' = DebitedTo(v)
    BY <1>1 DEF PaidBy, DebitedTo
<1>3. Wallets'
    BY <1>1, <1>2 DEF OutInv, Wallets
<1> QED
    BY <1>2, <1>3 DEF OutInv, FundsMatchWallet, DebitedTo

\* Retiring or freezing a vault touches no books.
LEMMA VaultStatusKeepsOutInv ==
    ASSUME OutInv, NEW v \in Vault, Retire(v) \/ Freeze(v)
    PROVE  /\ OutInv' /\ \A w \in Vault : vaults'[w].funds = vaults[w].funds
           /\ \A w \in Vault : vaults[w].status = "Inactive" => vaults'[w].status = "Inactive"
           /\ UNCHANGED <<height, todo, txOut, links, voters, outTxs, sent, slashed, passed, pool>>
<1>1. vaults \in [Vault -> Record] /\ vaults[v] \in Record /\ faults \in Nat
    BY DEF OutInv, OutTypeOK, Record
<1>2. /\ [vaults[v] EXCEPT !.status = "Retiring"] \in Record
      /\ [vaults[v] EXCEPT !.frozen = TRUE] \in Record
    BY <1>1 DEF Record, Status
<1>3. \/ vaults[v].status = "Active" /\ vaults' = [vaults EXCEPT ![v] = [vaults[v] EXCEPT !.status = "Retiring"]]
      \/ vaults' = [vaults EXCEPT ![v] = [vaults[v] EXCEPT !.frozen = TRUE]]
    BY DEF Retire, Freeze
<1>4. vaults' \in [Vault -> Record]
    BY <1>1, <1>2, <1>3
<1>5. UNCHANGED <<height, todo, txOut, links, voters, outTxs, sent, slashed, passed, pool>> /\ faults' \in Nat
    BY <1>1 DEF Retire, Freeze, Fault
<1>6. OutTypeOK'
    BY <1>4, <1>5 DEF OutInv, OutTypeOK, Record
<1>7. \A w \in Vault : /\ vaults'[w].funds = vaults[w].funds
                       /\ vaults[w].status = "Inactive" => vaults'[w].status = "Inactive"
    BY <1>1, <1>3 DEF Record
<1>8. Wallets' /\ FundsMatchWallet'
    BY <1>5, <1>7, BooksUntouched
<1>9. OneLiveItem' /\ SettledClosedItem'
    BY <1>5 DEF OutInv, OneLiveItem, SettledClosedItem, Settled, Acted
<1> QED
    BY <1>5, <1>6, <1>7, <1>8, <1>9 DEF OutInv

\* The voters after a report: only the one of p changes, and it never loses its
\* consensus.
LEMMA ReportVoters ==
    ASSUME OutTypeOK, NEW n \in Node, NEW p \in Payment, NEW final \in BOOLEAN,
           ObserveTxOut(n, p, final)
    PROVE  /\ voters' \in [Payment -> Voter]
           /\ \A q \in Payment : Acted(q)' \in BOOLEAN /\ (q # p => Acted(q)' = Acted(q))
           /\ Acted(p) => Acted(p)'
           /\ p \in sent /\ sent' = sent /\ todo = {} /\ todo' = {} /\ height' = height /\ pool' = pool
           /\ IF ~Acted(p) /\ Acted(p)' THEN quorum(p) \/ quorumFails(p)
              ELSE UNCHANGED <<txOut, outTxs, vaults, slashed, passed, faults>>
           /\ links' \in Seq(Payment)
<1>1. voters \in [Payment -> Voter] /\ voters[p] \in Voter
    BY DEF OutTypeOK
<1>2. /\ Attested(voters[p], n, final) \in Voter
      /\ voters[p].Height => Attested(voters[p], n, final).Height
    BY <1>1, AttestedType
<1>3. voters' = [voters EXCEPT ![p] = Attested(voters[p], n, final)]
    BY DEF ObserveTxOut
<1>4. voters' \in [Payment -> Voter]
    BY <1>1, <1>2, <1>3
<1>5. voters'[p] = Attested(voters[p], n, final) /\ \A q \in Payment : q # p => voters'[q] = voters[q]
    BY <1>1, <1>3
<1>6. \A q \in Payment : voters'[q].Height \in BOOLEAN
    BY <1>4 DEF Voter
<1>7. links' \in Seq(Payment)
    BY DEF ObserveTxOut, OutTypeOK
<1> QED
    BY <1>2, <1>4, <1>5, <1>6, <1>7 DEF ObserveTxOut, InBlock, Acted

\* With consensus p is slashed or not, and passed over if there is no pool.
LEMMA QuorumMarks ==
    ASSUME NEW p \in Payment, quorum(p)
    PROVE  /\ slashed' = slashed \/ slashed' = slashed \cup {p}
           /\ passed' = IF pool THEN passed ELSE passed \cup {p}
           /\ faults' = faults
           /\ ~(p.a \in Action /\ Matching(p) # {}) /\ pool /\ vaults[p.v].funds > 0 => slashed' = slashed \cup {p}
           /\ p.a \in Action /\ Matching(p) # {} => slashed' = slashed
BY DEF quorum, handle, Slash, PassedOver

\* Consensus on p debits its vault by the one unit that p paid, which the vault
\* still has on its books; without a pool there is nothing on the books.
LEMMA QuorumBooks ==
    ASSUME OutInv, NEW p \in Payment, p \in sent, ~Acted(p), Acted(p)', sent' = sent, pool' = pool,
           \A q \in Payment : q # p => Acted(q)' = Acted(q),
           quorum(p)
    PROVE  /\ vaults' \in [Vault -> Record]
           /\ Wallets' /\ FundsMatchWallet'
           /\ pool => vaults[p.v].funds > 0 /\ vaults'[p.v].funds = vaults[p.v].funds - 1
           /\ \A v \in Vault : v # p.v \/ ~pool => vaults'[v].funds = vaults[v].funds
           /\ \A v \in Vault : vaults[v].status = "Inactive" => vaults'[v].status = "Inactive"
<1> DEFINE w == p.v
           less == IF vaults[w].funds > 0 THEN vaults[w].funds - 1 ELSE 0
<1>1. w \in Vault /\ vaults \in [Vault -> Record] /\ vaults[w] \in Record /\ vaults[w].funds \in Nat
      /\ vaults[w].status \in Status /\ less \in Nat
    BY DEF OutInv, OutTypeOK, Payment, Record
<1>2. IsFiniteSet(sent) /\ sent \subseteq Payment /\ Funds \in Nat /\ p \notin passed
      /\ slashed \subseteq Payment /\ passed \subseteq Payment
    BY OutAssumption DEF OutInv, Wallets, OutTypeOK
<1>3. \A v \in Vault : IsFiniteSet(PaidBy(v)) /\ IsFiniteSet(DebitedTo(v)) /\ DebitedTo(v) \subseteq PaidBy(v)
    BY <1>2, FS_Subset DEF PaidBy, DebitedTo
<1>4. \E r \in Record : /\ r.funds = less /\ vaults' = [vaults EXCEPT ![w] = r]
                        /\ vaults[w].status = "Inactive" => r.status = "Inactive"
    <2>1. CASE p.a \in Action
        <3> DEFINE r == [vaults[w] EXCEPT
                !.funds = less,
                !.status = IF less = 0 /\ @ = "Retiring" THEN "Inactive" ELSE @,
                !.frozen = FALSE]
        <3>1. vaults' = [vaults EXCEPT ![w] = r]
            BY <1>1, <2>1 DEF quorum, Debit
        <3>2. (IF less = 0 /\ vaults[w].status = "Retiring" THEN "Inactive"
               ELSE vaults[w].status) \in Status
            BY <1>1 DEF Status
        <3>3. r \in Record /\ r.funds = less /\ (vaults[w].status = "Inactive" => r.status = "Inactive")
            <4> HIDE DEF less
            <4> QED
                BY <1>1, <3>2 DEF Record
        <3> QED
            BY <3>1, <3>3
    <2>2. CASE p.a \notin Action
        <3> DEFINE r == [vaults[w] EXCEPT !.funds = less]
        <3>1. vaults' = [vaults EXCEPT ![w] = r]
            BY <1>1, <2>2 DEF quorum
        <3>2. r \in Record /\ r.funds = less /\ r.status = vaults[w].status
            BY <1>1 DEF Record
        <3> QED
            BY <3>1, <3>2
    <2> QED
        BY <2>1, <2>2
<1>5. vaults' \in [Vault -> Record]
    BY <1>1, <1>4
<1>6. /\ vaults'[w].funds = less
      /\ \A v \in Vault : v # w => vaults'[v] = vaults[v]
      /\ vaults[w].status = "Inactive" => vaults'[w].status = "Inactive"
    BY <1>1, <1>4
<1>7. Wallets'
    <2>1. \A v \in Vault : PaidBy(v)' = PaidBy(v)
        BY DEF PaidBy
    <2>2. \A q \in slashed' \cup passed' : Acted(q)'
        <3>1. slashed' \cup passed' \subseteq slashed \cup passed \cup {p}
            BY QuorumMarks
        <3> QED
            BY <1>2, <3>1 DEF OutInv, Wallets
    <2>3. \A q \in Payment : Acted(q)' => q \in sent'
        BY DEF OutInv, Wallets
    <2> QED
        BY <2>1, <2>2, <2>3 DEF OutInv, Wallets
<1>8. CASE pool
    <2>1. passed' = passed
        BY <1>8, QuorumMarks
    <2>2. DebitedTo(w)' = DebitedTo(w) \cup {p} /\ p \notin DebitedTo(w) /\ p \in PaidBy(w)
        BY <1>2, <2>1 DEF DebitedTo, PaidBy
    <2>3. \A v \in Vault : v # w => DebitedTo(v)' = DebitedTo(v)
        BY <1>2, <2>1 DEF DebitedTo
    <2>4. Cardinality(DebitedTo(w)') = Cardinality(DebitedTo(w)) + 1
        BY <1>1, <1>3, <2>2, FS_AddElement
    <2>5. Cardinality(DebitedTo(w)) < Funds /\ Cardinality(DebitedTo(w)) \in Nat
        <3>1. Cardinality(PaidBy(w)) <= Funds
            BY <1>1 DEF OutInv, Wallets
        <3>2. /\ Cardinality(DebitedTo(w)) <= Cardinality(PaidBy(w))
              /\ Cardinality(DebitedTo(w)) # Cardinality(PaidBy(w))
            BY <1>1, <1>3, <2>2, FS_Subset
        <3>3. Cardinality(PaidBy(w)) \in Nat /\ Cardinality(DebitedTo(w)) \in Nat
            BY <1>1, <1>3, FS_CardinalityType
        <3> QED
            BY <1>2, <3>1, <3>2, <3>3
    <2>6. vaults[w].funds = Funds - Cardinality(DebitedTo(w))
        BY <1>1, <1>8 DEF OutInv, FundsMatchWallet, DebitedTo
    <2>7. vaults[w].funds > 0 /\ vaults'[w].funds = vaults[w].funds - 1
        BY <1>2, <1>6, <2>5, <2>6
    <2>8. ASSUME NEW v \in Vault PROVE vaults'[v].funds = Funds - Cardinality(DebitedTo(v)')
        <3>1. CASE v = w
            BY <1>2, <2>4, <2>5, <2>6, <2>7, <3>1
        <3>2. CASE v # w
            BY <1>6, <1>8, <2>3, <3>2 DEF OutInv, FundsMatchWallet, DebitedTo
        <3> QED
            BY <3>1, <3>2
    <2>9. FundsMatchWallet'
        BY <1>8, <2>8 DEF FundsMatchWallet, DebitedTo
    <2> QED
        BY <1>5, <1>6, <1>7, <1>8, <2>7, <2>9
<1>9. CASE ~pool
    <2>1. \A v \in Vault : vaults[v].funds = 0
        BY <1>9 DEF OutInv, FundsMatchWallet
    <2>2. \A v \in Vault : vaults'[v].funds = 0
        BY <1>1, <1>6, <2>1
    <2>3. FundsMatchWallet'
        BY <1>9, <2>2 DEF FundsMatchWallet
    <2> QED
        BY <1>5, <1>6, <1>7, <1>9, <2>1, <2>2, <2>3
<1> QED
    BY <1>8, <1>9

\* ... and closes one open item of its action, or is slashed or passed over.
LEMMA QuorumItems ==
    ASSUME OutInv, NEW p \in Payment, todo = {}, todo' = {}, ~Acted(p), sent' = sent,
           \A q \in Payment : q # p => Acted(q)' = Acted(q),
           pool => vaults[p.v].funds > 0,
           quorum(p)
    PROVE  /\ txOut' \subseteq Item /\ outTxs' \in Seq(Payment)
           /\ slashed' \subseteq Payment /\ passed' \subseteq Payment
           /\ OneLiveItem' /\ SettledClosedItem'
<1> USE Marks
<1>0. txOut \subseteq Item /\ outTxs \in Seq(Payment) /\ sent \subseteq Payment
      /\ slashed' \subseteq Payment /\ passed' \subseteq Payment
    BY QuorumMarks DEF OutInv, OutTypeOK
<1>1. Settled' \subseteq Settled \cup {p}
    BY <1>0, QuorumMarks DEF Settled
<1>2. CASE p.a \in Action /\ Matching(p) # {}
    <2>1. PICK i \in txOut :
              /\ i \in Item /\ i.a = p.a /\ i.v = p.v /\ i.out = Open
              /\ i = CHOOSE k \in Matching(p) : \A j \in Matching(p) : j.h <= k.h
        BY <1>2, MatchingIsUnique DEF OutInv
    <2> DEFINE c == [i EXCEPT !.out = p]
    <2>2. txOut' = (txOut \ {i}) \cup {c} /\ outTxs' = AddOutTx(p)
        BY <1>2, <2>1 DEF quorum, handle
    <2>3. c \in Item /\ c.a = i.a /\ c.out = p
        BY <2>1 DEF Item
    <2> HIDE DEF c
    <2>4. txOut' \subseteq Item /\ outTxs' \in Seq(Payment)
        BY <1>0, <2>2, <2>3, AddOutTxType DEF OutInv
    <2>5. OneLiveItem'
        BY <2>1, <2>2, <2>3 DEF OutInv, OneLiveItem
    <2>6. ASSUME NEW q \in Settled', q.a \in Action PROVE \E j \in txOut' : j.a = q.a /\ j.out = q
        <3>1. CASE q = p
            BY <2>1, <2>2, <2>3, <3>1
        <3>2. CASE q # p
            <4>1. q \in Settled /\ q \in Payment
                BY <1>0, <1>1, <3>2 DEF Settled
            <4>2. PICK j \in txOut : j.a = q.a /\ j.out = q
                BY <2>6, <4>1 DEF OutInv, SettledClosedItem
            <4>3. j # i
                BY <2>1, <4>1, <4>2
            <4> QED
                BY <2>2, <4>2, <4>3
        <3> QED
            BY <3>1, <3>2
    <2>7. SettledClosedItem'
        BY <2>6 DEF SettledClosedItem
    <2> QED
        BY <1>0, <2>4, <2>5, <2>7
<1>3. CASE ~(p.a \in Action /\ Matching(p) # {})
    <2>1. txOut' = txOut /\ outTxs' \in {outTxs, AddOutTx(p)}
        BY <1>3 DEF quorum, handle
    <2>2. outTxs' \in Seq(Payment)
        BY <1>0, <2>1, AddOutTxType DEF OutInv
    <2>3. p \in slashed' \cup passed'
        BY <1>3, QuorumMarks
    <2>4. Settled' \subseteq Settled
        BY <1>1, <2>3 DEF Settled
    <2>5. SettledClosedItem'
        BY <2>1, <2>4 DEF OutInv, SettledClosedItem
    <2>6. OneLiveItem'
        BY <2>1 DEF OutInv, OneLiveItem
    <2> QED
        BY <1>0, <2>1, <2>2, <2>5, <2>6
<1> QED
    BY <1>2, <1>3

\* A payment whose processing fails leaves the books and the items as they are.
LEMMA FailsKeepsBooks ==
    ASSUME OutInv, NEW p \in Payment, ~Acted(p), Acted(p)', p \in sent, sent' = sent, pool' = pool,
           \A q \in Payment : q # p => Acted(q)' = Acted(q),
           quorumFails(p)
    PROVE  /\ outTxs' \in Seq(Payment) /\ faults' \in Nat /\ passed' \subseteq Payment
           /\ UNCHANGED <<txOut, vaults, slashed>> /\ Settled' = Settled
           /\ Wallets' /\ FundsMatchWallet' /\ SettledClosedItem'
<1>1. UNCHANGED <<txOut, vaults, slashed>> /\ passed' = passed \cup {p} /\ outTxs' \in {outTxs, AddOutTx(p)}
      /\ faults' = faults + 1
    BY DEF quorumFails, Fault
<1>2. sent \subseteq Payment /\ passed \subseteq Payment /\ slashed \subseteq Payment /\ faults \in Nat
      /\ outTxs \in Seq(Payment) /\ p \notin passed
    BY DEF OutInv, OutTypeOK, Wallets
<1>3. outTxs' \in Seq(Payment) /\ faults' \in Nat /\ passed' \subseteq Payment
    BY <1>1, <1>2, AddOutTxType DEF OutInv
<1>4. Settled' = Settled
    BY <1>1, <1>2 DEF Settled
<1>5. \A v \in Vault : PaidBy(v)' = PaidBy(v) /\ DebitedTo(v)' = DebitedTo(v)
    BY <1>1, <1>2 DEF PaidBy, DebitedTo
<1>6. Wallets'
    BY <1>1, <1>2, <1>5 DEF OutInv, Wallets
<1>7. FundsMatchWallet'
    BY <1>1, <1>5 DEF OutInv, FundsMatchWallet, DebitedTo
<1>8. SettledClosedItem'
    BY <1>1, <1>4 DEF OutInv, SettledClosedItem
<1> QED
    BY <1>1, <1>3, <1>4, <1>6, <1>7, <1>8

\* An attested outbound debits its vault when its vote crosses, and only then.
LEMMA ObserveKeepsOutInv ==
    ASSUME OutInv, NEW n \in Node, NEW p \in Payment, NEW final \in BOOLEAN,
           ObserveTxOut(n, p, final)
    PROVE  OutInv'
<1>1. /\ voters' \in [Payment -> Voter] /\ links' \in Seq(Payment)
      /\ \A q \in Payment : Acted(q)' \in BOOLEAN /\ (q # p => Acted(q)' = Acted(q))
      /\ Acted(p) => Acted(p)'
      /\ p \in sent /\ sent' = sent /\ todo = {} /\ todo' = {} /\ height' = height /\ pool' = pool
      /\ IF ~Acted(p) /\ Acted(p)' THEN quorum(p) \/ quorumFails(p)
         ELSE UNCHANGED <<txOut, outTxs, vaults, slashed, passed, faults>>
    BY ReportVoters DEF OutInv
<1>2. CASE ~Acted(p) /\ Acted(p)' /\ quorum(p)
    <2>1. /\ vaults' \in [Vault -> Record]
          /\ Wallets' /\ FundsMatchWallet'
          /\ pool => vaults[p.v].funds > 0
        BY <1>1, <1>2, QuorumBooks
    <2>2. /\ txOut' \subseteq Item /\ outTxs' \in Seq(Payment)
          /\ slashed' \subseteq Payment /\ passed' \subseteq Payment
          /\ OneLiveItem' /\ SettledClosedItem'
        BY <1>1, <1>2, <2>1, QuorumItems
    <2>3. OutTypeOK'
        BY <1>1, <1>2, <2>1, <2>2, QuorumMarks DEF OutInv, OutTypeOK, Record
    <2> QED
        BY <2>1, <2>2, <2>3 DEF OutInv
<1>3. CASE ~Acted(p) /\ Acted(p)' /\ quorumFails(p)
    <2>1. /\ outTxs' \in Seq(Payment) /\ faults' \in Nat /\ passed' \subseteq Payment
          /\ UNCHANGED <<txOut, vaults, slashed>>
          /\ Wallets' /\ FundsMatchWallet' /\ SettledClosedItem'
        BY <1>1, <1>3, FailsKeepsBooks
    <2>2. OutTypeOK'
        BY <1>1, <2>1 DEF OutInv, OutTypeOK
    <2>3. OneLiveItem'
        BY <1>1, <2>1 DEF OutInv, OneLiveItem
    <2> QED
        BY <2>1, <2>2, <2>3 DEF OutInv
<1>4. CASE ~(~Acted(p) /\ Acted(p)')
    <2>1. UNCHANGED <<txOut, outTxs, vaults, slashed, passed, faults>>
        BY <1>1, <1>4
    <2>2. \A q \in Payment : Acted(q)' = Acted(q)
        <3>1. Acted(p) \in BOOLEAN
            BY DEF OutInv, OutTypeOK, Voter, Acted
        <3> QED
            BY <1>1, <1>4, <3>1
    <2>3. OutTypeOK'
        BY <1>1, <2>1 DEF OutInv, OutTypeOK
    <2>4. sent \subseteq Payment /\ slashed \subseteq Payment /\ passed \subseteq Payment
        BY DEF OutInv, OutTypeOK
    <2>5. Settled' = Settled /\ \A v \in Vault : PaidBy(v)' = PaidBy(v) /\ DebitedTo(v)' = DebitedTo(v)
        BY <1>1, <2>1, <2>2, <2>4 DEF Settled, PaidBy, DebitedTo
    <2>6. Wallets'
        BY <1>1, <2>1, <2>2, <2>4, <2>5 DEF OutInv, Wallets
    <2>7. FundsMatchWallet'
        BY <1>1, <2>1, <2>5 DEF OutInv, FundsMatchWallet, DebitedTo
    <2>8. OneLiveItem' /\ SettledClosedItem'
        BY <1>1, <2>1, <2>5 DEF OutInv, OneLiveItem, SettledClosedItem
    <2> QED
        BY <2>3, <2>6, <2>7, <2>8 DEF OutInv
<1> QED
    BY <1>1, <1>2, <1>3, <1>4

\* What the managers do at the end of a block: they end vaults, and may remove the
\* pool, with which the books are struck.
LEMMA FinishBooks ==
    ASSUME OutInv, FinishBlock, UNCHANGED <<voters, sent, slashed, passed>>
    PROVE  /\ vaults' \in [Vault -> Record] /\ pool' \in BOOLEAN /\ faults' \in Nat /\ height' \in Nat
           /\ height' = IF todo' = {} THEN height + 1 ELSE height
           /\ Wallets' /\ FundsMatchWallet' /\ Settled' = Settled
           /\ \A v \in Vault : vaults[v].status = "Inactive" => vaults'[v].status = "Inactive"
           /\ ~pool => ~pool'
           /\ \/ \A v \in Vault : vaults'[v].funds = vaults[v].funds
              \/ \A v \in Vault : vaults'[v].funds = 0
<1>1. vaults \in [Vault -> Record] /\ pool \in BOOLEAN /\ faults \in Nat /\ height \in Nat
    BY DEF OutInv, OutTypeOK, Record
<1>2. height' = (IF todo' = {} THEN height + 1 ELSE height) /\ height' \in Nat
    BY <1>1 DEF FinishBlock
<1>3. Settled' = Settled
    BY DEF Settled, Acted
<1>4. CASE UNCHANGED <<pool, faults>> /\ (vaults' = vaults \/ vaults' = Ended(vaults))
    <2>1. /\ vaults' \in [Vault -> Record]
          /\ \A v \in Vault : /\ vaults'[v].funds = vaults[v].funds
                              /\ vaults[v].status = "Inactive" => vaults'[v].status = "Inactive"
        BY <1>1, <1>4, EndedType
    <2>2. Wallets' /\ FundsMatchWallet'
        BY <1>4, <2>1, BooksUntouched
    <2> QED
        BY <1>1, <1>2, <1>3, <1>4, <2>1, <2>2
<1>5. CASE pool /\ pool' = FALSE /\ faults' = faults + 1 /\ vaults' = Ended(Abandoned)
    <2>1. /\ vaults' \in [Vault -> Record]
          /\ \A v \in Vault : /\ vaults'[v].funds = 0
                              /\ vaults[v].status = "Inactive" => vaults'[v].status = "Inactive"
        <3>1. /\ Abandoned \in [Vault -> Record]
              /\ \A v \in Vault : Abandoned[v].funds = 0 /\ Abandoned[v].status = vaults[v].status
            BY AbandonedType DEF OutInv
        <3> QED
            BY <1>5, <3>1, EndedType
    <2>2. FundsMatchWallet'
        BY <1>5, <2>1 DEF FundsMatchWallet
    <2>3. Wallets'
        <3>1. \A v \in Vault : PaidBy(v)' = PaidBy(v)
            BY DEF PaidBy
        <3> QED
            BY <3>1 DEF OutInv, Wallets, Acted
    <2>4. faults' \in Nat
        BY <1>1, <1>5
    <2>5. pool' \in BOOLEAN /\ ~pool'
        BY <1>5, Zenon
    <2> QED
        BY <1>2, <1>3, <2>1, <2>2, <2>3, <2>4, <2>5
<1> QED
    BY <1>4, <1>5 DEF FinishBlock, Fault

\* What LackSigning makes of an item: left as it is, closed and given to some
\* vault, or closed because the inbound counts as done.
LEMMA LackSigningCases ==
    ASSUME OutInv, NEW i \in todo, LackSigning(i)
    PROVE  /\ i \in txOut /\ i \in Item /\ i.out = Open
           /\ \/ txOut' = txOut /\ (TooManyAttempts \/ vaults[i.v].status = "Inactive" \/ ~pool)
              \/ pool /\ \E v \in Vault : Reschedule(i, v)
              \/ /\ IsDone /\ outTxs[1] \in Payment
                 /\ txOut' = (txOut \ {i}) \cup {[i EXCEPT !.out = outTxs[1]]}
<1>1. i \in txOut /\ i \in Item /\ i.out = Open
    BY DEF OutInv, OneLiveItem, OutTypeOK
<1>2. i.v \in Vault /\ i.a \in Action
    BY <1>1 DEF Item
<1>3. NewVaults(i) \subseteq Vault
    BY <1>2 DEF NewVaults
<1>4. IsDone => outTxs[1] \in Payment
    <2>1. Cardinality(Action) \in Nat /\ Cardinality(Action) # 0
        BY <1>2, OutAssumption, FS_CardinalityType, FS_EmptySet
    <2> QED
        BY <2>1 DEF IsDone, OutInv, OutTypeOK
<1>5. \A v : Reschedule(i, v) /\ ~pool => txOut' = txOut
    BY DEF Reschedule
<1> QED
    BY <1>1, <1>2, <1>3, <1>4, <1>5 DEF LackSigning

\* Rescheduling moves an item that was not paid to another vault.
LEMMA LackSigningKeepsOutInv ==
    ASSUME OutInv, NEW i \in todo, LackSigning(i)
    PROVE  OutInv'
<1> USE Marks
<1>0. i \in txOut /\ i \in Item /\ i.out = Open /\ txOut \subseteq Item /\ todo \subseteq Item
      /\ Settled \subseteq Payment
    BY LackSigningCases DEF OutInv, OutTypeOK, Settled
<1>1. /\ todo' = todo \ {i} /\ FinishBlock
      /\ UNCHANGED <<links, voters, outTxs, sent, slashed, passed>>
    BY DEF LackSigning
<1>2. /\ vaults' \in [Vault -> Record] /\ pool' \in BOOLEAN /\ faults' \in Nat /\ height' \in Nat
      /\ Wallets' /\ FundsMatchWallet' /\ Settled' = Settled
    BY <1>1, FinishBooks
<1>4. txOut' \subseteq Item /\ OneLiveItem' /\ SettledClosedItem'
    <2>1. CASE txOut' = txOut
        BY <1>0, <1>1, <1>2, <2>1 DEF OutInv, OneLiveItem, SettledClosedItem
    <2>2. ASSUME NEW v \in Vault, Reschedule(i, v), pool
          PROVE  txOut' \subseteq Item /\ OneLiveItem' /\ SettledClosedItem'
        <3> DEFINE b == [i EXCEPT !.out = Blank]
                   o == [h |-> RoundUp(height), a |-> i.a, v |-> v, out |-> Open]
        <3>1. txOut' = (txOut \ {i}) \cup {b, o}
            BY <2>2 DEF Reschedule
        <3>2. b \in Item /\ b.out = Blank
            BY <1>0 DEF Item
        <3>3. o \in Item /\ o.a = i.a /\ o.out = Open
            BY <1>0, RoundUpType DEF Item, OutInv, OutTypeOK
        <3> HIDE DEF b, o
        <3>4. txOut' \subseteq Item
            BY <1>0, <3>1, <3>2, <3>3
        <3>5. OneLiveItem'
            BY <1>0, <1>1, <3>1, <3>2, <3>3 DEF OutInv, OneLiveItem
        <3>6. SettledClosedItem'
            BY <1>0, <1>2, <3>1 DEF OutInv, SettledClosedItem
        <3> QED
            BY <3>4, <3>5, <3>6
    <2>3. CASE outTxs[1] \in Payment /\ txOut' = (txOut \ {i}) \cup {[i EXCEPT !.out = outTxs[1]]}
        <3> DEFINE c == [i EXCEPT !.out = outTxs[1]]
        <3>1. txOut' = (txOut \ {i}) \cup {c} /\ c \in Item /\ c.a = i.a
            BY <1>0, <2>3 DEF Item
        <3> HIDE DEF c
        <3>2. OneLiveItem'
            BY <1>0, <1>1, <3>1 DEF OutInv, OneLiveItem
        <3>3. SettledClosedItem'
            BY <1>0, <1>2, <3>1 DEF OutInv, SettledClosedItem
        <3> QED
            BY <1>0, <3>1, <3>2, <3>3
    <2> QED
        BY <2>1, <2>2, <2>3, LackSigningCases
<1>5. OutTypeOK'
    BY <1>0, <1>1, <1>2, <1>4 DEF OutInv, OutTypeOK, Record
<1> QED
    BY <1>2, <1>4, <1>5 DEF OutInv

\* A block ends.
LEMMA EndBlockKeepsOutInv ==
    ASSUME OutInv, EndBlock
    PROVE  OutInv'
<1>1. /\ todo' \subseteq {i \in txOut : i.out = Open} /\ FinishBlock
      /\ UNCHANGED <<txOut, links, voters, outTxs, sent, slashed, passed>>
    BY DEF EndBlock
<1>2. /\ vaults' \in [Vault -> Record] /\ pool' \in BOOLEAN /\ faults' \in Nat /\ height' \in Nat
      /\ Wallets' /\ FundsMatchWallet' /\ Settled' = Settled
    BY <1>1, FinishBooks
<1>3. OutTypeOK'
    BY <1>1, <1>2 DEF OutInv, OutTypeOK, Record
<1>4. OneLiveItem' /\ SettledClosedItem'
    BY <1>1, <1>2 DEF OutInv, OneLiveItem, SettledClosedItem
<1> QED
    BY <1>2, <1>3, <1>4 DEF OutInv

\* The books and the types hold throughout.
LEMMA OutInvInvariant == OutSpec => []OutInv
<1>1. OutInit => OutInv
    BY OutInvInit
<1>2. ASSUME OutInv, [OutNext]_outVars PROVE OutInv'
    <2>0. sent \subseteq Payment /\ Faulty \subseteq Vault
        BY <1>2, OutAssumption DEF OutInv, OutTypeOK
    <2>1. ASSUME NEW p \in Payment, Pay(p) PROVE OutInv'
        BY <1>2, <2>1, PayKeepsOutInv
    <2>2. ASSUME NEW v \in Faulty, Retire(v) \/ Freeze(v) PROVE OutInv'
        BY <1>2, <2>0, <2>2, VaultStatusKeepsOutInv
    <2>3. ASSUME NEW n \in Node, NEW p \in sent, NEW final \in BOOLEAN, ObserveTxOut(n, p, final)
          PROVE  OutInv'
        BY <1>2, <2>0, <2>3, ObserveKeepsOutInv
    <2>4. ASSUME NEW i \in todo, LackSigning(i) PROVE OutInv'
        BY <1>2, <2>4, LackSigningKeepsOutInv
    <2>5. CASE EndBlock
        BY <1>2, <2>5, EndBlockKeepsOutInv
    <2>6. CASE UNCHANGED outVars
        <3>1. Wallets' /\ FundsMatchWallet'
            BY <1>2, <2>6, BooksUntouched DEF outVars
        <3>2. OutTypeOK'
            BY <1>2, <2>6 DEF outVars, OutInv, OutTypeOK
        <3>3. OneLiveItem' /\ SettledClosedItem'
            BY <1>2, <2>6 DEF outVars, OutInv, OneLiveItem, SettledClosedItem, Settled, Acted
        <3> QED
            BY <3>1, <3>2, <3>3 DEF OutInv
    <2> QED
        BY <1>2, <2>1, <2>2, <2>3, <2>4, <2>5, <2>6 DEF OutNext
<1> QED
    BY <1>1, <1>2, PTL DEF OutSpec

\* Two payments of one action that both had consensus were not both overlooked.
LEMMA SettledIsUnique == OutInv => OnePaymentUnpunished
<1> SUFFICES ASSUME OutInv, NEW p \in Settled, NEW q \in Settled, p.a = q.a, p.a \in Action
             PROVE  p = q
    BY DEF OnePaymentUnpunished
<1>1. PICK i \in txOut : i.a = p.a /\ i.out = p
    BY DEF OutInv, SettledClosedItem
<1>2. PICK j \in txOut : j.a = q.a /\ j.out = q
    BY DEF OutInv, SettledClosedItem
<1>3. p \in Payment /\ q \in Payment
    BY DEF OutInv, OutTypeOK, Settled
<1>4. i = j
    BY <1>1, <1>2, <1>3, Marks DEF OutInv, OneLiveItem
<1> QED
    BY <1>1, <1>2, <1>4

-----------------------------------------------------------------------------
(* No action is forgotten: the second invariant *)

\* OutTxs lists each payment of an action that had consensus once.
OutTxsAreActed ==
    /\ \A k \in 1 .. Len(outTxs) : outTxs[k].a \in Action /\ Acted(outTxs[k])
    /\ \A k, l \in 1 .. Len(outTxs) : outTxs[k] = outTxs[l] => k = l

Paid(a) == \E p \in sent : p.a = a /\ Acted(p)

\* The item is open and LackSigning has it still to come, in this block or in a
\* later one, or had its reason to let it go.
Awaited(i) ==
    /\ i.out = Open
    /\ \/ /\ i.h >= height - SigningTransactionPeriod
          /\ todo # {} => i \in todo \/ i.h > height - SigningTransactionPeriod
       \/ TooManyAttempts
       \/ vaults[i.v].status = "Inactive"
       \/ ~pool

\* The inbound counted as done without the action.
CountedDone(a) ==
    /\ \E i \in txOut : i.a = a /\ i.out \notin {Open, Blank} /\ i.out.a # a
    /\ \E p \in slashed \cup passed : p.a \in Action

ActionsKept ==
    \A a \in Action : Paid(a) \/ (\E i \in txOut : i.a = a /\ Awaited(i)) \/ CountedDone(a)

KeptInv == height >= StartHeight /\ OutTxsAreActed /\ ActionsKept

\* The attempts made grow with the height.
LEMMA AttemptsGrow ==
    ASSUME NEW x \in Nat, NEW y \in Nat, NEW c \in Nat, c > 0, x <= y
    PROVE  x \div c <= y \div c
OBVIOUS

\* Once too many attempts were made, they stay too many.
LEMMA TooManyStays ==
    ASSUME OutTypeOK, KeptInv, TooManyAttempts, height' \in {height, height + 1}
    PROVE  TooManyAttempts'
<1> DEFINE x == height - StartHeight
           y == height' - StartHeight
           c == SigningTransactionPeriod
<1>1. x \in Nat /\ y \in Nat /\ x <= y /\ c \in Nat /\ c > 0 /\ MaxOutboundAttempts \in Nat
    BY OutAssumption, SMTT(20) DEF OutTypeOK, KeptInv
<1>2. x \div c <= y \div c
    <2> HIDE DEF x, y, c
    <2> QED
        BY <1>1, AttemptsGrow
<1>3. x \div c \in Int /\ y \div c \in Int
    BY <1>1
<1>4. MaxOutboundAttempts > 0 /\ x \div c >= MaxOutboundAttempts
    BY DEF TooManyAttempts
<1>5. y \div c >= MaxOutboundAttempts
    BY <1>1, <1>2, <1>3, <1>4
<1> QED
    BY <1>4, <1>5 DEF TooManyAttempts

\* Every action has its item when the outbounds are scheduled.
LEMMA KeptInvInit == OutInit => KeptInv
<1> SUFFICES ASSUME OutInit PROVE KeptInv
    OBVIOUS
<1>1. PICK assigned \in [Action -> Vault] :
          txOut = {[h |-> StartHeight, a |-> a, v |-> assigned[a], out |-> Open] : a \in Action}
    BY DEF OutInit
<1>2. ASSUME NEW a \in Action PROVE \E i \in txOut : i.a = a /\ Awaited(i)
    <2> DEFINE i == [h |-> StartHeight, a |-> a, v |-> assigned[a], out |-> Open]
    <2>1. i \in txOut
        BY <1>1
    <2>2. Awaited(i)
        BY OutAssumption DEF OutInit, Awaited
    <2> QED
        BY <2>1, <2>2
<1> QED
    BY <1>2, OutAssumption DEF OutInit, KeptInv, OutTxsAreActed, ActionsKept

\* Steps that leave the items, the votes and the time as they are.
LEMMA QuietKeepsKept ==
    ASSUME OutInv, KeptInv, UNCHANGED <<height, todo, txOut, voters, outTxs, slashed, passed, pool>>,
           sent \subseteq sent',
           \A v \in Vault : vaults[v].status = "Inactive" => vaults'[v].status = "Inactive"
    PROVE  KeptInv'
<1>1. \A p : Acted(p)' = Acted(p)
    BY DEF Acted
<1>2. OutTxsAreActed'
    BY <1>1 DEF KeptInv, OutTxsAreActed
<1>3. \A a : (Paid(a) => Paid(a)') /\ (CountedDone(a) => CountedDone(a)')
    BY <1>1 DEF Paid, CountedDone
<1>4. \A i \in txOut : Awaited(i) => Awaited(i)'
    BY DEF OutInv, OutTypeOK, Item, Awaited, TooManyAttempts
<1> QED
    BY <1>2, <1>3, <1>4 DEF KeptInv, ActionsKept

\* AddOutTx appends a payment that has just had consensus, once.
LEMMA AddOutTxActed ==
    ASSUME OutInv, OutTxsAreActed, NEW p \in Payment, p.a \in Action, Acted(p)',
           \A q \in Payment : Acted(q) => Acted(q)',
           outTxs' = AddOutTx(p)
    PROVE  OutTxsAreActed'
<1>0. outTxs \in Seq(Payment)
    BY DEF OutInv, OutTypeOK
<1>1. CASE Listed(outTxs, p)
    BY <1>0, <1>1 DEF AddOutTx, OutTxsAreActed
<1>2. CASE ~Listed(outTxs, p)
    <2>1. outTxs' = Append(outTxs, p)
        BY <1>2 DEF AddOutTx
    <2>2. Len(outTxs') = Len(outTxs) + 1 /\ outTxs'[Len(outTxs) + 1] = p
        BY <1>0, <2>1
    <2>3. \A k \in 1 .. Len(outTxs) : outTxs'[k] = outTxs[k] /\ outTxs[k] \in Payment /\ outTxs[k] # p
        BY <1>0, <1>2, <2>1 DEF Listed
    <2>4. \A k \in 1 .. Len(outTxs') : k \in 1 .. Len(outTxs) \/ k = Len(outTxs) + 1
        BY <1>0, <2>2
    <2> QED
        BY <2>2, <2>3, <2>4 DEF OutTxsAreActed
<1> QED
    BY <1>1, <1>2

\* An observation takes an item off the list only for its payment.
LEMMA ObserveKeepsKept ==
    ASSUME OutInv, KeptInv, NEW n \in Node, NEW p \in Payment, NEW final \in BOOLEAN,
           ObserveTxOut(n, p, final)
    PROVE  KeptInv'
<1> USE Marks
<1>1. /\ \A q \in Payment : Acted(q) => Acted(q)'
      /\ \A q \in Payment : q # p => Acted(q)' = Acted(q)
      /\ p \in sent /\ sent' = sent /\ todo = {} /\ todo' = {} /\ height' = height /\ pool' = pool
      /\ IF ~Acted(p) /\ Acted(p)' THEN quorum(p) \/ quorumFails(p)
         ELSE UNCHANGED <<txOut, outTxs, vaults, slashed, passed, faults>>
    BY ReportVoters DEF OutInv
<1>2. outTxs \in Seq(Payment) /\ \A a : Paid(a) => Paid(a)'
    BY <1>1 DEF OutInv, OutTypeOK, Paid
<1>3. CASE ~(~Acted(p) /\ Acted(p)')
    <2>1. UNCHANGED <<height, todo, txOut, outTxs, vaults, slashed, passed, pool>>
        BY <1>1, <1>3
    <2>2. OutTxsAreActed'
        BY <1>1, <1>2, <2>1 DEF KeptInv, OutTxsAreActed
    <2>3. \A i : Awaited(i)' = Awaited(i)
        BY <2>1 DEF Awaited, TooManyAttempts
    <2>4. ActionsKept'
        BY <1>2, <2>1, <2>3 DEF KeptInv, ActionsKept, CountedDone
    <2> QED
        BY <2>1, <2>2, <2>4 DEF KeptInv
<1>4. CASE ~Acted(p) /\ Acted(p)' /\ quorumFails(p)
    <2>1. /\ UNCHANGED <<height, todo, txOut, vaults, slashed, pool>> /\ passed \subseteq passed'
          /\ outTxs' = outTxs \/ (outTxs' = AddOutTx(p) /\ p.a \in Action)
        BY <1>1, <1>4 DEF quorumFails
    <2>2. OutTxsAreActed'
        <3>1. CASE outTxs' = outTxs
            BY <1>1, <1>2, <3>1 DEF KeptInv, OutTxsAreActed
        <3>2. CASE outTxs' = AddOutTx(p) /\ p.a \in Action
            BY <1>1, <1>4, <3>2, AddOutTxActed DEF KeptInv
        <3> QED
            BY <2>1, <3>1, <3>2
    <2>3. \A i : Awaited(i)' = Awaited(i)
        BY <2>1 DEF Awaited, TooManyAttempts
    <2>4. \A a : CountedDone(a) => CountedDone(a)'
        BY <2>1 DEF CountedDone
    <2>5. ActionsKept'
        BY <1>2, <2>1, <2>3, <2>4 DEF KeptInv, ActionsKept
    <2> QED
        BY <2>1, <2>2, <2>5 DEF KeptInv
<1>5. CASE ~Acted(p) /\ Acted(p)' /\ quorum(p)
    <2>1. quorum(p) /\ slashed \subseteq slashed' /\ passed \subseteq passed'
        BY <1>5, QuorumMarks
    <2>2. \A i \in txOut : Awaited(i) => Awaited(i)'
        <3>1. \A i \in txOut : i.v \in Vault
            BY DEF OutInv, OutTypeOK, Item
        <3>2. \A v \in Vault : vaults[v].status = "Inactive" => vaults'[v].status = "Inactive"
            BY <1>1, <1>5, QuorumBooks
        <3> QED
            BY <1>1, <3>1, <3>2 DEF Awaited, TooManyAttempts
    <2>3. CASE p.a \notin Action
        <3>1. txOut' = txOut /\ outTxs' = outTxs
            BY <2>1, <2>3 DEF quorum
        <3>2. OutTxsAreActed'
            BY <1>1, <1>2, <3>1 DEF KeptInv, OutTxsAreActed
        <3> QED
            BY <1>1, <1>2, <2>1, <2>2, <3>1, <3>2 DEF KeptInv, ActionsKept, CountedDone
    <2>4. CASE p.a \in Action /\ Matching(p) = {}
        <3>1. txOut' = txOut /\ outTxs' = AddOutTx(p)
            BY <2>1, <2>4 DEF quorum, handle
        <3>2. OutTxsAreActed'
            BY <1>1, <1>5, <2>4, <3>1, AddOutTxActed DEF KeptInv
        <3> QED
            BY <1>1, <1>2, <2>1, <2>2, <3>1, <3>2 DEF KeptInv, ActionsKept, CountedDone
    <2>5. CASE p.a \in Action /\ Matching(p) # {}
        <3>1. PICK i \in txOut :
                  /\ i \in Item /\ i.a = p.a /\ i.v = p.v /\ i.out = Open
                  /\ i = CHOOSE k \in Matching(p) : \A j \in Matching(p) : j.h <= k.h
            BY <2>5, MatchingIsUnique DEF OutInv
        <3>2. txOut' = (txOut \ {i}) \cup {[i EXCEPT !.out = p]} /\ outTxs' = AddOutTx(p)
            BY <2>1, <2>5, <3>1 DEF quorum, handle
        <3>3. OutTxsAreActed'
            BY <1>1, <1>5, <2>5, <3>2, AddOutTxActed DEF KeptInv
        <3>4. Paid(p.a)'
            BY <1>1, <1>5 DEF Paid
        <3>5. ASSUME NEW a \in Action, a # p.a, NEW j \in txOut, j.a = a PROVE j \in txOut'
            BY <3>1, <3>2, <3>5
        <3>6. ASSUME NEW a \in Action
              PROVE  Paid(a)' \/ (\E j \in txOut' : j.a = a /\ Awaited(j)') \/ CountedDone(a)'
            <4>1. CASE a = p.a
                BY <3>4, <4>1
            <4>2. CASE a # p.a
                <5>1. CASE \E j \in txOut : j.a = a /\ Awaited(j)
                    BY <2>2, <3>5, <4>2, <5>1
                <5>2. CASE CountedDone(a)
                    BY <2>1, <3>5, <4>2, <5>2 DEF CountedDone
                <5> QED
                    BY <1>2, <5>1, <5>2 DEF KeptInv, ActionsKept
            <4> QED
                BY <4>1, <4>2
        <3>7. ActionsKept'
            BY <3>6 DEF ActionsKept
        <3> QED
            BY <1>1, <3>3, <3>7 DEF KeptInv
    <2> QED
        BY <2>3, <2>4, <2>5
<1> QED
    BY <1>1, <1>3, <1>4, <1>5

\* The inbound counts as done and the action a was not paid: some other action
\* was paid twice, and one of the two payments was slashed or passed over.
LEMMA DoneUnpaidMeansUnsettled ==
    ASSUME OutInv, KeptInv, IsDone, NEW a \in Action, ~Paid(a)
    PROVE  \E p \in slashed \cup passed : p.a \in Action
<1> DEFINE n == Len(outTxs)
           f == [k \in 1 .. n |-> outTxs[k].a]
<1>1. n \in Nat /\ \A k \in 1 .. n : outTxs[k] \in Payment
    BY DEF OutInv, OutTypeOK
<1>2. f \in [1 .. n -> Action \ {a}]
    BY <1>1 DEF KeptInv, OutTxsAreActed, Paid, OutInv, Wallets
<1>3. IsFiniteSet(Action \ {a}) /\ Cardinality(Action \ {a}) = Cardinality(Action) - 1
    BY OutAssumption, FS_RemoveElement
<1>4. IsFiniteSet(1 .. n) /\ Cardinality(1 .. n) = n
    BY <1>1, FS_Interval
<1>5. Cardinality(Action) \in Nat
    BY OutAssumption, FS_CardinalityType
<1>6. Cardinality(Action \ {a}) < Cardinality(1 .. n)
    BY <1>1, <1>3, <1>4, <1>5 DEF IsDone
<1>7. PICK x \in 1 .. n, y \in 1 .. n : x # y /\ f[x] = f[y]
    <2> HIDE DEF f, n
    <2> QED
        BY <1>2, <1>3, <1>4, <1>6, FS_PigeonHole
<1>8. outTxs[x] # outTxs[y] /\ outTxs[x].a = outTxs[y].a /\ outTxs[x].a \in Action
      /\ Acted(outTxs[x]) /\ Acted(outTxs[y])
    BY <1>7 DEF KeptInv, OutTxsAreActed
<1>9. outTxs[x] \in slashed \cup passed \/ outTxs[y] \in slashed \cup passed
    <2>1. outTxs[x] \in sent /\ outTxs[y] \in sent
        BY <1>1, <1>8 DEF OutInv, Wallets
    <2> QED
        BY <1>8, <2>1, SettledIsUnique DEF OnePaymentUnpunished, Settled
<1> QED
    BY <1>8, <1>9

\* An item that is not the one LackSigning looks at stays awaited; so does the
\* one it leaves alone, for the reason it has.
LEMMA AwaitedStays ==
    ASSUME OutInv, KeptInv, NEW i \in todo, LackSigning(i), NEW j \in txOut, Awaited(j),
           j # i \/ TooManyAttempts \/ vaults[i.v].status = "Inactive" \/ ~pool
    PROVE  Awaited(j)'
<1>1. /\ todo' = todo \ {i} /\ j.v \in Vault
      /\ height' = IF todo' = {} THEN height + 1 ELSE height
      /\ \A v \in Vault : vaults[v].status = "Inactive" => vaults'[v].status = "Inactive"
      /\ ~pool => ~pool'
    BY FinishBooks DEF LackSigning, OutInv, OutTypeOK, Item
<1>2. TooManyAttempts => TooManyAttempts'
    BY <1>1, TooManyStays DEF OutInv
<1>3. CASE TooManyAttempts \/ vaults[j.v].status = "Inactive" \/ ~pool
    BY <1>1, <1>2, <1>3 DEF Awaited
<1>4. CASE ~(TooManyAttempts \/ vaults[j.v].status = "Inactive" \/ ~pool)
    <2>1. j # i /\ j.out = Open
        BY <1>4 DEF Awaited
    <2>2. j.h \in Nat /\ height \in Nat /\ SigningTransactionPeriod \in Nat
        BY OutAssumption DEF OutInv, OutTypeOK, Item
    <2>3. j.h >= height - SigningTransactionPeriod /\ (j \in todo \/ j.h > height - SigningTransactionPeriod)
        BY <1>4 DEF Awaited
    <2>4. j.h >= height' - SigningTransactionPeriod
        BY <1>1, <2>1, <2>2, <2>3
    <2>5. todo' # {} => j \in todo' \/ j.h > height' - SigningTransactionPeriod
        BY <1>1, <2>1, <2>3
    <2> QED
        BY <2>1, <2>4, <2>5 DEF Awaited
<1> QED
    BY <1>3, <1>4

\* Rescheduling keeps an item for every action that is still owed.
LEMMA LackSigningKeepsKept ==
    ASSUME OutInv, KeptInv, NEW i \in todo, LackSigning(i)
    PROVE  KeptInv'
<1> USE Marks
<1>0. i \in txOut /\ i \in Item /\ i.out = Open
    BY LackSigningCases
<1>1. /\ todo' = todo \ {i} /\ UNCHANGED <<links, voters, outTxs, sent, slashed, passed>>
      /\ height' = IF todo' = {} THEN height + 1 ELSE height
    BY FinishBooks DEF LackSigning
<1>2. \A p : Acted(p)' = Acted(p)
    BY <1>1 DEF Acted
<1>3. OutTxsAreActed' /\ height' >= StartHeight /\ \A a : Paid(a)' = Paid(a)
    BY <1>1, <1>2, OutAssumption DEF KeptInv, OutTxsAreActed, OutInv, OutTypeOK, Paid
<1>4. ASSUME NEW a \in Action
      PROVE  Paid(a)' \/ (\E j \in txOut' : j.a = a /\ Awaited(j)') \/ CountedDone(a)'
    <2>1. CASE txOut' = txOut /\ (TooManyAttempts \/ vaults[i.v].status = "Inactive" \/ ~pool)
        <3>1. \A j \in txOut : Awaited(j) => Awaited(j)'
            BY <2>1, AwaitedStays
        <3> QED
            BY <1>1, <1>3, <2>1, <3>1 DEF KeptInv, ActionsKept, CountedDone
    <2>2. ASSUME NEW v \in Vault, Reschedule(i, v), pool
          PROVE  Paid(a)' \/ (\E j \in txOut' : j.a = a /\ Awaited(j)') \/ CountedDone(a)'
        <3>0. PICK o \in txOut' : o = [h |-> RoundUp(height), a |-> i.a, v |-> v, out |-> Open]
            BY <2>2 DEF Reschedule
        <3>1. o.a = i.a /\ \A j \in txOut : j # i => j \in txOut'
            BY <2>2, <3>0 DEF Reschedule
        <3>2. Awaited(o)'
            <4>1. o.h >= height /\ o.h \in Nat /\ o.out = Open /\ height \in Nat
                BY <3>0, RoundUpType DEF OutInv, OutTypeOK
            <4>2. SigningTransactionPeriod \in Nat /\ SigningTransactionPeriod > 0
                BY OutAssumption
            <4>3. o.h >= height' - SigningTransactionPeriod
                BY <1>1, <4>1, <4>2
            <4>4. todo' # {} => o.h > height' - SigningTransactionPeriod
                BY <1>1, <4>1, <4>2
            <4> QED
                BY <4>1, <4>3, <4>4 DEF Awaited
        <3>3. CASE a = i.a
            BY <3>1, <3>2, <3>3
        <3>4. CASE a # i.a
            <4>1. CASE \E j \in txOut : j.a = a /\ Awaited(j)
                BY <3>1, <3>4, <4>1, AwaitedStays
            <4>2. CASE CountedDone(a)
                BY <1>1, <3>1, <3>4, <4>2 DEF CountedDone
            <4> QED
                BY <1>3, <4>1, <4>2 DEF KeptInv, ActionsKept
        <3> QED
            BY <3>3, <3>4
    <2>3. CASE /\ IsDone /\ outTxs[1] \in Payment
               /\ txOut' = (txOut \ {i}) \cup {[i EXCEPT !.out = outTxs[1]]}
        <3> DEFINE c == [i EXCEPT !.out = outTxs[1]]
        <3>1. c \in txOut' /\ c.a = i.a /\ c.out = outTxs[1] /\ \A j \in txOut : j # i => j \in txOut'
            BY <1>0, <2>3 DEF Item
        <3> HIDE DEF c
        <3>2. CASE a = i.a
            <4>1. SUFFICES ASSUME ~Paid(a) PROVE CountedDone(a)'
                BY <1>3
            <4>2. \E p \in slashed \cup passed : p.a \in Action
                BY <2>3, <4>1, DoneUnpaidMeansUnsettled
            <4>3. Acted(outTxs[1])
                <5>1. Cardinality(Action) \in Nat /\ Cardinality(Action) # 0
                    BY OutAssumption, FS_CardinalityType, FS_EmptySet
                <5>2. 1 \in 1 .. Len(outTxs)
                    BY <2>3, <5>1 DEF IsDone, OutInv, OutTypeOK
                <5> QED
                    BY <5>2 DEF KeptInv, OutTxsAreActed
            <4>4. outTxs[1].a # a
                BY <2>3, <4>1, <4>3 DEF Paid, OutInv, Wallets
            <4> QED
                BY <1>1, <2>3, <3>1, <3>2, <4>2, <4>4 DEF CountedDone
        <3>3. CASE a # i.a
            <4>1. CASE \E j \in txOut : j.a = a /\ Awaited(j)
                BY <3>1, <3>3, <4>1, AwaitedStays
            <4>2. CASE CountedDone(a)
                BY <1>1, <3>1, <3>3, <4>2 DEF CountedDone
            <4> QED
                BY <1>3, <4>1, <4>2 DEF KeptInv, ActionsKept
        <3> QED
            BY <3>2, <3>3
    <2> QED
        BY <2>1, <2>2, <2>3, LackSigningCases
<1> QED
    BY <1>3, <1>4 DEF KeptInv, ActionsKept

\* The end of a block forgets no action.
LEMMA EndBlockKeepsKept ==
    ASSUME OutInv, KeptInv, EndBlock
    PROVE  KeptInv'
<1>1. /\ todo = {}
      /\ todo' = {i \in txOut : i.h = height - SigningTransactionPeriod /\ i.out = Open}
      /\ height' = IF todo' = {} THEN height + 1 ELSE height
      /\ UNCHANGED <<txOut, links, voters, outTxs, sent, slashed, passed>>
      /\ \A v \in Vault : vaults[v].status = "Inactive" => vaults'[v].status = "Inactive"
      /\ ~pool => ~pool'
    BY FinishBooks DEF EndBlock
<1>2. \A p : Acted(p)' = Acted(p)
    BY <1>1 DEF Acted
<1>3. OutTxsAreActed' /\ height' >= StartHeight /\ \A a : Paid(a)' = Paid(a)
    BY <1>1, <1>2, OutAssumption, SMTT(20)
    DEF KeptInv, OutTxsAreActed, OutInv, OutTypeOK, Paid
<1>4. ASSUME NEW j \in txOut, Awaited(j) PROVE Awaited(j)'
    <2>1. CASE TooManyAttempts
        <3>1. TooManyAttempts'
            BY <1>1, <2>1, TooManyStays DEF OutInv
        <3> QED
            BY <1>4, <3>1 DEF Awaited
    <2>2. CASE ~TooManyAttempts
        <3>1. j.v \in Vault /\ j.h \in Nat /\ height \in Nat /\ SigningTransactionPeriod \in Nat
            BY OutAssumption DEF OutInv, OutTypeOK, Item
        <3> QED
            BY <1>1, <1>4, <2>2, <3>1 DEF Awaited
    <2> QED
        BY <2>1, <2>2
<1>5. ActionsKept'
    BY <1>1, <1>3, <1>4 DEF KeptInv, ActionsKept, CountedDone
<1> QED
    BY <1>3, <1>5 DEF KeptInv

\* No action is forgotten, throughout.
LEMMA KeptInvInvariant == OutSpec => []KeptInv
<1>1. OutInit => KeptInv
    BY KeptInvInit
<1>2. ASSUME OutInv, KeptInv, [OutNext]_outVars PROVE KeptInv'
    <2>1. ASSUME NEW p \in Payment, Pay(p) PROVE KeptInv'
        BY <1>2, <2>1, QuietKeepsKept DEF Pay
    <2>2. ASSUME NEW v \in Faulty, Retire(v) \/ Freeze(v) PROVE KeptInv'
        <3>1. v \in Vault
            BY OutAssumption
        <3> QED
            BY <1>2, <2>2, <3>1, VaultStatusKeepsOutInv, QuietKeepsKept
    <2>3. ASSUME NEW n \in Node, NEW p \in sent, NEW final \in BOOLEAN, ObserveTxOut(n, p, final)
          PROVE  KeptInv'
        <3>1. p \in Payment
            BY <1>2 DEF OutInv, OutTypeOK
        <3> QED
            BY <1>2, <2>3, <3>1, ObserveKeepsKept
    <2>4. ASSUME NEW i \in todo, LackSigning(i) PROVE KeptInv'
        BY <1>2, <2>4, LackSigningKeepsKept
    <2>5. CASE EndBlock
        BY <1>2, <2>5, EndBlockKeepsKept
    <2>6. CASE UNCHANGED outVars
        BY <1>2, <2>6, QuietKeepsKept DEF outVars
    <2> QED
        BY <1>2, <2>1, <2>2, <2>3, <2>4, <2>5, <2>6 DEF OutNext
<1> QED
    BY <1>1, <1>2, OutInvInvariant, PTL DEF OutSpec

-----------------------------------------------------------------------------
(* The outbounds are a ledger *)

\* The books of the mapping in OutRefines.
Books == [v \in Vault |-> vaults[v].funds]

\* The report that brings the consensus enters the payment: it settles its
\* action if an item was open for it, and is punished if none was.  Without a
\* pool it is passed over.
LEMMA QuorumEnters ==
    ASSUME OutInv, NEW p \in Payment, p \in sent, ~Acted(p), Acted(p)', sent' = sent, pool' = pool,
           \A q \in Payment : q # p => Acted(q)' = Acted(q), quorum(p)
    PROVE  \/ Ledger!Settle(p) \/ Ledger!Punish(p)
           \/ UNCHANGED <<sent, Settled, slashed, Books>>
<1>0. /\ slashed \subseteq Payment /\ sent \subseteq Payment /\ p \notin slashed \cup passed
      /\ p.v \in Vault /\ p \notin Settled
    BY DEF OutInv, OutTypeOK, Wallets, Payment, Settled
<1>1. /\ pool => vaults[p.v].funds > 0 /\ vaults'[p.v].funds = vaults[p.v].funds - 1
      /\ \A v \in Vault : v # p.v \/ ~pool => vaults'[v].funds = vaults[v].funds
    BY QuorumBooks
<1>2. CASE pool
    <2>1. passed' = passed
        BY <1>2, QuorumMarks
    <2>2. Books' = [Books EXCEPT ![p.v] = @ - 1] /\ Books[p.v] > 0
        BY <1>0, <1>1, <1>2 DEF Books
    <2>3. Ledger!Enter(p)
        BY <1>0, <2>2 DEF Ledger!Enter, Books
    <2>4. CASE p.a \in Action /\ Matching(p) # {}
        <3>1. slashed' = slashed
            BY <2>4, QuorumMarks
        <3>2. Settled' = Settled \cup {p}
            BY <1>0, <2>1, <3>1 DEF Settled
        <3>3. ASSUME NEW q \in Settled, q.a = p.a PROVE FALSE
            <4>1. PICK i \in txOut : i.a = p.a /\ i.out = Open
                BY <2>4, MatchingIsUnique DEF OutInv
            <4>2. PICK j \in txOut : j.a = q.a /\ j.out = q
                BY <2>4, <3>3 DEF OutInv, SettledClosedItem
            <4>3. q \in Payment
                BY <1>0 DEF Settled
            <4>4. i = j
                BY <3>3, <4>1, <4>2, <4>3, Marks DEF OutInv, OneLiveItem
            <4> QED
                BY <4>1, <4>2, <4>3, <4>4, Marks
        <3> QED
            BY <2>3, <2>4, <3>1, <3>2, <3>3 DEF Ledger!Settle
    <2>5. CASE ~(p.a \in Action /\ Matching(p) # {})
        <3>1. slashed' = slashed \cup {p}
            BY <1>1, <1>2, <2>5, QuorumMarks
        <3>2. Settled' = Settled
            BY <1>0, <2>1, <3>1 DEF Settled
        <3> QED
            BY <2>3, <3>1, <3>2 DEF Ledger!Punish
    <2> QED
        BY <2>4, <2>5
<1>3. CASE ~pool
    <2>1. slashed' = slashed /\ passed' = passed \cup {p}
        BY <1>3 DEF quorum, handle, Slash, PassedOver
    <2>2. Settled' = Settled
        BY <1>0, <2>1 DEF Settled
    <2>3. Books' = Books
        BY <1>1, <1>3 DEF Books
    <2> QED
        BY <2>1, <2>2, <2>3
<1> QED
    BY <1>2, <1>3

\* Every step of the outbounds is one of the ledger, or none.
LEMMA OutStepRefines ==
    ASSUME OutInv, [OutNext]_outVars
    PROVE  Ledger!Next \/ UNCHANGED <<sent, Settled, slashed, Books>>
<1>0. sent \subseteq Payment /\ slashed \subseteq Payment /\ passed \subseteq Payment
    BY DEF OutInv, OutTypeOK
<1>1. ASSUME NEW p \in Payment, Pay(p) PROVE Ledger!Next
    <2>1. Settled' = Settled
        BY <1>1, PayKeepsOutInv
    <2>2. Ledger!Pay(p)
        BY <1>1, <2>1 DEF Pay, Ledger!Pay
    <2> QED
        BY <2>2 DEF Ledger!Next
<1>2. ASSUME NEW v \in Faulty, Retire(v) \/ Freeze(v)
      PROVE  UNCHANGED <<sent, Settled, slashed, Books>>
    <2>1. v \in Vault
        BY OutAssumption
    <2>2. /\ \A w \in Vault : vaults'[w].funds = vaults[w].funds
          /\ UNCHANGED <<voters, sent, slashed, passed>>
        BY <1>2, <2>1, VaultStatusKeepsOutInv
    <2> QED
        BY <2>2 DEF Settled, Acted, Books
<1>3. ASSUME NEW n \in Node, NEW p \in sent, NEW final \in BOOLEAN, ObserveTxOut(n, p, final)
      PROVE  Ledger!Next \/ UNCHANGED <<sent, Settled, slashed, Books>>
    <2>0. p \in Payment
        BY <1>0
    <2>1. /\ \A q \in Payment : Acted(q)' \in BOOLEAN /\ (q # p => Acted(q)' = Acted(q))
          /\ Acted(p) => Acted(p)'
          /\ sent' = sent /\ pool' = pool
          /\ IF ~Acted(p) /\ Acted(p)' THEN quorum(p) \/ quorumFails(p)
             ELSE UNCHANGED <<txOut, outTxs, vaults, slashed, passed, faults>>
        BY <1>3, <2>0, ReportVoters DEF OutInv
    <2>2. CASE ~Acted(p) /\ Acted(p)' /\ quorum(p)
        BY <2>0, <2>1, <2>2, QuorumEnters DEF Ledger!Next
    <2>3. CASE ~Acted(p) /\ Acted(p)' /\ quorumFails(p)
        <3>1. UNCHANGED <<vaults, slashed>> /\ Settled' = Settled
            BY <2>0, <2>1, <2>3, FailsKeepsBooks
        <3> QED
            BY <2>1, <3>1 DEF Books
    <2>4. CASE ~(~Acted(p) /\ Acted(p)')
        <3>1. Acted(p) \in BOOLEAN
            BY <2>0 DEF OutInv, OutTypeOK, Voter, Acted
        <3>2. \A q \in Payment : Acted(q)' = Acted(q)
            BY <2>1, <2>4, <3>1
        <3>3. UNCHANGED <<vaults, slashed, passed>>
            BY <2>1, <2>4
        <3> QED
            BY <1>0, <2>1, <3>2, <3>3 DEF Settled, Books
    <2> QED
        BY <2>1, <2>2, <2>3, <2>4
<1>4. CASE (\E i \in todo : LackSigning(i)) \/ EndBlock
    <2>1. FinishBlock /\ UNCHANGED <<voters, sent, slashed, passed>>
        BY <1>4 DEF LackSigning, EndBlock
    <2>2. /\ Settled' = Settled
          /\ \/ \A v \in Vault : vaults'[v].funds = vaults[v].funds
             \/ \A v \in Vault : vaults'[v].funds = 0
        BY <2>1, FinishBooks
    <2>3. CASE \A v \in Vault : vaults'[v].funds = vaults[v].funds
        BY <2>1, <2>2, <2>3 DEF Books
    <2>4. CASE \A v \in Vault : vaults'[v].funds = 0
        <3>1. Ledger!WriteOff
            BY <2>1, <2>2, <2>4 DEF Ledger!WriteOff
        <3> QED
            BY <3>1 DEF Ledger!Next
    <2> QED
        BY <2>2, <2>3, <2>4
<1>5. CASE UNCHANGED outVars
    BY <1>5 DEF outVars, Settled, Acted, Books
<1> QED
    BY <1>1, <1>2, <1>3, <1>4, <1>5 DEF OutNext

-----------------------------------------------------------------------------
(* The theorems *)

\* The records of the outbounds, the vaults and the voters keep their types,
\* whatever payments, reports, churns and reschedules come.
THEOREM OutTypeCorrect == OutSpec => []OutTypeOK
<1>1. OutInv => OutTypeOK
    BY DEF OutInv
<1> QED
    BY <1>1, OutInvInvariant, PTL

\* The books: every payment that validators reached consensus on and that was
\* processed was debited once to the vault that made it, and while the asset has
\* its pool SubFunds never had to stop at zero.
THEOREM BooksMatchWallet == OutSpec => []FundsMatchWallet
<1>1. OutInv => FundsMatchWallet
    BY DEF OutInv
<1> QED
    BY <1>1, OutInvInvariant, PTL

\* However an action was rescheduled, over any number of periods, and whichever
\* vaults paid it, once or more often: the payments of it that were processed
\* while the asset had its pool were slashed, all but one.
THEOREM PaidOnceUnpunished == OutSpec => []OnePaymentUnpunished
BY SettledIsUnique, OutInvInvariant, PTL

\* No action is forgotten by LackSigning, over any number of periods: it is paid,
\* still awaited, given up for one of LackSigning's own reasons (too many
\* attempts, an inactive vault, no pool), or, because AddOutTx counts payments and
\* not actions, passed over after another action was paid twice, for which a vault
\* was slashed or which the chain did not process.
THEOREM ActionsAreKept == OutSpec => []NoneForgotten
<1>1. KeptInv => NoneForgotten
    BY DEF KeptInv, ActionsKept, Paid, Awaited, CountedDone, NoneForgotten
<1> QED
    BY <1>1, KeptInvInvariant, PTL

\* With any vaults, validators, periods and orders of reports, every behaviour of
\* the outbounds is one of the ledger: a payment is entered once at most, when its
\* first consensus is reached (handler_observed_tx_helpers.go:370, 407), from funds
\* that are there, and is either the one that settles its action or punished.
THEOREM OutImplementsLedger == OutSpec => OutRefines
<1>1. OutInit => Ledger!Init
    <2> SUFFICES ASSUME OutInit PROVE Ledger!Init
        OBVIOUS
    <2>1. sent = {} /\ slashed = {} /\ Settled = {}
        BY DEF OutInit, Settled
    <2>2. Books = [v \in Vault |-> Funds]
        BY DEF OutInit, Books
    <2> QED
        BY <2>1, <2>2 DEF Ledger!Init, Books
<1>2. OutInv /\ [OutNext]_outVars => [Ledger!Next]_(Ledger!ledgerVars)
    BY OutStepRefines DEF Ledger!ledgerVars, Books
<1> QED
    BY <1>1, <1>2, OutInvInvariant, PTL DEF OutSpec, OutRefines, Ledger!Spec
=============================================================================
