------------------------- MODULE ObservedTxInProofs -------------------------
(***************************************************************************)
(* For any validators, vaults, observations and bounds: the types of       *)
(* ObservedTxIn; that a tx is acted on at most once, and for good once it  *)
(* is final or reverted; that finality takes a super majority; that an     *)
(* errata takes back what was credited, if the reports agree on it; and,   *)
(* while nobody churns, that the chain acts on what two thirds attested    *)
(* and gives back no slash points that it did not charge.                  *)
(***************************************************************************)
EXTENDS ObservedTxIn, FiniteSetTheorems, WellFoundedInduction, TLAPS

-----------------------------------------------------------------------------
(* The voter's operations                                                  *)

(* Add keeps the voter well formed and touches nothing but Txs.            *)
LEMMA AddType ==
    ASSUME NEW v \in Voter, NEW o \in Observation, NEW n \in Node
    PROVE  /\ Add(v, o, n) \in Voter
           /\ Add(v, o, n) = [v EXCEPT !.Txs = Add(v, o, n).Txs]
<1> DEFINE i == VotedIdx(v, o)
<1>1. CASE i # 0
    <2>1. i \in DOMAIN v.Txs
        BY <1>1 DEF VotedIdx
    <2>2. v.Txs \in Seq(ObservedTx)
        BY DEF Voter
    <2>3. v.Txs[i] \in ObservedTx
        BY <2>1, <2>2
    <2>4. [v.Txs[i] EXCEPT !.signers = @ \cup {n}] \in ObservedTx
        BY <2>3 DEF ObservedTx
    <2> DEFINE t == [v.Txs EXCEPT ![i] = [v.Txs[i] EXCEPT !.signers = @ \cup {n}]]
    <2>5. t \in Seq(ObservedTx)
        BY <2>1, <2>2, <2>4
    <2>6. Add(v, o, n) = [v EXCEPT !.Txs = t]
        BY <1>1 DEF Add
    <2> HIDE DEF t
    <2> QED
        BY <2>5, <2>6 DEF Voter
<1>2. CASE i = 0
    <2>1. Add(v, o, n) = [v EXCEPT !.Txs = Append(@, [obs |-> o,
                             signers |-> {n}, status |-> "incomplete"])]
        BY <1>2 DEF Add
    <2>2. [obs |-> o, signers |-> {n}, status |-> "incomplete"] \in ObservedTx
        BY DEF ObservedTx, Status
    <2> DEFINE t == Append(v.Txs, [obs |-> o, signers |-> {n},
                                   status |-> "incomplete"])
    <2>3. t \in Seq(ObservedTx)
        BY <2>2 DEF Voter
    <2>4. Add(v, o, n) = [v EXCEPT !.Txs = t]
        BY <2>1
    <2> HIDE DEF t
    <2> QED
        BY <2>3, <2>4 DEF Voter
<1> QED
    BY <1>1, <1>2

(* What getConsensusTx returns is an entry of Txs of the finality asked.   *)
LEMMA ConsensusTxType ==
    ASSUME NEW v \in Voter, NEW nas, NEW f \in BOOLEAN,
           getConsensusTx(v, nas, f) # NoTx
    PROVE  \E i \in DOMAIN v.Txs :
               /\ getConsensusTx(v, nas, f) = v.Txs[i]
               /\ v.Txs[i] \in ObservedTx
               /\ HasClassMajority(v, nas, f, i)
               /\ IsFinal(getConsensusTx(v, nas, f).obs) = f
<1> DEFINE good  == {i \in DOMAIN v.Txs : HasClassMajority(v, nas, f, i)}
           first == {i \in good : \A j \in good : i <= j}
           k == CHOOSE i \in first : TRUE
<1>1. first # {} /\ getConsensusTx(v, nas, f) = v.Txs[k]
    BY DEF getConsensusTx
<1>2. k \in first
    BY <1>1
<1>3. k \in DOMAIN v.Txs /\ HasClassMajority(v, nas, f, k)
    BY <1>2
<1>4. v.Txs[k] \in ObservedTx
    BY <1>3 DEF Voter
<1>5. IsFinal(v.Txs[k].obs) = f
    BY <1>3 DEF HasClassMajority
<1> QED
    BY <1>1, <1>3, <1>4, <1>5

(* getConsensusTx looks at Txs only.                                       *)
LEMMA ConsensusTxOfTxs ==
    ASSUME NEW v, NEW w, NEW nas, NEW f \in BOOLEAN, w.Txs = v.Txs
    PROVE  getConsensusTx(w, nas, f) = getConsensusTx(v, nas, f)
BY DEF getConsensusTx, HasClassMajority, ClassSigners

(* GetTx returns nothing or an ObservedTx, final or not as it was agreed.  *)
LEMMA GetTxType ==
    ASSUME NEW v \in Voter, NEW nas
    PROVE  GetTx(v, nas) \in ObservedTx \cup {NoTx}
<1>1. v.Tx \in ObservedTx \cup {NoTx}
    BY DEF Voter
<1>2. /\ getConsensusTx(v, nas, TRUE) \in ObservedTx \cup {NoTx}
      /\ getConsensusTx(v, nas, FALSE) \in ObservedTx \cup {NoTx}
    BY ConsensusTxType
<1> QED
    BY <1>1, <1>2 DEF GetTx

(* If there is no final tx, agreeing on GetTx does not make one.           *)
LEMMA NotFinalAfterDiscovery ==
    ASSUME NEW v \in Voter, NEW w \in Voter, NEW nas,
           ~HasFinalised(v, nas),
           w.Txs = v.Txs,
           \/ w.Tx = v.Tx
           \/ w.Tx = GetTx(v, nas)
           \/ v.Tx # NoTx /\ w.Tx # NoTx /\ w.Tx.obs = v.Tx.obs
    PROVE  ~HasFinalised(w, nas)
<1> DEFINE F == getConsensusTx(v, nas, TRUE)
           D == getConsensusTx(v, nas, FALSE)
<1>1. getConsensusTx(w, nas, TRUE) = F /\ getConsensusTx(w, nas, FALSE) = D
    BY ConsensusTxOfTxs
<1>2. F # NoTx => IsFinal(F.obs)
    BY ConsensusTxType
<1>3. D # NoTx => ~IsFinal(D.obs)
    BY ConsensusTxType
<1> HIDE DEF F, D
<1> QED
    BY <1>1, <1>2, <1>3 DEF HasFinalised, GetTx, F, D

(* A super majority, as types.go computes it, is two thirds or more.       *)
LEMMA SuperMajorityIsTwoThirds ==
    ASSUME NEW s \in Nat, NEW t \in Nat, HasSuperMajority(s, t)
    PROVE  3 * s >= 2 * t
<1> DEFINE q == (t * 2) \div 3
           m == (t * 2) % 3
<1>1. q \in Nat /\ m \in 0..2 /\ t * 2 = 3 * q + m
    OBVIOUS
<1>2. s >= q + IF m > 0 THEN 1 ELSE 0
    BY DEF HasSuperMajority, CeilDiv
<1> HIDE DEF q, m
<1> QED
    BY <1>1, <1>2

(* A voter that has agreed on something holds the tx it agreed on.         *)
VoterInv(v) ==
    /\ v.Height # 0 => v.Tx # NoTx
    /\ v.FinalisedHeight # 0 => v.Tx # NoTx /\ IsFinal(v.Tx.obs)

-----------------------------------------------------------------------------
(* Slash points stay natural numbers.                                      *)

(* Charging and giving back slash points leaves natural numbers.           *)
LEMMA SlashType ==
    ASSUME NEW s \in [Node -> Nat], NEW p \in Nat, NEW S
    PROVE  /\ IncSlashPoints(s, p, S) \in [Node -> Nat]
           /\ DecSlashPoints(s, p, S) \in [Node -> Nat]
BY DEF IncSlashPoints, DecSlashPoints, SafeSub

(* So does settling a vote that came to consensus.                         *)
LEMMA SettleSlashType ==
    ASSUME NEW s \in [Node -> Nat], NEW nas, NEW S
    PROVE  SettleSlash(s, nas, S) \in [Node -> Nat]
<1>1. ObservePoints \in Nat /\ LackPenalty \in Nat
    BY InAssumption
<1>2. DecSlashPoints(s, ObservePoints, S) \in [Node -> Nat]
    BY <1>1, SlashType
<1> QED
    BY <1>1, <1>2, SlashType DEF SettleSlash

-----------------------------------------------------------------------------
(* processTxInAttestation                                                  *)

(* What one attestation may do to a voter.                                 *)
AttestationFacts(v, r, nas) ==
    /\ r.voter \in Voter /\ VoterInv(r.voter)
    /\ r.slash \in [Node -> Nat]
    /\ r.ok \in BOOLEAN
    /\ r.voter.UpdatedVault = v.UpdatedVault
    /\ r.voter.Reverted = v.Reverted
    /\ v.Tx # NoTx => r.voter.Tx # NoTx
    /\ r.ok => /\ v.FinalisedHeight = 0
               /\ r.voter.Tx # NoTx
    /\ v.FinalisedHeight # 0 => /\ r.voter.FinalisedHeight = v.FinalisedHeight
                                /\ r.voter.Height = v.Height

(* What processTxInAttestation does once the vote is added: a final tx is  *)
(* settled once, and only while FinalisedHeight is 0.                      *)
LEMMA TallyFacts ==
    ASSUME NEW v \in Voter, VoterInv(v), now \in Nat \ {0},
           NEW s \in [Node -> Nat], NEW nas,
           NEW o \in Observation, NEW n \in Node
    PROVE  /\ AttestationFacts(v, TallyIn(v, s, nas, o, n), nas)
           /\ HasFinalised(TallyIn(v, s, nas, o, n).voter, nas)
                  => TallyIn(v, s, nas, o, n).voter.FinalisedHeight # 0
<1> DEFINE r == TallyIn(v, s, nas, o, n)
           g == GetTx(v, nas)
           same == [voter |-> v, slash |-> s, ok |-> FALSE]
           late == AcceptLate(v, s, n)
           fin  == [v EXCEPT !.Height = now, !.FinalisedHeight = now, !.Tx = g]
           disc == [v EXCEPT !.Height = now, !.Tx = g]
<1>0. g \in ObservedTx \cup {NoTx}
    BY GetTxType
<1>1. CASE HasFinalised(v, nas) /\ v.FinalisedHeight = 0
    <2>1. r = Settle(fin, s, nas)
        BY <1>1 DEF TallyIn
    <2>2. g \in ObservedTx /\ g # NoTx /\ IsFinal(g.obs)
        BY <1>0, <1>1 DEF HasFinalised
    <2>3. fin \in Voter
        BY <2>2 DEF Voter
    <2>4. r.voter = fin /\ r.ok = TRUE /\ r.slash \in [Node -> Nat]
        BY <2>1, SettleSlashType DEF Settle
    <2>5. /\ fin.Tx = g /\ fin.Height = now /\ fin.FinalisedHeight = now
          /\ fin.UpdatedVault = v.UpdatedVault /\ fin.Reverted = v.Reverted
        BY DEF Voter
    <2> HIDE DEF fin, g, r
    <2> QED
        BY <1>1, <2>2, <2>3, <2>4, <2>5 DEF AttestationFacts, VoterInv, r
<1>2. CASE r = same /\ (HasFinalised(v, nas) => v.FinalisedHeight # 0)
    BY <1>2 DEF AttestationFacts
<1>3. CASE /\ r = late /\ v.Tx # NoTx
           /\ (HasFinalised(v, nas) => v.FinalisedHeight # 0)
    <2> DEFINE w == [v EXCEPT !.Tx.signers = @ \cup {n}]
    <2>1. v.Tx \in ObservedTx
        BY <1>3 DEF Voter
    <2>2. [v.Tx EXCEPT !.signers = @ \cup {n}] \in ObservedTx
        BY <2>1 DEF ObservedTx
    <2>3. w \in Voter
        BY <2>2 DEF Voter
    <2>4. /\ w.Tx = [v.Tx EXCEPT !.signers = @ \cup {n}]
          /\ w.Txs = v.Txs /\ w.Height = v.Height
          /\ w.FinalisedHeight = v.FinalisedHeight
          /\ w.UpdatedVault = v.UpdatedVault /\ w.Reverted = v.Reverted
        BY DEF Voter
    <2>5. w.Tx.obs = v.Tx.obs /\ w.Tx # NoTx
        BY <2>1, <2>2, <2>4, InAssumption DEF ObservedTx
    <2>6. DecSlashPoints(s, ObservePoints + LackPenalty, {n}) \in [Node -> Nat]
        BY SlashType, InAssumption
    <2>7. r.voter = w /\ r.ok = FALSE /\ r.slash \in [Node -> Nat]
        BY <1>3, <2>6 DEF AcceptLate
    <2>8. ~HasFinalised(v, nas) => ~HasFinalised(w, nas)
        BY <1>3, <2>3, <2>4, <2>5, NotFinalAfterDiscovery
    <2> HIDE DEF w, r
    <2> QED
        BY <1>3, <2>3, <2>4, <2>5, <2>7, <2>8 DEF AttestationFacts, VoterInv, r
<1>4. CASE /\ r = Settle(disc, s, nas) /\ ~HasFinalised(v, nas)
           /\ HasConsensus(v, nas) /\ v.FinalisedHeight = 0
    <2>2. g \in ObservedTx /\ g # NoTx
        BY <1>0, <1>4 DEF HasConsensus
    <2>3. disc \in Voter
        BY <2>2 DEF Voter
    <2>4. r.voter = disc /\ r.ok = TRUE /\ r.slash \in [Node -> Nat]
        BY <1>4, SettleSlashType DEF Settle
    <2>5. /\ disc.Tx = g /\ disc.Height = now
          /\ disc.FinalisedHeight = v.FinalisedHeight /\ disc.Txs = v.Txs
          /\ disc.UpdatedVault = v.UpdatedVault /\ disc.Reverted = v.Reverted
        BY DEF Voter
    <2>6. ~HasFinalised(disc, nas)
        BY <1>4, <2>3, <2>5, NotFinalAfterDiscovery
    <2> HIDE DEF disc, r
    <2> QED
        BY <1>4, <2>2, <2>3, <2>4, <2>5, <2>6
        DEF AttestationFacts, VoterInv, r
<1>5. \/ HasFinalised(v, nas) /\ v.FinalisedHeight = 0
      \/ r = same /\ (HasFinalised(v, nas) => v.FinalisedHeight # 0)
      \/ /\ r = late /\ v.Tx # NoTx
         /\ (HasFinalised(v, nas) => v.FinalisedHeight # 0)
      \/ /\ r = Settle(disc, s, nas) /\ ~HasFinalised(v, nas)
         /\ HasConsensus(v, nas) /\ v.FinalisedHeight = 0
    BY DEF TallyIn, VoterInv
<1> QED
    BY <1>1, <1>2, <1>3, <1>4, <1>5

(* The attestation of a node, a duplicate included.                        *)
LEMMA AttestationLemma ==
    ASSUME NEW v \in Voter, VoterInv(v), now \in Nat \ {0},
           slash \in [Node -> Nat], NEW nas,
           NEW o \in Observation, NEW n \in Node, NEW d \in BOOLEAN,
           NEW r, r = processTxInAttestation(v, nas, o, n, d)
    PROVE  /\ AttestationFacts(v, r, nas)
           /\ \/ r.voter = v /\ r.ok = FALSE
              \/ HasFinalised(r.voter, nas) => r.voter.FinalisedHeight # 0
<1> DEFINE charged == IncSlashPoints(slash, ObservePoints, {n})
<1>1. charged \in [Node -> Nat]
    BY SlashType, InAssumption
<1>2. CASE AlreadySigned(v, o, n)
    <2>1. DecSlashPoints(charged, ObservePoints, {n}) \in [Node -> Nat]
        BY <1>1, SlashType, InAssumption
    <2> HIDE DEF charged
    <2>2. r.voter = v /\ r.ok = FALSE /\ r.slash \in [Node -> Nat]
        BY <1>1, <1>2, <2>1 DEF processTxInAttestation, charged
    <2> QED
        BY <2>2 DEF AttestationFacts
<1>3. CASE ~AlreadySigned(v, o, n)
    <2> DEFINE w == Add(v, o, n)
    <2>1. r = TallyIn(w, charged, nas, o, n)
        BY <1>3 DEF processTxInAttestation
    <2>2. w \in Voter /\ w = [v EXCEPT !.Txs = w.Txs]
        BY AddType
    <2> HIDE DEF w, charged
    <2>3. /\ w.Tx = v.Tx /\ w.Height = v.Height
          /\ w.FinalisedHeight = v.FinalisedHeight
          /\ w.UpdatedVault = v.UpdatedVault /\ w.Reverted = v.Reverted
        BY <2>2 DEF Voter
    <2>4. VoterInv(w)
        BY <2>3 DEF VoterInv
    <2>5. /\ AttestationFacts(w, r, nas)
          /\ HasFinalised(r.voter, nas) => r.voter.FinalisedHeight # 0
        BY <1>1, <2>1, <2>2, <2>4, TallyFacts
    <2> QED
        BY <2>3, <2>5 DEF AttestationFacts
<1> QED
    BY <1>2, <1>3

-----------------------------------------------------------------------------
(* handleObservedTxInQuorum                                                *)

(* The voter saved on crossing consensus differs from v in the memo of its *)
(* tx, its status and UpdatedVault only.                                   *)
LEMMA CrossedVoterType ==
    ASSUME NEW v \in Voter, VoterInv(v), v.Tx # NoTx, NEW o \in Observation,
           NEW w, w = CrossedVoter(v, o)
    PROVE  /\ w \in Voter /\ VoterInv(w)
           /\ w.Tx \in ObservedTx /\ w.Tx # NoTx
           /\ w.Txs = v.Txs /\ w.Height = v.Height
           /\ w.FinalisedHeight = v.FinalisedHeight
           /\ w.Reverted = v.Reverted
           /\ w.UpdatedVault = (v.UpdatedVault \/ CreditDue(v, o))
<1> DEFINE t == [v.Tx EXCEPT !.obs.body.memo = o.body.memo]
           u == v.UpdatedVault \/ CreditDue(v, o)
<1>1. v.Tx \in ObservedTx
    BY DEF Voter
<1>2. v.Tx.obs.body \in Body /\ o.body.memo \in Memo
    BY <1>1 DEF ObservedTx, Observation, Body
<1>3. [v.Tx.obs.body EXCEPT !.memo = o.body.memo] \in Body
    BY <1>2 DEF Body
<1>4. [v.Tx.obs EXCEPT !.body.memo = o.body.memo] \in Observation
    BY <1>1, <1>3 DEF ObservedTx, Observation
<1>5. t \in ObservedTx
    BY <1>1, <1>4 DEF ObservedTx
<1>6. IsFinal(t.obs) = IsFinal(v.Tx.obs)
    BY <1>1 DEF IsFinal, ObservedTx, Observation
<1>7. w = [[v EXCEPT !.Tx = t] EXCEPT !.UpdatedVault = u]
    BY DEF CrossedVoter
<1>8. u \in BOOLEAN
    BY DEF CreditDue, Voter
<1> HIDE DEF t, u
<1>9. /\ w \in Voter
      /\ w.Tx = t /\ w.UpdatedVault = u
      /\ w.Txs = v.Txs /\ w.Height = v.Height
      /\ w.FinalisedHeight = v.FinalisedHeight /\ w.Reverted = v.Reverted
    BY <1>5, <1>7, <1>8 DEF Voter
<1> QED
    BY <1>5, <1>6, <1>9, InAssumption DEF VoterInv, u

(* SetDone and SetReverted keep the voter well formed.                     *)
LEMMA SetStatusType ==
    ASSUME NEW w \in Voter, VoterInv(w), NEW s \in Status, NEW x,
           x = setStatus(w, s)
    PROVE  /\ x \in Voter /\ VoterInv(x)
           /\ x.Height = w.Height /\ x.FinalisedHeight = w.FinalisedHeight
           /\ x.UpdatedVault = w.UpdatedVault /\ x.Reverted = w.Reverted
           /\ x.Txs = w.Txs
<1>1. CASE w.Tx = NoTx
    BY <1>1 DEF setStatus
<1>2. CASE w.Tx # NoTx
    <2> DEFINE t == [w.Tx EXCEPT !.status = s]
    <2>1. w.Tx \in ObservedTx
        BY <1>2 DEF Voter
    <2>2. t \in ObservedTx /\ t.obs = w.Tx.obs
        BY <2>1 DEF ObservedTx
    <2>3. x = [w EXCEPT !.Tx = t]
        BY <1>2 DEF setStatus
    <2> HIDE DEF t
    <2>4. /\ x \in Voter
          /\ x.Tx = t
          /\ x.Height = w.Height /\ x.FinalisedHeight = w.FinalisedHeight
          /\ x.UpdatedVault = w.UpdatedVault /\ x.Reverted = w.Reverted
          /\ x.Txs = w.Txs
        BY <2>2, <2>3 DEF Voter
    <2> QED
        BY <1>2, <2>2, <2>4, InAssumption DEF VoterInv
<1> QED
    BY <1>1, <1>2

(* What is carried out for the tx is a well-formed effect.                 *)
LEMMA OutcomeType ==
    ASSUME NEW w \in Voter, w.Tx \in ObservedTx, NEW o \in Observation,
           NEW a \in Answers
    PROVE  Outcome(w, o, a) \in Effect
<1>1. w.Tx.obs.body \in Body /\ o.body \in Body
    BY DEF ObservedTx, Observation
<1> QED
    BY <1>1 DEF Outcome, Effect

(* A history entry stands for a mark in the state that keeps it from being *)
(* written again.                                                          *)
MarkInv(v) ==
    /\ Len(effects) <= 1 /\ (effects # << >> => v.FinalisedHeight # 0)
    /\ Len(credits) <= 1 /\ (credits # << >> => v.UpdatedVault)

(* What holds of the voter when handleObservedTxInQuorum is called.        *)
HandlePre(v, crossed) ==
    /\ v \in Voter /\ VoterInv(v) /\ MarkInv(v)
    /\ crossed => /\ v.Tx # NoTx
                  /\ effects = << >>
                  /\ HasFinalised(v, active) => v.FinalisedHeight # 0

(* handleObservedTxInQuorum acts and credits at most once per voter.       *)
LEMMA HandleLemma ==
    ASSUME TypeOK, NEW v, NEW o \in Observation, NEW S \in SUBSET Node,
           NEW c \in BOOLEAN, NEW a \in Answers,
           HandlePre(v, c),
           handleObservedTxInQuorum(v, o, S, c, a)
    PROVE  /\ voter' \in Voter /\ VoterInv(voter') /\ MarkInv(voter)'
           /\ funds' \in [Vault -> Nat]
           /\ credits' \in Seq(Vault \X Amount)
           /\ effects' \in Seq(Effect)
           /\ lastChain' \in Nat
           /\ observing' \in SUBSET Node
<1>1. CASE UNCHANGED <<funds, credits, effects, lastChain>> /\ voter' = v
              /\ observing' \in SUBSET Node
    BY <1>1 DEF HandlePre, MarkInv, TypeOK
<1>2. CASE ~c
    <2>1. observing' \in SUBSET Node
        BY <1>2 DEF handleObservedTxInQuorum, TypeOK
    <2> QED
        BY <1>1, <1>2, <2>1 DEF handleObservedTxInQuorum
<1>3. CASE c /\ SkipReverted(v)
    BY <1>1, <1>3 DEF handleObservedTxInQuorum, TypeOK
<1>4. CASE c /\ ~SkipReverted(v)
    <2> DEFINE w == CrossedVoter(v, o)
               out == Outcome(w, o, a)
    <2>1. /\ v \in Voter /\ VoterInv(v) /\ v.Tx # NoTx /\ effects = << >>
          /\ HasFinalised(v, active) => v.FinalisedHeight # 0
          /\ Len(credits) <= 1 /\ (credits # << >> => v.UpdatedVault)
        BY <1>4 DEF HandlePre, MarkInv
    <2>2. /\ w \in Voter /\ VoterInv(w)
          /\ w.Tx \in ObservedTx /\ w.Tx # NoTx
          /\ w.FinalisedHeight = v.FinalisedHeight
          /\ w.UpdatedVault = (v.UpdatedVault \/ CreditDue(v, o))
        BY <2>1, CrossedVoterType
    <2>3. out \in Effect
        BY <2>2, OutcomeType
    <2>4. /\ SetDone(w) \in Voter /\ VoterInv(SetDone(w))
          /\ SetDone(w).FinalisedHeight = w.FinalisedHeight
          /\ SetDone(w).UpdatedVault = w.UpdatedVault
        BY <2>2, SetStatusType DEF SetDone, Status
    <2>5. /\ AddFunds(v, o)
          /\ lastChain' = IF lastChain > o.bh THEN lastChain ELSE o.bh
          /\ \/ observing' = observing \cup v.Tx.signers
             \/ observing' = observing
          /\ \/ Actionable(v, o) /\ effects' = Append(effects, out)
             \/ effects' = effects
          /\ voter' \in {w, SetDone(w)}
        BY <1>4 DEF handleObservedTxInQuorum
    <2> HIDE DEF w, out
    <2>6. lastChain' \in Nat /\ observing' \in SUBSET Node
        BY <2>1, <2>5 DEF TypeOK, Voter, ObservedTx, Observation
    <2>7. /\ effects' \in Seq(Effect) /\ Len(effects') <= 1
          /\ effects' # << >> => v.FinalisedHeight # 0
        <3>1. Actionable(v, o) => v.FinalisedHeight # 0
            BY <2>1 DEF Actionable
        <3>2. effects \in Seq(Effect) /\ effects = << >> /\ Len(effects) = 0
            BY <2>1 DEF TypeOK
        <3>3. CASE Actionable(v, o) /\ effects' = Append(effects, out)
            <4>1. effects' \in Seq(Effect) /\ Len(effects') = 1
                BY <2>3, <3>2, <3>3
            <4> QED
                BY <3>1, <3>3, <4>1
        <3>4. CASE effects' = effects
            BY <3>2, <3>4
        <3> QED
            BY <2>5, <3>3, <3>4
    <2>8. /\ funds' \in [Vault -> Nat] /\ credits' \in Seq(Vault \X Amount)
          /\ Len(credits') <= 1
          /\ credits' # << >> => v.UpdatedVault \/ CreditDue(v, o)
        <3>1. o.pubkey \in Vault /\ o.body.coins \in Amount
            BY DEF Observation, Body
        <3>2. o.body.coins \in Nat
            BY <3>1, InAssumption
        <3>3. CASE CreditDue(v, o) /\ ~FromEqualsTo(o.body.memo)
            <4>1. credits = << >>
                BY <3>3, <2>1 DEF CreditDue
            <4>2. /\ funds' = [funds EXCEPT ![o.pubkey] = @ + o.body.coins]
                  /\ credits' = Append(credits, <<o.pubkey, o.body.coins>>)
                BY <2>5, <3>3 DEF AddFunds
            <4>3. funds' \in [Vault -> Nat]
                BY <4>2, <3>1, <3>2 DEF TypeOK
            <4>4. credits' \in Seq(Vault \X Amount) /\ Len(credits') <= 1
                BY <4>1, <4>2, <3>1 DEF TypeOK
            <4> QED
                BY <3>3, <4>3, <4>4
        <3>4. CASE ~(CreditDue(v, o) /\ ~FromEqualsTo(o.body.memo))
            BY <3>4, <2>1, <2>5 DEF AddFunds, TypeOK
        <3> QED
            BY <3>3, <3>4
    <2>9. /\ voter' \in Voter /\ VoterInv(voter')
          /\ voter'.FinalisedHeight = v.FinalisedHeight
          /\ voter'.UpdatedVault = (v.UpdatedVault \/ CreditDue(v, o))
        BY <2>2, <2>4, <2>5
    <2> QED
        BY <2>6, <2>7, <2>8, <2>9 DEF MarkInv
<1> QED
    BY <1>2, <1>3, <1>4

-----------------------------------------------------------------------------
(* The inductive invariant                                                 *)

(* While a quorum message that crossed consensus is being handled, nothing *)
(* was carried out yet, and what is final has been marked so.              *)
CrossedInv ==
    msg # NoMsg /\ msg.crossed =>
        /\ voter.Tx # NoTx
        /\ effects = << >>
        /\ HasFinalised(voter, active) => voter.FinalisedHeight # 0

IInv ==
    /\ TypeOK
    /\ now # 0
    /\ VoterInv(voter)
    /\ MarkInv(voter)
    /\ adjusted <= 1 /\ (adjusted # 0 => errata.height # 0)
    /\ CrossedInv

(* The invariant holds before the first attestation.                       *)
LEMMA InitIInv == Init => IInv
<1> SUFFICES ASSUME Init PROVE IInv
    OBVIOUS
<1>1. NewVoter \in Voter /\ VoterInv(NewVoter)
    BY DEF NewVoter, Voter, VoterInv
<1>2. active # {} /\ active \in SUBSET Node
    <2>1. Cardinality(active) >= MinActive /\ MinActive > 0 /\ MinActive \in Nat
        BY InAssumption DEF Init
    <2>2. active = {} => Cardinality(active) = 0
        BY FS_EmptySet
    <2> QED
        BY <2>1, <2>2 DEF Init
<1>3. TypeOK
    BY <1>1, <1>2, InAssumption DEF Init, NewErrataTxVoter, TypeOK
<1>4. MarkInv(voter) /\ CrossedInv
    BY DEF Init, NewErrataTxVoter, MarkInv, CrossedInv
<1> QED
    BY <1>1, <1>3, <1>4 DEF Init, IInv

(* Steps that leave the voter and its history alone.                       *)
LEMMA QuietStep ==
    ASSUME IInv, TypeOK', now' # 0,
           UNCHANGED <<voter, effects, credits, adjusted, errata>>,
           msg' = NoMsg \/ ~msg'.crossed
    PROVE  IInv'
<1>1. VoterInv(voter') /\ MarkInv(voter)' /\ CrossedInv'
    BY DEF IInv, MarkInv, CrossedInv
<1> QED
    BY <1>1 DEF IInv

(* A lone MsgObservedTxIn preserves the invariant.                         *)
LEMMA InMsgStep ==
    ASSUME IInv, NEW n \in Node, NEW o \in reports, NEW a \in Answers,
           ObservedTxInMsg(n, o, a)
    PROVE  IInv'
<1> DEFINE r == processTxInAttestation(voter, active, o, n, TRUE)
           S == IF r.voter.Tx = NoTx THEN {} ELSE r.voter.Tx.signers
<1>1. o \in Observation
    BY InAssumption DEF IInv, TypeOK
<1>2. /\ AttestationFacts(voter, r, active)
      /\ \/ r.voter = voter /\ r.ok = FALSE
         \/ HasFinalised(r.voter, active) => r.voter.FinalisedHeight # 0
    BY <1>1, AttestationLemma DEF IInv, TypeOK
<1>3. /\ slash' = r.slash
      /\ handleObservedTxInQuorum(r.voter, o, S, r.ok, a)
      /\ SeeHeight(o, n) /\ sent' = sent + 1
      /\ UNCHANGED <<chainVars, errata, msg, adjusted>> /\ msg = NoMsg
    BY DEF ObservedTxInMsg, CanSend
<1> HIDE DEF r
<1>4. S \in SUBSET Node
    BY <1>2 DEF AttestationFacts, Voter, ObservedTx
<1>5. HandlePre(r.voter, r.ok)
    <2>1. r.voter \in Voter /\ VoterInv(r.voter)
        BY <1>2 DEF AttestationFacts
    <2>2. MarkInv(r.voter)
        BY <1>2 DEF AttestationFacts, MarkInv, IInv
    <2>3. r.ok => voter.FinalisedHeight = 0 /\ r.voter.Tx # NoTx
        BY <1>2 DEF AttestationFacts
    <2>4. r.ok => effects = << >>
        BY <2>3 DEF IInv, MarkInv
    <2>5. r.ok /\ HasFinalised(r.voter, active) => r.voter.FinalisedHeight # 0
        BY <1>2
    <2> QED
        BY <2>1, <2>2, <2>3, <2>4, <2>5 DEF HandlePre
<1> HIDE DEF S
<1>6. r.ok \in BOOLEAN /\ r.slash \in [Node -> Nat]
    BY <1>2 DEF AttestationFacts
<1>7. /\ voter' \in Voter /\ VoterInv(voter') /\ MarkInv(voter)'
      /\ funds' \in [Vault -> Nat]
      /\ credits' \in Seq(Vault \X Amount)
      /\ effects' \in Seq(Effect)
      /\ lastChain' \in Nat
      /\ observing' \in SUBSET Node
    BY <1>1, <1>3, <1>4, <1>5, <1>6, HandleLemma DEF IInv
<1>8. lastObserve' \in [Node -> Nat]
    BY <1>1, <1>3 DEF SeeHeight, IInv, TypeOK, Observation
<1>9. /\ slash' \in [Node -> Nat] /\ sent' \in Nat
      /\ UNCHANGED <<reports, active, now, inactive, churns, errata, msg,
                     adjusted>>
      /\ msg = NoMsg
    BY <1>3, <1>6 DEF TypeOK, IInv, chainVars
<1>10. TypeOK'
    BY <1>7, <1>8, <1>9 DEF TypeOK, IInv
<1> QED
    BY <1>7, <1>9, <1>10 DEF IInv, CrossedInv

(* One turn of the loop over a quorum message preserves the invariant.     *)
LEMMA QuorumAttestStep ==
    ASSUME IInv, NEW n \in Node, QuorumAttest(n)
    PROVE  IInv'
<1> USE DEF IInv
<1>1. msg \in QuorumMsg /\ msg # NoMsg
    BY DEF QuorumAttest, TypeOK
<1>2. CASE n \notin active
    <2>1. /\ msg' = [msg EXCEPT !.left = @ \ {n}]
          /\ UNCHANGED <<voter, slash, lastObserve>>
          /\ UNCHANGED <<chainVars, funds, errata, lastChain, observing,
                         effects, credits, adjusted, sent>>
        BY <1>2 DEF QuorumAttest
    <2>2. msg' \in QuorumMsg /\ msg'.crossed = msg.crossed
        BY <1>1, <2>1 DEF QuorumMsg
    <2>3. TypeOK'
        BY <2>1, <2>2 DEF TypeOK, chainVars
    <2>4. HasFinalised(voter, active)' = HasFinalised(voter, active)
        BY <2>1 DEF chainVars
    <2>5. CrossedInv'
        BY <1>1, <2>1, <2>2, <2>4 DEF CrossedInv
    <2> QED
        BY <2>1, <2>3, <2>5 DEF MarkInv, chainVars
<1>3. CASE n \in active
    <2> DEFINE r == processTxInAttestation(voter, active, msg.tx, n, FALSE)
    <2>1. /\ voter' = r.voter /\ slash' = r.slash
          /\ msg' = [msg EXCEPT !.left = @ \ {n}, !.seen = @ \cup {n},
                                !.crossed = @ \/ r.ok]
          /\ SeeHeight(msg.tx, n)
          /\ UNCHANGED <<chainVars, funds, errata, lastChain, observing,
                         effects, credits, adjusted, sent>>
        BY <1>3 DEF QuorumAttest
    <2>2. msg.tx \in Observation
        BY <1>1 DEF QuorumMsg
    <2>3. /\ AttestationFacts(voter, r, active)
          /\ \/ r.voter = voter /\ r.ok = FALSE
             \/ HasFinalised(r.voter, active) => r.voter.FinalisedHeight # 0
        BY <2>2, AttestationLemma DEF TypeOK
    <2> HIDE DEF r
    <2>4. /\ r.voter \in Voter /\ VoterInv(r.voter)
          /\ r.slash \in [Node -> Nat] /\ r.ok \in BOOLEAN
          /\ r.voter.UpdatedVault = voter.UpdatedVault
          /\ r.ok => voter.FinalisedHeight = 0 /\ r.voter.Tx # NoTx
          /\ voter.FinalisedHeight # 0 => r.voter.FinalisedHeight # 0
          /\ voter.Tx # NoTx => r.voter.Tx # NoTx
        BY <2>3 DEF AttestationFacts
    <2>5. msg' \in QuorumMsg /\ msg'.crossed = (msg.crossed \/ r.ok)
        BY <1>1, <2>1, <2>4 DEF QuorumMsg
    <2>6. lastObserve' \in [Node -> Nat]
        BY <2>1, <2>2 DEF SeeHeight, TypeOK, Observation
    <2>7. TypeOK'
        BY <2>1, <2>4, <2>5, <2>6 DEF TypeOK, chainVars
    <2>8. MarkInv(voter)'
        BY <2>1, <2>4 DEF MarkInv
    <2>9. CrossedInv'
        <3>1. SUFFICES ASSUME msg'.crossed
                       PROVE  /\ r.voter.Tx # NoTx /\ effects = << >>
                              /\ HasFinalised(r.voter, active)
                                    => r.voter.FinalisedHeight # 0
            BY <2>1 DEF CrossedInv, chainVars
        <3>2. effects = << >>
            BY <1>1, <2>4, <2>5, <3>1 DEF CrossedInv, MarkInv
        <3>3. r.voter.Tx # NoTx
            BY <1>1, <2>4, <2>5, <3>1 DEF CrossedInv
        <3>4. HasFinalised(r.voter, active) => r.voter.FinalisedHeight # 0
            BY <1>1, <2>3, <2>5, <3>1 DEF CrossedInv
        <3> QED
            BY <3>2, <3>3, <3>4
    <2> QED
        BY <2>1, <2>4, <2>7, <2>8, <2>9 DEF chainVars
<1> QED
    BY <1>2, <1>3

(* The end of a quorum message preserves the invariant.                    *)
LEMMA QuorumEndStep ==
    ASSUME IInv, NEW a \in Answers, QuorumEnd(a)
    PROVE  IInv'
<1>1. msg \in QuorumMsg /\ msg # NoMsg
    BY DEF QuorumEnd, IInv, TypeOK
<1>2. /\ msg.tx \in Observation /\ msg.seen \in SUBSET Node
      /\ msg.crossed \in BOOLEAN
    BY <1>1 DEF QuorumMsg
<1>3. HandlePre(voter, msg.crossed)
    BY <1>1 DEF IInv, TypeOK, HandlePre, CrossedInv
<1>4. handleObservedTxInQuorum(voter, msg.tx, msg.seen, msg.crossed, a)
    BY DEF QuorumEnd
<1>5. /\ voter' \in Voter /\ VoterInv(voter') /\ MarkInv(voter)'
      /\ funds' \in [Vault -> Nat]
      /\ credits' \in Seq(Vault \X Amount)
      /\ effects' \in Seq(Effect)
      /\ lastChain' \in Nat
      /\ observing' \in SUBSET Node
    BY <1>2, <1>3, <1>4, HandleLemma DEF IInv
<1>6. /\ UNCHANGED <<reports, active, now, inactive, churns, slash, errata,
                     lastObserve, adjusted, sent>>
      /\ msg' = NoMsg
    BY DEF QuorumEnd, chainVars
<1>7. TypeOK'
    BY <1>5, <1>6 DEF TypeOK, IInv
<1> QED
    BY <1>5, <1>6, <1>7 DEF IInv, CrossedInv

(* An errata vote short of consensus preserves the invariant.              *)
LEMMA ErrataVoteStep ==
    ASSUME IInv, NEW n \in Node, NEW d \in BOOLEAN, NEW f \in BOOLEAN,
           ErrataTx(n, d, f), ErrataVote(n, d)
    PROVE  IInv'
<1>1. /\ UNCHANGED <<reports, active, now, inactive, churns, lastObserve,
                     lastChain, observing, msg, effects, credits, voter,
                     funds, adjusted>>
      /\ errata' = [errata EXCEPT !.signers = errata.signers \cup {n}]
      /\ sent' = sent + 1 /\ msg = NoMsg
    BY DEF ErrataTx, ErrataVote, CanSend
<1>2. /\ errata' \in [signers : SUBSET Node, height : Nat]
      /\ errata'.height = errata.height
    BY <1>1 DEF IInv, TypeOK
<1>3. slash' \in [Node -> Nat]
    <2>1. ObservePoints \in Nat /\ LackPenalty \in Nat
        BY InAssumption
    <2>2. slash' \in {slash, IncSlashPoints(slash, ObservePoints, {n}),
                      DecSlashPoints(slash, LackPenalty, {n})}
        BY DEF ErrataVote
    <2>3. slash \in [Node -> Nat]
        BY DEF IInv, TypeOK
    <2> QED
        BY <2>1, <2>2, <2>3, SlashType
<1>4. TypeOK'
    <2>1. TypeOK
        BY DEF IInv
    <2>2. sent' \in Nat
        BY <1>1, <2>1 DEF TypeOK
    <2> QED
        BY <1>1, <1>2, <1>3, <2>1, <2>2 DEF TypeOK
<1> QED
    BY <1>1, <1>2, <1>4 DEF IInv, CrossedInv, MarkInv

(* The errata vote that reverts the tx preserves the invariant.            *)
LEMMA ErrataRevertStep ==
    ASSUME IInv, NEW n \in Node, NEW d \in BOOLEAN, NEW f \in BOOLEAN,
           ErrataTx(n, d, f), ErrataRevert(n, d, f)
    PROVE  IInv'
<1> DEFINE debit == ErrataDebit(voter, funds)
<1>1. /\ UNCHANGED <<reports, active, now, churns, lastObserve,
                     lastChain, observing, msg, effects, credits>>
      /\ \E S : inactive' = inactive \ S
      /\ errata' = [signers |-> errata.signers \cup {n}, height |-> now]
      /\ sent' = sent + 1 /\ msg = NoMsg
      /\ errata.height = 0 /\ adjusted' \in {adjusted, adjusted + 1}
      /\ voter' \in {voter, SetReverted(voter)}
    <2>1. inactive' = inactive \/ inactive' = inactive \ {voter.Tx.obs.pubkey}
        BY DEF ErrataRevert
    <2>2. \E S : inactive' = inactive \ S
        <3>1. inactive = inactive \ {}
            OBVIOUS
        <3> QED
            BY <2>1, <3>1
    <2> QED
        BY <2>2 DEF ErrataTx, ErrataRevert, CanSend
<1>2. /\ errata' \in [signers : SUBSET Node, height : Nat]
      /\ errata'.height # 0
    BY <1>1 DEF IInv, TypeOK
<1>3. slash' \in [Node -> Nat]
    <2>1. IncSlashPoints(slash, ObservePoints, {n}) \in [Node -> Nat]
        BY SlashType, InAssumption DEF IInv, TypeOK
    <2>2. slash' = SettleSlash(IncSlashPoints(slash, ObservePoints, {n}),
                               active, errata.signers \cup {n})
        BY DEF ErrataRevert
    <2> QED
        BY <2>1, <2>2, SettleSlashType
<1>4. /\ voter' \in Voter /\ VoterInv(voter')
      /\ voter'.FinalisedHeight = voter.FinalisedHeight
      /\ voter'.UpdatedVault = voter.UpdatedVault
    <2> DEFINE x == setStatus(voter, "reverted")
    <2>1. /\ x \in Voter /\ VoterInv(x)
          /\ x.FinalisedHeight = voter.FinalisedHeight
          /\ x.UpdatedVault = voter.UpdatedVault
        BY SetStatusType DEF IInv, TypeOK, Status
    <2>2. SetReverted(voter) = [x EXCEPT !.Reverted = TRUE]
        BY DEF SetReverted
    <2> HIDE DEF x
    <2>3. /\ SetReverted(voter) \in Voter /\ VoterInv(SetReverted(voter))
          /\ SetReverted(voter).FinalisedHeight = x.FinalisedHeight
          /\ SetReverted(voter).UpdatedVault = x.UpdatedVault
        BY <2>1, <2>2 DEF Voter, VoterInv
    <2>4. CASE voter' = voter
        BY <2>4 DEF IInv, TypeOK
    <2>5. CASE voter' = SetReverted(voter)
        BY <2>1, <2>3, <2>5
    <2> QED
        BY <1>1, <2>4, <2>5
<1>5. funds' \in [Vault -> Nat]
    <2>1. /\ funds \in [Vault -> Nat]
          /\ voter.Tx # NoTx => voter.Tx \in ObservedTx
        BY DEF IInv, TypeOK, Voter
    <2>2. voter.Tx # NoTx => /\ voter.Tx.obs.pubkey \in Vault
                            /\ voter.Tx.obs.body.coins \in Nat
        BY <2>1, InAssumption DEF ObservedTx, Observation, Body
    <2>3. debit \in [Vault -> Nat]
        BY <2>1, <2>2 DEF ErrataDebit, SafeSub
    <2>4. \/ funds' = debit
          \/ /\ voter.Tx # NoTx
             /\ funds' = [debit EXCEPT ![voter.Tx.obs.pubkey] =
                              @ + voter.Tx.obs.body.coins]
        BY DEF ErrataRevert
    <2> HIDE DEF debit
    <2> QED
        BY <2>2, <2>3, <2>4
<1>6. adjusted' \in Nat /\ adjusted' <= 1
    BY <1>1 DEF IInv, TypeOK
<1>7. TypeOK'
    BY <1>1, <1>2, <1>3, <1>4, <1>5, <1>6 DEF TypeOK, IInv
<1>8. MarkInv(voter)' /\ CrossedInv'
    BY <1>1, <1>4 DEF IInv, MarkInv, CrossedInv
<1> QED
    BY <1>1, <1>2, <1>4, <1>6, <1>7, <1>8 DEF IInv

(* Every step of the chain preserves the invariant.                        *)
LEMMA NextIInv == IInv /\ [Next]_vars => IInv'
<1> SUFFICES ASSUME IInv, [Next]_vars PROVE IInv'
    OBVIOUS
<1>1. ASSUME NEW n \in Node, NEW o \in reports, NEW a \in Answers,
             ObservedTxInMsg(n, o, a)
      PROVE  IInv'
    BY <1>1, InMsgStep
<1>2. ASSUME NEW o \in reports, NEW S \in SUBSET Node \ {{}}, QuorumBegin(o, S)
      PROVE  IInv'
    <2>1. o \in Observation
        BY InAssumption DEF IInv, TypeOK
    <2>2. /\ msg' \in QuorumMsg /\ ~msg'.crossed
        BY <1>2, <2>1 DEF QuorumBegin, QuorumMsg
    <2>3. S \subseteq Node /\ IsFiniteSet(Node)
        BY InAssumption
    <2>4. Cardinality(S) \in Nat
        BY <2>3, FS_Subset, FS_CardinalityType
    <2>5. /\ sent' = sent + Cardinality(S)
          /\ UNCHANGED <<reports, active, now, inactive, churns, voter, slash,
                         funds, errata, lastObserve, lastChain, observing,
                         effects, credits, adjusted>>
        BY <1>2 DEF QuorumBegin, chainVars
    <2>6. TypeOK' /\ now' # 0
        BY <2>2, <2>4, <2>5 DEF TypeOK, IInv
    <2> QED
        BY <2>2, <2>5, <2>6, QuietStep
<1>3. ASSUME NEW n \in Node, QuorumAttest(n) PROVE IInv'
    BY <1>3, QuorumAttestStep
<1>4. ASSUME NEW a \in Answers, QuorumEnd(a) PROVE IInv'
    BY <1>4, QuorumEndStep
<1>5. ASSUME NEW n \in Node, NEW d \in BOOLEAN, NEW f \in BOOLEAN,
             ErrataTx(n, d, f)
      PROVE  IInv'
    BY <1>5, ErrataVoteStep, ErrataRevertStep DEF ErrataTx
<1>6. CASE NextBlock
    <2>1. TypeOK' /\ now' # 0 /\ msg' = NoMsg
        BY <1>6 DEF NextBlock, TypeOK, IInv
    <2> QED
        BY <1>6, <2>1, QuietStep DEF NextBlock
<1>7. ASSUME NEW S \in SUBSET Node, Churn(S) PROVE IInv'
    <2>0. Cardinality(S) >= MinActive /\ MinActive > 0 /\ MinActive \in Nat
        BY <1>7, InAssumption DEF Churn
    <2>1. S # {}
        BY <2>0, FS_EmptySet
    <2>2. TypeOK' /\ now' # 0 /\ msg' = NoMsg
        BY <1>7, <2>1 DEF Churn, TypeOK, IInv
    <2> QED
        BY <1>7, <2>2, QuietStep DEF Churn
<1>8. ASSUME NEW v \in Vault, VaultInactive(v) PROVE IInv'
    <2>1. TypeOK' /\ now' # 0 /\ msg' = NoMsg
        BY <1>8 DEF VaultInactive, TypeOK, IInv
    <2> QED
        BY <1>8, <2>1, QuietStep DEF VaultInactive
<1>9. CASE UNCHANGED vars
    <2>1. VoterInv(voter)' /\ MarkInv(voter)' /\ CrossedInv' /\ TypeOK'
        BY <1>9 DEF IInv, MarkInv, CrossedInv, TypeOK, vars, HasFinalised
    <2> QED
        BY <1>9, <2>1 DEF IInv, vars
<1> QED
    BY <1>1, <1>2, <1>3, <1>4, <1>5, <1>6, <1>7, <1>8, <1>9 DEF Next

-----------------------------------------------------------------------------
(* How the agreed tx changes                                               *)

(* A final tx is marked by its height.                                     *)
FinalMarked(v) == v.Tx # NoTx /\ IsFinal(v.Tx.obs) => v.FinalisedHeight # 0

(* w holds the tx of v with more signers, under the same heights.          *)
KeepsTx(v, w) ==
    /\ w.Height = v.Height /\ w.FinalisedHeight = v.FinalisedHeight
    /\ SameButMemo(w.Tx.obs, v.Tx.obs)
    /\ v.Tx.signers \subseteq w.Tx.signers

(* The agreed tx of w is, up to its memo, an entry whose final class has a *)
(* super majority of nas.                                                  *)
MajorityTx(w, nas) ==
    \E j \in DOMAIN w.Txs :
        /\ SameButMemo(w.Txs[j].obs, w.Tx.obs)
        /\ HasClassMajority(w, nas, TRUE, j)

(* What a step may do to the voter v, nas being the active validators.     *)
VoterStep(v, w, nas) ==
    /\ v.FinalisedHeight # 0 => KeepsTx(v, w)
    /\ w.FinalisedHeight # v.FinalisedHeight => MajorityTx(w, nas)
    /\ FinalMarked(w)
    /\ w.Reverted = v.Reverted

(* MajorityTx looks at Txs, and at the tx up to its memo.                  *)
LEMMA MajorityTxKept ==
    ASSUME NEW v, NEW w, NEW nas, MajorityTx(v, nas), w.Txs = v.Txs,
           SameButMemo(w.Tx.obs, v.Tx.obs)
    PROVE  MajorityTx(w, nas)
<1>1. \A j : HasClassMajority(v, nas, TRUE, j) = HasClassMajority(w, nas, TRUE, j)
    BY DEF HasClassMajority, ClassSigners
<1>2. PICK j \in DOMAIN v.Txs : /\ SameButMemo(v.Txs[j].obs, v.Tx.obs)
                                /\ HasClassMajority(v, nas, TRUE, j)
    BY DEF MajorityTx
<1>3. SameButMemo(w.Txs[j].obs, w.Tx.obs)
    BY <1>2 DEF SameButMemo
<1>4. HasClassMajority(w, nas, TRUE, j)
    BY <1>1, <1>2
<1> QED
    BY <1>2, <1>3, <1>4 DEF MajorityTx

(* What the tally does to the agreed tx.                                   *)
LEMMA TallyStep ==
    ASSUME NEW v \in Voter, VoterInv(v), FinalMarked(v), now \in Nat \ {0},
           NEW s, NEW nas, NEW o, NEW n \in Node
    PROVE  VoterStep(v, TallyIn(v, s, nas, o, n).voter, nas)
<1> DEFINE r == TallyIn(v, s, nas, o, n)
           g == GetTx(v, nas)
           fin  == [v EXCEPT !.Height = now, !.FinalisedHeight = now, !.Tx = g]
           disc == [v EXCEPT !.Height = now, !.Tx = g]
           late == [v EXCEPT !.Tx.signers = @ \cup {n}]
<1>1. \/ r.voter = fin /\ HasFinalised(v, nas) /\ v.FinalisedHeight = 0
      \/ r.voter = v
      \/ r.voter = late /\ v.Tx # NoTx
      \/ /\ r.voter = disc /\ ~HasFinalised(v, nas)
         /\ HasConsensus(v, nas) /\ v.FinalisedHeight = 0
    BY DEF TallyIn, VoterInv, Settle, AcceptLate
<1> HIDE DEF r
<1>2. CASE r.voter = fin /\ HasFinalised(v, nas) /\ v.FinalisedHeight = 0
    <2>1. g # NoTx /\ IsFinal(g.obs)
        BY <1>2 DEF HasFinalised
    <2>2. ~(v.Tx # NoTx /\ IsFinal(v.Tx.obs))
        BY <1>2 DEF FinalMarked
    <2>3. g = getConsensusTx(v, nas, TRUE) /\ g # NoTx
        <3>1. getConsensusTx(v, nas, FALSE) # NoTx
                => ~IsFinal(getConsensusTx(v, nas, FALSE).obs)
            BY ConsensusTxType
        <3> QED
            BY <2>1, <2>2, <3>1 DEF GetTx
    <2>4. PICK i \in DOMAIN v.Txs : g = v.Txs[i] /\ HasClassMajority(v, nas, TRUE, i)
        BY <2>3, ConsensusTxType
    <2>5. /\ fin.Tx = g /\ fin.Txs = v.Txs /\ fin.FinalisedHeight = now
          /\ fin.Reverted = v.Reverted
        BY DEF Voter
    <2> HIDE DEF fin, g
    <2>6. HasClassMajority(fin, nas, TRUE, i)
        BY <2>4, <2>5 DEF HasClassMajority, ClassSigners
    <2>7. MajorityTx(fin, nas)
        BY <2>4, <2>5, <2>6 DEF MajorityTx, SameButMemo
    <2> QED
        BY <1>2, <2>5, <2>7 DEF VoterStep, FinalMarked, r
<1>3. CASE r.voter = v
    BY <1>3 DEF VoterStep, KeepsTx, SameButMemo, r
<1>4. CASE r.voter = late /\ v.Tx # NoTx
    <2>1. v.Tx \in ObservedTx
        BY <1>4 DEF Voter
    <2>2. /\ late.Tx = [v.Tx EXCEPT !.signers = @ \cup {n}]
          /\ late.Height = v.Height /\ late.FinalisedHeight = v.FinalisedHeight
          /\ late.Reverted = v.Reverted
        BY DEF Voter
    <2>3. late.Tx.obs = v.Tx.obs /\ v.Tx.signers \subseteq late.Tx.signers
        BY <2>1, <2>2 DEF ObservedTx
    <2> HIDE DEF late
    <2> QED
        BY <1>4, <2>2, <2>3 DEF VoterStep, KeepsTx, SameButMemo, FinalMarked, r
<1>5. CASE /\ r.voter = disc /\ ~HasFinalised(v, nas)
           /\ HasConsensus(v, nas) /\ v.FinalisedHeight = 0
    <2>1. /\ disc.Tx = g /\ disc.FinalisedHeight = v.FinalisedHeight
          /\ disc.Reverted = v.Reverted
        BY DEF Voter
    <2>2. g # NoTx /\ ~IsFinal(g.obs)
        BY <1>5 DEF HasFinalised, HasConsensus
    <2> HIDE DEF disc, g
    <2> QED
        BY <1>5, <2>1, <2>2 DEF VoterStep, FinalMarked, r
<1> QED
    BY <1>1, <1>2, <1>3, <1>4, <1>5 DEF r

(* What an attestation, a duplicate included, does to the agreed tx.       *)
LEMMA AttestationStep ==
    ASSUME NEW v \in Voter, VoterInv(v), FinalMarked(v), now \in Nat \ {0},
           NEW nas, NEW o \in Observation, NEW n \in Node, NEW d \in BOOLEAN,
           NEW r, r = processTxInAttestation(v, nas, o, n, d)
    PROVE  VoterStep(v, r.voter, nas)
<1>1. CASE AlreadySigned(v, o, n)
    <2>1. r.voter = v
        BY <1>1 DEF processTxInAttestation
    <2> QED
        BY <2>1 DEF VoterStep, KeepsTx, SameButMemo
<1>2. CASE ~AlreadySigned(v, o, n)
    <2> DEFINE w == Add(v, o, n)
               charged == IncSlashPoints(slash, ObservePoints, {n})
    <2>1. r = TallyIn(w, charged, nas, o, n)
        BY <1>2 DEF processTxInAttestation
    <2>2. w \in Voter /\ w = [v EXCEPT !.Txs = w.Txs]
        BY AddType
    <2> HIDE DEF w, charged
    <2>3. /\ w.Tx = v.Tx /\ w.Height = v.Height
          /\ w.FinalisedHeight = v.FinalisedHeight /\ w.Reverted = v.Reverted
        BY <2>2 DEF Voter
    <2>4. VoterInv(w) /\ FinalMarked(w)
        BY <2>3 DEF VoterInv, FinalMarked
    <2>5. VoterStep(w, r.voter, nas)
        BY <2>1, <2>2, <2>4, TallyStep
    <2> QED
        BY <2>3, <2>5 DEF VoterStep, KeepsTx
<1> QED
    BY <1>1, <1>2

(* Saving the voter with another memo or status leaves the agreed tx.      *)
LEMMA CrossedStep ==
    ASSUME NEW v \in Voter, v.Tx # NoTx, NEW o,
           NEW w, w \in {CrossedVoter(v, o), SetDone(CrossedVoter(v, o))}
    PROVE  /\ KeepsTx(v, w) /\ w.Txs = v.Txs /\ w.Reverted = v.Reverted
           /\ IsFinal(w.Tx.obs) = IsFinal(v.Tx.obs)
<1> DEFINE t == [v.Tx EXCEPT !.obs.body.memo = o.body.memo]
           u == v.UpdatedVault \/ CreditDue(v, o)
           x == CrossedVoter(v, o)
<1>1. v.Tx \in ObservedTx
    BY DEF Voter
<1>2. /\ SameButMemo(t.obs, v.Tx.obs) /\ t.signers = v.Tx.signers
      /\ IsFinal(t.obs) = IsFinal(v.Tx.obs) /\ DOMAIN t = DOMAIN v.Tx
    BY <1>1 DEF ObservedTx, Observation, Body, SameButMemo, IsFinal
<1>3. x = [[v EXCEPT !.Tx = t] EXCEPT !.UpdatedVault = u]
    BY DEF CrossedVoter
<1>4. t = [obs |-> t.obs, signers |-> t.signers, status |-> t.status]
    BY <1>1 DEF ObservedTx
<1> HIDE DEF t, u
<1>5. /\ x.Tx = t /\ x.Txs = v.Txs /\ x.Height = v.Height
      /\ x.FinalisedHeight = v.FinalisedHeight /\ x.Reverted = v.Reverted
    BY <1>3 DEF Voter
<1>6. CASE w = x
    BY <1>2, <1>5, <1>6 DEF KeepsTx
<1>7. CASE w = SetDone(x) /\ w # x
    <2>1. w = [x EXCEPT !.Tx.status = "done"]
        BY <1>7 DEF SetDone, setStatus
    <2>2. "Tx" \in DOMAIN x /\ w.Tx = [t EXCEPT !.status = "done"]
        BY <1>3, <1>5, <2>1 DEF Voter
    <2>3. w.Tx.obs = t.obs /\ w.Tx.signers = t.signers
        BY <1>4, <2>2
    <2>4. /\ w.Txs = v.Txs /\ w.Height = v.Height
          /\ w.FinalisedHeight = v.FinalisedHeight /\ w.Reverted = v.Reverted
        BY <1>3, <1>5, <2>1 DEF Voter
    <2> QED
        BY <1>2, <2>3, <2>4 DEF KeepsTx
<1> QED
    BY <1>6, <1>7

(* The voter when a handler is done: it is either saved as it is, or with  *)
(* the memo and status that crossing consensus writes.                     *)
LEMMA HandleStep ==
    ASSUME NEW u, NEW v \in Voter, NEW nas, VoterStep(u, v, nas),
           NEW o, NEW S, NEW c \in BOOLEAN, NEW a, c => v.Tx # NoTx,
           handleObservedTxInQuorum(v, o, S, c, a)
    PROVE  /\ VoterStep(u, voter', nas)
           /\ v.Reverted => UNCHANGED <<effects, credits, funds>>
<1>1. CASE voter' = v /\ UNCHANGED <<effects, credits, funds>>
    BY <1>1
<1>2. CASE /\ c /\ ~v.Reverted
           /\ voter' \in {CrossedVoter(v, o), SetDone(CrossedVoter(v, o))}
    <2>1. PICK w : w = voter'
        OBVIOUS
    <2>2. /\ KeepsTx(v, w) /\ w.Txs = v.Txs /\ w.Reverted = v.Reverted
          /\ IsFinal(w.Tx.obs) = IsFinal(v.Tx.obs)
        BY <1>2, <2>1, CrossedStep
    <2>3. MajorityTx(v, nas) => MajorityTx(w, nas)
        BY <2>2, MajorityTxKept DEF KeepsTx
    <2>4. VoterStep(u, w, nas)
        BY <1>2, <2>2, <2>3 DEF VoterStep, KeepsTx, SameButMemo, FinalMarked
    <2> QED
        BY <1>2, <2>1, <2>4
<1>3. \/ voter' = v /\ UNCHANGED <<effects, credits, funds>>
      \/ /\ c /\ ~v.Reverted
         /\ voter' \in {CrossedVoter(v, o), SetDone(CrossedVoter(v, o))}
    BY DEF handleObservedTxInQuorum, SkipReverted
<1> QED
    BY <1>1, <1>2, <1>3

-----------------------------------------------------------------------------
(* The same over the steps of the chain                                    *)

(* What every step does: an errata is the only one that reverts.           *)
ChainStep ==
    /\ voter.FinalisedHeight # 0 => KeepsTx(voter, voter')
    /\ voter'.FinalisedHeight # voter.FinalisedHeight => MajorityTx(voter', active)
    /\ FinalMarked(voter')
    /\ voter'.Reverted => voter.Reverted \/ errata'.height # 0
    /\ errata.height # 0 => errata'.height # 0
    /\ voter.Reverted => UNCHANGED <<effects, credits, adjusted, funds>>

(* A tx is reverted by an errata that is closed; what is final is marked.  *)
StableInv ==
    /\ FinalMarked(voter)
    /\ voter.Reverted => errata.height # 0

(* SetReverted changes the status of the agreed tx and the mark only.      *)
LEMMA RevertedVoter ==
    ASSUME NEW v \in Voter, NEW w, w = SetReverted(v)
    PROVE  /\ w.Txs = v.Txs /\ w.Height = v.Height /\ w.FinalisedHeight = v.FinalisedHeight
           /\ w.UpdatedVault = v.UpdatedVault /\ w.Reverted
           /\ (w.Tx = NoTx) = (v.Tx = NoTx)
           /\ v.Tx # NoTx => w.Tx.obs = v.Tx.obs /\ w.Tx.signers = v.Tx.signers
<1>1. CASE v.Tx = NoTx
    BY <1>1 DEF SetReverted, setStatus, Voter
<1>2. CASE v.Tx # NoTx
    <2> DEFINE t == [v.Tx EXCEPT !.status = "reverted"]
    <2>1. v.Tx \in ObservedTx
        BY <1>2 DEF Voter
    <2>2. t \in ObservedTx /\ t.obs = v.Tx.obs /\ t.signers = v.Tx.signers
        BY <2>1 DEF ObservedTx, Status
    <2>3. w = [[v EXCEPT !.Tx = t] EXCEPT !.Reverted = TRUE]
        BY <1>2 DEF SetReverted, setStatus
    <2> HIDE DEF t
    <2>4. /\ w.Tx = t /\ w.Txs = v.Txs /\ w.Height = v.Height
          /\ w.FinalisedHeight = v.FinalisedHeight /\ w.Reverted
          /\ w.UpdatedVault = v.UpdatedVault
        BY <2>3 DEF Voter
    <2> QED
        BY <1>2, <2>2, <2>4, InAssumption
<1> QED
    BY <1>1, <1>2

(* The errata vote that reverts the tx changes its status only.            *)
LEMMA RevertStep ==
    ASSUME IInv, StableInv, NEW n, NEW d, NEW f, ErrataRevert(n, d, f),
           UNCHANGED <<effects, credits>>
    PROVE  ChainStep
<1>1. /\ errata' = [signers |-> errata.signers \cup {n}, height |-> now]
      /\ errata.height = 0 /\ voter' \in {voter, SetReverted(voter)}
    BY DEF ErrataRevert
<1>2. errata'.height # 0 /\ ~voter.Reverted
    BY <1>1 DEF IInv, StableInv
<1>3. PICK w : w = voter'
    OBVIOUS
<1>4. /\ (w.Tx = NoTx) = (voter.Tx = NoTx)
      /\ w.Height = voter.Height /\ w.FinalisedHeight = voter.FinalisedHeight
      /\ voter.Tx # NoTx => w.Tx.obs = voter.Tx.obs /\ w.Tx.signers = voter.Tx.signers
    BY <1>1, <1>3, RevertedVoter DEF IInv, TypeOK
<1>5. voter.FinalisedHeight # 0 => KeepsTx(voter, w)
    BY <1>4 DEF KeepsTx, SameButMemo, IInv, VoterInv
<1>6. FinalMarked(w)
    BY <1>4 DEF FinalMarked, StableInv
<1> QED
    BY <1>2, <1>3, <1>4, <1>5, <1>6 DEF ChainStep

(* A step that leaves the voter alone and no errata open again.            *)
LEMMA SameVoterStep ==
    ASSUME StableInv, UNCHANGED <<voter, effects, credits, adjusted, funds>>,
           errata'.height = errata.height
    PROVE  ChainStep
BY DEF ChainStep, StableInv, KeepsTx, SameButMemo, FinalMarked

(* A step of a handler is one of ChainStep.                                *)
LEMMA VoterChainStep ==
    ASSUME StableInv, VoterStep(voter, voter', active), UNCHANGED errata,
           voter.Reverted => UNCHANGED <<effects, credits, adjusted, funds>>
    PROVE  ChainStep
BY DEF ChainStep, VoterStep, StableInv

(* Every step of the chain is one of ChainStep.                            *)
LEMMA NextChainStep == IInv /\ StableInv /\ [Next]_vars => ChainStep
<1> SUFFICES ASSUME IInv, StableInv, [Next]_vars PROVE ChainStep
    OBVIOUS
<1>0. voter \in Voter /\ VoterInv(voter) /\ FinalMarked(voter) /\ now \in Nat \ {0}
    BY DEF IInv, TypeOK, StableInv
<1>1. ASSUME NEW n \in Node, NEW o \in reports, NEW a \in Answers,
             ObservedTxInMsg(n, o, a)
      PROVE  ChainStep
    <2>1. PICK r : r = processTxInAttestation(voter, active, o, n, TRUE)
        OBVIOUS
    <2>2. o \in Observation
        BY InAssumption DEF IInv, TypeOK
    <2>3. PICK S : handleObservedTxInQuorum(r.voter, o, S, r.ok, a)
        BY <1>1, <2>1 DEF ObservedTxInMsg
    <2>4. AttestationFacts(voter, r, active)
        BY <1>0, <2>1, <2>2, AttestationLemma DEF IInv, TypeOK
    <2>5. VoterStep(voter, r.voter, active)
        BY <1>0, <2>1, <2>2, AttestationStep
    <2>6. /\ r.voter \in Voter /\ r.ok \in BOOLEAN /\ (r.ok => r.voter.Tx # NoTx)
          /\ r.voter.Reverted = voter.Reverted
        BY <2>4 DEF AttestationFacts
    <2>7. /\ VoterStep(voter, voter', active)
          /\ r.voter.Reverted => UNCHANGED <<effects, credits, funds>>
        BY <2>3, <2>5, <2>6, HandleStep
    <2>8. UNCHANGED <<errata, adjusted>>
        BY <1>1 DEF ObservedTxInMsg
    <2> QED
        BY <2>6, <2>7, <2>8, VoterChainStep
<1>2. ASSUME NEW n \in Node, QuorumAttest(n) PROVE ChainStep
    <2>1. UNCHANGED <<effects, credits, adjusted, funds, errata>>
        BY <1>2 DEF QuorumAttest
    <2>2. CASE n \notin active
        <3>1. voter' = voter
            BY <1>2, <2>2 DEF QuorumAttest
        <3> QED
            BY <2>1, <3>1, SameVoterStep
    <2>3. CASE n \in active
        <3>1. PICK r : r = processTxInAttestation(voter, active, msg.tx, n, FALSE)
            OBVIOUS
        <3>2. voter' = r.voter
            BY <1>2, <2>3, <3>1 DEF QuorumAttest
        <3>3. msg.tx \in Observation
            BY <1>2 DEF QuorumAttest, IInv, TypeOK, QuorumMsg
        <3>4. VoterStep(voter, r.voter, active)
            BY <1>0, <3>1, <3>3, AttestationStep
        <3> QED
            BY <2>1, <3>2, <3>4, VoterChainStep
    <2> QED
        BY <2>2, <2>3
<1>3. ASSUME NEW a \in Answers, QuorumEnd(a) PROVE ChainStep
    <2>1. msg \in QuorumMsg /\ msg # NoMsg
        BY <1>3 DEF QuorumEnd, IInv, TypeOK
    <2>2. msg.crossed \in BOOLEAN /\ (msg.crossed => voter.Tx # NoTx)
        BY <2>1 DEF QuorumMsg, IInv, CrossedInv
    <2>3. handleObservedTxInQuorum(voter, msg.tx, msg.seen, msg.crossed, a)
        BY <1>3 DEF QuorumEnd
    <2>4. VoterStep(voter, voter, active)
        BY <1>0 DEF VoterStep, KeepsTx, SameButMemo
    <2>5. /\ VoterStep(voter, voter', active)
          /\ voter.Reverted => UNCHANGED <<effects, credits, funds>>
        BY <1>0, <2>2, <2>3, <2>4, HandleStep
    <2>6. UNCHANGED <<errata, adjusted>>
        BY <1>3 DEF QuorumEnd
    <2> QED
        BY <2>5, <2>6, VoterChainStep
<1>4. ASSUME NEW n \in Node, NEW d \in BOOLEAN, NEW f \in BOOLEAN,
             ErrataTx(n, d, f)
      PROVE  ChainStep
    <2>1. UNCHANGED <<effects, credits>>
        BY <1>4 DEF ErrataTx
    <2>2. CASE ErrataRevert(n, d, f)
        BY <2>1, <2>2, RevertStep
    <2>3. CASE ErrataVote(n, d)
        <3>1. /\ UNCHANGED <<voter, funds, adjusted>>
              /\ errata' = [errata EXCEPT !.signers = errata.signers \cup {n}]
            BY <2>3 DEF ErrataVote
        <3>2. errata'.height = errata.height
            BY <3>1 DEF IInv, TypeOK
        <3> QED
            BY <2>1, <3>1, <3>2, SameVoterStep
    <2> QED
        BY <1>4, <2>2, <2>3 DEF ErrataTx
<1>5. CASE UNCHANGED <<voter, effects, credits, adjusted, funds, errata>>
    BY <1>5, SameVoterStep
<1> QED
    BY <1>1, <1>2, <1>3, <1>4, <1>5
    DEF Next, QuorumBegin, NextBlock, Churn, VaultInactive, vars

(* The invariant of the reverted and of the final tx.                      *)
LEMMA StableInvariant == Spec => [](IInv /\ StableInv)
<1>1. Init => StableInv
    BY DEF Init, NewErrataTxVoter, NewVoter, StableInv, FinalMarked
<1>2. IInv /\ StableInv /\ [Next]_vars => StableInv'
    <2> SUFFICES ASSUME IInv, StableInv, [Next]_vars PROVE StableInv'
        OBVIOUS
    <2>1. ChainStep
        BY NextChainStep
    <2> QED
        BY <2>1 DEF ChainStep, StableInv, FinalMarked
<1> QED
    BY <1>1, <1>2, InitIInv, NextIInv, PTL DEF Spec

-----------------------------------------------------------------------------
(* An errata restores the funds, if the reports agree on what was paid     *)

SamePay(o1, o2) == o1.pubkey = o2.pubkey /\ o1.body.coins = o2.body.coins

(* Validators may differ in the memo, the block and the finality they      *)
(* report, not in the vault and the amount.                                *)
ReportsAgree == \A S \in Scenarios : \A o1, o2 \in S : SamePay(o1, o2)

(* What a voter holds comes from reports.                                  *)
Sourced(v) ==
    /\ \A i \in DOMAIN v.Txs : v.Txs[i].obs \in reports
    /\ v.Tx # NoTx => /\ v.Txs # << >>
                      /\ \A o \in reports : SamePay(o, v.Tx.obs)

Untouched == \A v \in Vault : funds[v] = BaseFunds

SelfPaid(v) == v.Tx # NoTx /\ IsFinal(v.Tx.obs) /\ FromEqualsTo(v.Tx.obs.body.memo)

(* The funds of a credit to the vault of the agreed tx.                    *)
CreditedTo(o) ==
    \A v \in Vault : funds[v] = IF v = o.pubkey THEN BaseFunds + o.body.coins ELSE BaseFunds

(* The mark UpdatedVault stands for a credit, or for a consolidation that  *)
(* has been handled and that no later vote replaces.                       *)
FundsOf(v) ==
    /\ v.UpdatedVault => v.Tx # NoTx
    /\ v.Reverted => Untouched \/ SelfPaid(v)
    /\ ~v.Reverted /\ credits = << >> =>
          Untouched /\ (v.UpdatedVault => SelfPaid(v))
    /\ ~v.Reverted /\ credits # << >> => v.UpdatedVault /\ CreditedTo(v.Tx.obs)

FundsInv ==
    /\ Sourced(voter) /\ FundsOf(voter)
    /\ msg # NoMsg => msg.tx \in reports
    /\ msg # NoMsg /\ msg.crossed /\ ~voter.Reverted /\ credits = << >> => ~voter.UpdatedVault

(* An attestation keeps to what is reported, and a final tx as it is.      *)
SourcedStep(v, w) ==
    /\ Sourced(w)
    /\ v.Tx # NoTx => w.Tx # NoTx
    /\ v.FinalisedHeight # 0 => w.Tx.obs = v.Tx.obs
    /\ w.UpdatedVault = v.UpdatedVault /\ w.Reverted = v.Reverted

(* A vote is for one of the reports.                                       *)
LEMMA AddSourced ==
    ASSUME NEW v \in Voter, Sourced(v), NEW o \in reports, o \in Observation,
           NEW n \in Node
    PROVE  Sourced(Add(v, o, n)) /\ Add(v, o, n).Txs # << >>
<1> DEFINE w == Add(v, o, n)
           i == VotedIdx(v, o)
<1>1. w \in Voter /\ w = [v EXCEPT !.Txs = w.Txs]
    BY AddType
<1>2. v.Txs \in Seq(ObservedTx)
    BY DEF Voter
<1>3. CASE i # 0
    <2>1. i \in DOMAIN v.Txs
        BY <1>3 DEF VotedIdx
    <2>2. v.Txs[i] \in ObservedTx
        BY <1>2, <2>1
    <2>3. w.Txs = [v.Txs EXCEPT ![i] = [v.Txs[i] EXCEPT !.signers = @ \cup {n}]]
        BY <1>3 DEF Add, Voter
    <2>4. DOMAIN w.Txs = DOMAIN v.Txs /\ \A j \in DOMAIN w.Txs : w.Txs[j].obs = v.Txs[j].obs
        BY <1>2, <2>1, <2>2, <2>3 DEF ObservedTx
    <2>5. w.Txs # << >>
        BY <1>2, <2>1, <2>4
    <2> HIDE DEF w
    <2>6. w.Tx = v.Tx
        BY <1>1 DEF Voter
    <2>7. Sourced(w)
        BY <2>4, <2>5, <2>6 DEF Sourced
    <2> QED
        BY <2>5, <2>7 DEF w
<1>4. CASE i = 0
    <2> DEFINE e == [obs |-> o, signers |-> {n}, status |-> "incomplete"]
    <2>1. w.Txs = Append(v.Txs, e)
        BY <1>4 DEF Add, Voter
    <2>2. e \in ObservedTx /\ e.obs = o
        BY DEF ObservedTx, Status
    <2> HIDE DEF w, e
    <2>3. /\ DOMAIN w.Txs = 1..(Len(v.Txs) + 1) /\ w.Txs # << >>
          /\ w.Txs[Len(v.Txs) + 1] = e
          /\ \A j \in DOMAIN v.Txs : w.Txs[j] = v.Txs[j]
          /\ DOMAIN v.Txs = 1..Len(v.Txs) /\ Len(v.Txs) \in Nat
        BY <1>2, <2>1, <2>2
    <2>4. \A j \in DOMAIN w.Txs : j \in DOMAIN v.Txs \/ j = Len(v.Txs) + 1
        BY <2>3
    <2>5. \A j \in DOMAIN w.Txs : w.Txs[j].obs \in reports
        BY <2>2, <2>3, <2>4 DEF Sourced
    <2>6. w.Tx = v.Tx
        BY <1>1 DEF Voter
    <2>7. Sourced(w)
        BY <2>3, <2>5, <2>6 DEF Sourced
    <2> QED
        BY <2>3, <2>7 DEF w
<1> QED
    BY <1>3, <1>4

(* What is agreed on is one of the reports, up to its memo.                *)
LEMMA TallySourced ==
    ASSUME NEW v \in Voter, VoterInv(v), Sourced(v), v.Txs # << >>,
           \A o1, o2 \in reports : SamePay(o1, o2),
           NEW s, NEW nas, NEW o, NEW n \in Node
    PROVE  SourcedStep(v, TallyIn(v, s, nas, o, n).voter)
<1> DEFINE r == TallyIn(v, s, nas, o, n)
           g == GetTx(v, nas)
           fin  == [v EXCEPT !.Height = now, !.FinalisedHeight = now, !.Tx = g]
           disc == [v EXCEPT !.Height = now, !.Tx = g]
           late == [v EXCEPT !.Tx.signers = @ \cup {n}]
<1>1. \/ r.voter = fin /\ g # NoTx /\ v.FinalisedHeight = 0
      \/ r.voter = v
      \/ r.voter = late /\ v.Tx # NoTx
      \/ r.voter = disc /\ g # NoTx /\ v.FinalisedHeight = 0
    BY DEF TallyIn, VoterInv, Settle, AcceptLate, HasFinalised, HasConsensus
<1>2. g # NoTx => g = v.Tx \/ \E i \in DOMAIN v.Txs : g = v.Txs[i]
    BY ConsensusTxType DEF GetTx
<1>3. g # NoTx => \A q \in reports : SamePay(q, g.obs)
    BY <1>2 DEF Sourced
<1> HIDE DEF r
<1>4. ASSUME NEW w, w.Tx = g, g # NoTx, w.Txs = v.Txs, v.FinalisedHeight = 0,
             w.UpdatedVault = v.UpdatedVault, w.Reverted = v.Reverted
      PROVE  SourcedStep(v, w)
    BY <1>3, <1>4 DEF SourcedStep, Sourced
<1>5. CASE r.voter = fin /\ g # NoTx /\ v.FinalisedHeight = 0
    <2>1. /\ fin.Tx = g /\ fin.Txs = v.Txs
          /\ fin.UpdatedVault = v.UpdatedVault /\ fin.Reverted = v.Reverted
        BY DEF Voter
    <2> HIDE DEF fin, g
    <2> QED
        BY <1>4, <1>5, <2>1 DEF r
<1>6. CASE r.voter = disc /\ g # NoTx /\ v.FinalisedHeight = 0
    <2>1. /\ disc.Tx = g /\ disc.Txs = v.Txs
          /\ disc.UpdatedVault = v.UpdatedVault /\ disc.Reverted = v.Reverted
        BY DEF Voter
    <2> HIDE DEF disc, g
    <2> QED
        BY <1>4, <1>6, <2>1 DEF r
<1>7. CASE r.voter = v
    BY <1>7 DEF SourcedStep, r
<1>8. CASE r.voter = late /\ v.Tx # NoTx
    <2>1. v.Tx \in ObservedTx
        BY <1>8 DEF Voter
    <2>2. [v.Tx EXCEPT !.signers = @ \cup {n}] \in ObservedTx
        BY <2>1 DEF ObservedTx
    <2>3. /\ late.Tx = [v.Tx EXCEPT !.signers = @ \cup {n}] /\ late.Txs = v.Txs
          /\ late.UpdatedVault = v.UpdatedVault /\ late.Reverted = v.Reverted
        BY DEF Voter
    <2>4. late.Tx.obs = v.Tx.obs /\ late.Tx # NoTx
        BY <2>1, <2>2, <2>3, InAssumption DEF ObservedTx
    <2> HIDE DEF late
    <2> QED
        BY <1>8, <2>3, <2>4 DEF SourcedStep, Sourced, r
<1> QED
    BY <1>1, <1>5, <1>6, <1>7, <1>8

(* So for a whole attestation.                                             *)
LEMMA AttestationSourced ==
    ASSUME NEW v \in Voter, VoterInv(v), Sourced(v),
           \A o1, o2 \in reports : SamePay(o1, o2),
           NEW nas, NEW o \in reports, o \in Observation, NEW n \in Node,
           NEW d \in BOOLEAN, NEW r, r = processTxInAttestation(v, nas, o, n, d)
    PROVE  SourcedStep(v, r.voter)
<1>1. CASE AlreadySigned(v, o, n)
    <2>1. r.voter = v
        BY <1>1 DEF processTxInAttestation
    <2> QED
        BY <2>1 DEF SourcedStep
<1>2. CASE ~AlreadySigned(v, o, n)
    <2> DEFINE w == Add(v, o, n)
               charged == IncSlashPoints(slash, ObservePoints, {n})
    <2>1. r = TallyIn(w, charged, nas, o, n)
        BY <1>2 DEF processTxInAttestation
    <2>2. w \in Voter /\ w = [v EXCEPT !.Txs = w.Txs]
        BY AddType
    <2>3. Sourced(w) /\ w.Txs # << >>
        BY AddSourced
    <2> HIDE DEF w, charged
    <2>4. /\ w.Tx = v.Tx /\ w.Height = v.Height
          /\ w.FinalisedHeight = v.FinalisedHeight
          /\ w.UpdatedVault = v.UpdatedVault /\ w.Reverted = v.Reverted
        BY <2>2 DEF Voter
    <2>5. VoterInv(w)
        BY <2>4 DEF VoterInv
    <2>6. SourcedStep(w, r.voter)
        BY <2>1, <2>2, <2>3, <2>5, TallySourced
    <2> QED
        BY <2>4, <2>6 DEF SourcedStep
<1> QED
    BY <1>1, <1>2

(* The funds are accounted for after an attestation as they were before.   *)
LEMMA FundsAfterAttestation ==
    ASSUME NEW v, VoterInv(v), FinalMarked(v), FundsOf(v),
           NEW w, SourcedStep(v, w), Sourced(v), NEW o \in reports
    PROVE  FundsOf(w)
<1>1. SelfPaid(v) => SelfPaid(w)
    BY DEF SelfPaid, SourcedStep, FinalMarked
<1>2. v.Tx # NoTx => SamePay(w.Tx.obs, v.Tx.obs)
    BY DEF Sourced, SourcedStep, SamePay
<1>3. v.Tx # NoTx /\ CreditedTo(v.Tx.obs) => CreditedTo(w.Tx.obs)
    BY <1>2 DEF CreditedTo, SamePay
<1> QED
    BY <1>1, <1>3 DEF FundsOf, SourcedStep

(* A handler leaves the funds accounted for: it credits the vault of the   *)
(* agreed tx, or marks a consolidation as handled.                         *)
LEMMA HandleFunds ==
    ASSUME TypeOK, NEW v \in Voter, VoterInv(v), Sourced(v), FundsOf(v),
           NEW o \in reports, o \in Observation, NEW S, NEW c \in BOOLEAN, NEW a,
           c => /\ v.Tx # NoTx
                /\ HasFinalised(v, active) => v.FinalisedHeight # 0
                /\ ~v.Reverted /\ credits = << >> => ~v.UpdatedVault,
           handleObservedTxInQuorum(v, o, S, c, a), reports' = reports
    PROVE  Sourced(voter)' /\ FundsOf(voter)'
<1>1. CASE voter' = v /\ UNCHANGED <<credits, funds>>
    BY <1>1 DEF Sourced, FundsOf, Untouched, SelfPaid, CreditedTo
<1>2. CASE /\ c /\ ~v.Reverted /\ AddFunds(v, o)
           /\ voter' \in {CrossedVoter(v, o), SetDone(CrossedVoter(v, o))}
    <2>1. PICK w : w = voter'
        OBVIOUS
    <2>2. /\ KeepsTx(v, w) /\ w.Txs = v.Txs /\ w.Reverted = v.Reverted
          /\ IsFinal(w.Tx.obs) = IsFinal(v.Tx.obs)
        BY <1>2, <2>1, CrossedStep
    <2>3. /\ w.Tx # NoTx /\ w.UpdatedVault = (v.UpdatedVault \/ CreditDue(v, o))
          /\ w.Tx.obs.body.memo = o.body.memo
        <3> DEFINE x == CrossedVoter(v, o)
        <3>1. /\ x \in Voter /\ VoterInv(x) /\ x.Tx \in ObservedTx /\ x.Tx # NoTx
              /\ x.UpdatedVault = (v.UpdatedVault \/ CreditDue(v, o))
            BY <1>2, CrossedVoterType
        <3>2. x.Tx.obs.body.memo = o.body.memo
            <4>1. v.Tx \in ObservedTx
                BY <1>2 DEF Voter
            <4>2. x.Tx = [v.Tx EXCEPT !.obs.body.memo = o.body.memo]
                BY DEF CrossedVoter, Voter
            <4> QED
                BY <4>1, <4>2 DEF ObservedTx, Observation, Body
        <3> HIDE DEF x
        <3>3. CASE w = x
            BY <3>1, <3>2, <3>3
        <3>4. CASE w = SetDone(x)
            <4>1. w = [x EXCEPT !.Tx.status = "done"]
                BY <3>1, <3>4 DEF SetDone, setStatus
            <4>2. w.Tx = [x.Tx EXCEPT !.status = "done"] /\ w.UpdatedVault = x.UpdatedVault
                BY <3>1, <4>1 DEF Voter
            <4>3. w.Tx \in ObservedTx /\ w.Tx.obs = x.Tx.obs
                BY <3>1, <4>2 DEF ObservedTx, Status
            <4> QED
                BY <3>1, <3>2, <4>2, <4>3, InAssumption
        <3> QED
            BY <1>2, <2>1, <3>3, <3>4 DEF x
    <2>4. SamePay(o, v.Tx.obs) /\ SamePay(w.Tx.obs, v.Tx.obs)
        BY <1>2, <2>2 DEF Sourced, KeepsTx, SameButMemo, SamePay
    <2>5. \A q \in reports : SamePay(q, w.Tx.obs)
        BY <1>2, <2>4 DEF Sourced, SamePay
    <2>6. Sourced(voter)'
        BY <1>2, <2>1, <2>2, <2>5 DEF Sourced
    <2>7. CASE v.UpdatedVault
        <3>1. credits # << >> /\ CreditedTo(v.Tx.obs)
            BY <1>2, <2>7 DEF FundsOf
        <3>2. UNCHANGED <<funds, credits>>
            BY <1>2, <2>7 DEF AddFunds, CreditDue
        <3>3. CreditedTo(voter.Tx.obs)'
            BY <2>1, <2>4, <3>1, <3>2 DEF CreditedTo, SamePay
        <3> QED
            BY <1>2, <2>1, <2>2, <2>3, <2>6, <2>7, <3>1, <3>2, <3>3 DEF FundsOf
    <2>8. CASE ~v.UpdatedVault
        <3>1. credits = << >> /\ Untouched
            BY <1>2, <2>8 DEF FundsOf
        <3>2. CASE CreditDue(v, o) /\ ~FromEqualsTo(o.body.memo)
            <4>1. /\ funds' = [funds EXCEPT ![o.pubkey] = @ + o.body.coins]
                  /\ credits' = Append(credits, <<o.pubkey, o.body.coins>>)
                BY <1>2, <3>2 DEF AddFunds
            <4>2. credits' # << >>
                <5>1. credits \in Seq(Vault \X Amount) /\ <<o.pubkey, o.body.coins>> \in Vault \X Amount
                    BY DEF TypeOK, Observation, Body
                <5> QED
                    BY <4>1, <5>1
            <4>3. \A u \in Vault : funds'[u] = IF u = o.pubkey THEN BaseFunds + o.body.coins ELSE BaseFunds
                BY <3>1, <4>1 DEF TypeOK, Untouched
            <4>4. CreditedTo(voter.Tx.obs)'
                BY <2>1, <2>4, <4>3 DEF CreditedTo, SamePay
            <4> QED
                BY <1>2, <2>1, <2>2, <2>3, <2>6, <3>2, <4>2, <4>4 DEF FundsOf
        <3>3. CASE CreditDue(v, o) /\ FromEqualsTo(o.body.memo)
            <4>1. UNCHANGED <<funds, credits>>
                BY <1>2, <3>3 DEF AddFunds
            <4>2. HasFinalised(v, active)
                BY <3>3 DEF CreditDue, FromEqualsTo
            <4>3. IsFinal(w.Tx.obs)
                BY <1>2, <2>2, <4>2 DEF VoterInv
            <4>4. SelfPaid(w)
                BY <2>3, <3>3, <4>3 DEF SelfPaid
            <4>5. Untouched'
                BY <3>1, <4>1 DEF Untouched
            <4>6. SelfPaid(voter')
                BY <2>1, <4>4
            <4> QED
                BY <1>2, <2>1, <2>2, <2>3, <2>6, <3>1, <4>1, <4>5, <4>6 DEF FundsOf
        <3>4. CASE ~CreditDue(v, o)
            <4>1. UNCHANGED <<funds, credits>>
                BY <1>2, <3>4 DEF AddFunds
            <4>2. Untouched'
                BY <3>1, <4>1 DEF Untouched
            <4> QED
                BY <1>2, <2>1, <2>2, <2>3, <2>6, <2>8, <3>1, <3>4, <4>1, <4>2 DEF FundsOf
        <3> QED
            BY <3>2, <3>3, <3>4
    <2> QED
        BY <2>7, <2>8 DEF Voter
<1>3. \/ voter' = v /\ UNCHANGED <<credits, funds>>
      \/ /\ c /\ ~v.Reverted /\ AddFunds(v, o)
         /\ voter' \in {CrossedVoter(v, o), SetDone(CrossedVoter(v, o))}
    BY DEF handleObservedTxInQuorum, SkipReverted
<1> QED
    BY <1>1, <1>2, <1>3

(* Reverting takes back what was credited.                                 *)
LEMMA RevertFunds ==
    ASSUME IInv, StableInv, FundsInv, NEW n, NEW d, NEW f, ErrataRevert(n, d, f),
           UNCHANGED <<credits, reports>>
    PROVE  Sourced(voter)' /\ FundsOf(voter)'
<1>1. voter \in Voter /\ funds \in [Vault -> Nat] /\ BaseFunds \in Nat /\ ~voter.Reverted
    BY InAssumption DEF IInv, TypeOK, StableInv, ErrataRevert
<1> DEFINE debit == ErrataDebit(voter, funds)
           tx == voter.Tx
<1>2. /\ voter' = IF Len(voter.Txs) > 0 THEN SetReverted(voter) ELSE voter
      /\ \/ funds' = debit
         \/ /\ Len(voter.Txs) > 0 /\ tx # NoTx /\ SelfPaid(voter)
            /\ funds' = [debit EXCEPT ![tx.obs.pubkey] = @ + tx.obs.body.coins]
    BY DEF ErrataRevert, SelfPaid
<1>3. voter.Tx # NoTx => Len(voter.Txs) > 0
    BY <1>1 DEF FundsInv, Sourced, Voter
<1>4. CASE Len(voter.Txs) = 0
    <2>1. voter' = voter /\ funds' = funds
        BY <1>2, <1>3, <1>4 DEF ErrataDebit
    <2> QED
        BY <2>1 DEF FundsInv, Sourced, FundsOf, Untouched, SelfPaid, CreditedTo
<1>5. CASE Len(voter.Txs) > 0
    <2>1. PICK w : w = voter'
        OBVIOUS
    <2>2. w = SetReverted(voter)
        BY <1>2, <1>5, <2>1
    <2>3. /\ w.Txs = voter.Txs /\ w.UpdatedVault = voter.UpdatedVault /\ w.Reverted
          /\ (w.Tx = NoTx) = (voter.Tx = NoTx)
          /\ voter.Tx # NoTx => w.Tx.obs = voter.Tx.obs
        BY <1>1, <2>2, RevertedVoter
    <2>4. Sourced(voter)'
        BY <2>1, <2>3 DEF FundsInv, Sourced
    <2>5. SelfPaid(voter) => SelfPaid(w)
        BY <2>3 DEF SelfPaid
    <2>6. ~SelfPaid(voter) => Untouched'
        <3> SUFFICES ASSUME ~SelfPaid(voter) PROVE Untouched'
            OBVIOUS
        <3>1. funds' = debit
            BY <1>2
        <3>2. CASE ~voter.UpdatedVault
            <4>1. funds' = funds
                BY <3>1, <3>2 DEF ErrataDebit
            <4> QED
                BY <1>1, <3>2, <4>1 DEF FundsInv, FundsOf, Untouched
        <3>3. CASE voter.UpdatedVault
            <4>1. tx # NoTx /\ CreditedTo(tx.obs)
                BY <1>1, <3>3 DEF FundsInv, FundsOf
            <4>2. tx.obs.pubkey \in Vault /\ tx.obs.body.coins \in Nat
                BY <1>1, <4>1, InAssumption DEF Voter, ObservedTx, Observation, Body
            <4>3. funds' = [funds EXCEPT ![tx.obs.pubkey] = SafeSub(@, tx.obs.body.coins)]
                BY <3>1, <3>3, <4>1 DEF ErrataDebit
            <4>4. SafeSub(BaseFunds + tx.obs.body.coins, tx.obs.body.coins) = BaseFunds
                BY <1>1, <4>2 DEF SafeSub
            <4> QED
                BY <1>1, <4>1, <4>2, <4>3, <4>4 DEF CreditedTo, Untouched
        <3> QED
            BY <3>2, <3>3
    <2>7. SelfPaid(w) => SelfPaid(voter')
        BY <2>1
    <2> QED
        BY <2>1, <2>3, <2>4, <2>5, <2>6, <2>7 DEF FundsInv, FundsOf
<1> QED
    BY <1>1, <1>4, <1>5 DEF Voter

(* Every step keeps the funds accounted for.                               *)
LEMMA NextFunds ==
    ReportsAgree /\ IInv /\ StableInv /\ FundsInv /\ [Next]_vars => FundsInv'
<1> SUFFICES ASSUME ReportsAgree, IInv, StableInv, FundsInv, [Next]_vars PROVE FundsInv'
    OBVIOUS
<1>0. /\ voter \in Voter /\ VoterInv(voter) /\ FinalMarked(voter) /\ now \in Nat \ {0}
      /\ Sourced(voter) /\ FundsOf(voter)
    BY DEF IInv, TypeOK, StableInv, FundsInv
<1>1. reports' = reports /\ reports \subseteq Observation /\ \A o1, o2 \in reports : SamePay(o1, o2)
    <2>1. reports \in Scenarios
        BY DEF IInv, TypeOK
    <2>2. reports' = reports
        BY DEF Next, ObservedTxInMsg, QuorumBegin, QuorumAttest, QuorumEnd, ErrataTx, NextBlock, Churn,
               VaultInactive, chainVars, vars
    <2> QED
        BY <2>1, <2>2, InAssumption DEF ReportsAgree
<1>2. ASSUME UNCHANGED <<voter, credits, funds>>,
             msg' # NoMsg => msg'.tx \in reports,
             msg' # NoMsg => ~msg'.crossed
      PROVE  FundsInv'
    BY <1>1, <1>2 DEF FundsInv, Sourced, FundsOf, Untouched, SelfPaid, CreditedTo
<1>3. ASSUME NEW n \in Node, NEW o \in reports, NEW a \in Answers,
             ObservedTxInMsg(n, o, a)
      PROVE  FundsInv'
    <2>1. PICK r : r = processTxInAttestation(voter, active, o, n, TRUE)
        OBVIOUS
    <2>2. o \in Observation
        BY <1>1
    <2>3. PICK S : handleObservedTxInQuorum(r.voter, o, S, r.ok, a)
        BY <1>3, <2>1 DEF ObservedTxInMsg
    <2>4. /\ AttestationFacts(voter, r, active)
          /\ \/ r.voter = voter /\ r.ok = FALSE
             \/ HasFinalised(r.voter, active) => r.voter.FinalisedHeight # 0
        BY <1>0, <2>1, <2>2, AttestationLemma DEF IInv, TypeOK
    <2>5. SourcedStep(voter, r.voter)
        BY <1>0, <1>1, <2>1, <2>2, AttestationSourced
    <2>6. Sourced(r.voter) /\ FundsOf(r.voter)
        BY <1>0, <2>5, FundsAfterAttestation DEF SourcedStep
    <2>7. /\ r.voter \in Voter /\ VoterInv(r.voter) /\ r.ok \in BOOLEAN
          /\ r.ok => voter.FinalisedHeight = 0 /\ r.voter.Tx # NoTx
          /\ r.voter.UpdatedVault = voter.UpdatedVault /\ r.voter.Reverted = voter.Reverted
        BY <2>4 DEF AttestationFacts
    <2>8. r.ok /\ ~r.voter.Reverted /\ credits = << >> => ~r.voter.UpdatedVault
        BY <1>0, <2>7 DEF FundsOf, SelfPaid, FinalMarked
    <2>9. r.ok /\ HasFinalised(r.voter, active) => r.voter.FinalisedHeight # 0
        BY <2>4
    <2>10. Sourced(voter)' /\ FundsOf(voter)'
        BY <1>1, <2>2, <2>3, <2>6, <2>7, <2>8, <2>9, HandleFunds DEF IInv
    <2>11. msg' = NoMsg
        BY <1>3 DEF ObservedTxInMsg, CanSend
    <2> QED
        BY <2>10, <2>11 DEF FundsInv
<1>4. ASSUME NEW o \in reports, NEW S \in SUBSET Node \ {{}}, QuorumBegin(o, S)
      PROVE  FundsInv'
    <2>1. msg'.tx = o /\ ~msg'.crossed /\ UNCHANGED <<voter, credits, funds>>
        BY <1>4 DEF QuorumBegin
    <2> QED
        BY <1>2, <2>1
<1>5. ASSUME NEW n \in Node, QuorumAttest(n) PROVE FundsInv'
    <2>1. msg \in QuorumMsg /\ msg # NoMsg /\ UNCHANGED <<credits, funds>>
        BY <1>5 DEF QuorumAttest, IInv, TypeOK
    <2>2. msg.tx \in reports /\ msg.tx \in Observation
        BY <1>1, <2>1 DEF FundsInv
    <2>3. CASE n \notin active
        <3>1. msg' = [msg EXCEPT !.left = @ \ {n}] /\ voter' = voter
            BY <1>5, <2>3 DEF QuorumAttest
        <3>2. msg'.tx = msg.tx /\ msg'.crossed = msg.crossed
            BY <2>1, <3>1 DEF QuorumMsg
        <3> QED
            BY <1>1, <2>1, <2>2, <3>1, <3>2
            DEF FundsInv, Sourced, FundsOf, Untouched, SelfPaid, CreditedTo
    <2>4. CASE n \in active
        <3>1. PICK r : r = processTxInAttestation(voter, active, msg.tx, n, FALSE)
            OBVIOUS
        <3>2. /\ voter' = r.voter
              /\ msg' = [msg EXCEPT !.left = @ \ {n}, !.seen = @ \cup {n},
                                    !.crossed = @ \/ r.ok]
            BY <1>5, <2>4, <3>1 DEF QuorumAttest
        <3>3. msg'.tx = msg.tx /\ msg'.crossed = (msg.crossed \/ r.ok)
            BY <2>1, <3>2 DEF QuorumMsg
        <3>4. AttestationFacts(voter, r, active)
            BY <1>0, <2>2, <3>1, AttestationLemma DEF IInv, TypeOK
        <3>5. SourcedStep(voter, r.voter)
            BY <1>0, <1>1, <2>2, <3>1, AttestationSourced
        <3>6. Sourced(r.voter) /\ FundsOf(r.voter)
            BY <1>0, <2>2, <3>5, FundsAfterAttestation DEF SourcedStep
        <3>7. /\ r.ok => voter.FinalisedHeight = 0
              /\ r.voter.UpdatedVault = voter.UpdatedVault /\ r.voter.Reverted = voter.Reverted
            BY <3>4 DEF AttestationFacts
        <3>8. r.ok /\ ~voter.Reverted /\ credits = << >> => ~voter.UpdatedVault
            BY <1>0, <3>7 DEF FundsOf, SelfPaid, FinalMarked
        <3>9. Sourced(voter)' /\ FundsOf(voter)'
            BY <1>1, <2>1, <3>2, <3>6 DEF Sourced, FundsOf, Untouched, SelfPaid, CreditedTo
        <3>10. (msg # NoMsg /\ msg.crossed /\ ~voter.Reverted /\ credits = << >>)' => ~voter'.UpdatedVault
            BY <2>1, <3>2, <3>3, <3>7, <3>8 DEF FundsInv
        <3> QED
            BY <1>1, <2>2, <3>3, <3>9, <3>10 DEF FundsInv
    <2> QED
        BY <2>3, <2>4
<1>6. ASSUME NEW a \in Answers, QuorumEnd(a) PROVE FundsInv'
    <2>1. msg \in QuorumMsg /\ msg # NoMsg /\ msg' = NoMsg
        BY <1>6 DEF QuorumEnd, IInv, TypeOK
    <2>2. /\ msg.tx \in reports /\ msg.tx \in Observation /\ msg.crossed \in BOOLEAN
          /\ msg.crossed => /\ voter.Tx # NoTx
                            /\ HasFinalised(voter, active) => voter.FinalisedHeight # 0
                            /\ ~voter.Reverted /\ credits = << >> => ~voter.UpdatedVault
        BY <1>1, <2>1 DEF FundsInv, QuorumMsg, IInv, CrossedInv
    <2>3. handleObservedTxInQuorum(voter, msg.tx, msg.seen, msg.crossed, a)
        BY <1>6 DEF QuorumEnd
    <2>4. Sourced(voter)' /\ FundsOf(voter)'
        BY <1>0, <1>1, <2>2, <2>3, HandleFunds DEF IInv
    <2> QED
        BY <2>1, <2>4 DEF FundsInv
<1>7. ASSUME NEW n \in Node, NEW d \in BOOLEAN, NEW f \in BOOLEAN,
             ErrataTx(n, d, f)
      PROVE  FundsInv'
    <2>1. msg' = NoMsg /\ UNCHANGED credits
        BY <1>7 DEF ErrataTx, CanSend
    <2>2. CASE ErrataVote(n, d)
        BY <1>2, <2>1, <2>2 DEF ErrataVote
    <2>3. CASE ErrataRevert(n, d, f)
        <3>1. Sourced(voter)' /\ FundsOf(voter)'
            BY <1>1, <2>1, <2>3, RevertFunds
        <3> QED
            BY <2>1, <3>1 DEF FundsInv
    <2> QED
        BY <1>7, <2>2, <2>3 DEF ErrataTx
<1>8. CASE NextBlock \/ (\E S \in SUBSET Node : Churn(S)) \/ (\E v \in Vault : VaultInactive(v))
    <2>1. msg' = NoMsg /\ UNCHANGED <<voter, credits, funds>>
        BY <1>8 DEF NextBlock, Churn, VaultInactive
    <2> QED
        BY <1>2, <2>1
<1>9. CASE UNCHANGED vars
    BY <1>9 DEF FundsInv, Sourced, FundsOf, Untouched, SelfPaid, CreditedTo, vars
<1> QED
    BY <1>3, <1>4, <1>5, <1>6, <1>7, <1>8, <1>9 DEF Next

-----------------------------------------------------------------------------
(* While nobody churns, the vote that crosses is one for the agreed tx     *)

(* A class of observations with a super majority has been settled.         *)
CountInv(v) ==
    /\ \A i \in DOMAIN v.Txs : HasClassMajority(v, active, TRUE, i) => v.FinalisedHeight # 0
    /\ \A i \in DOMAIN v.Txs : HasClassMajority(v, active, FALSE, i) => v.Height # 0
    /\ v.Tx # NoTx => v.Height # 0
    /\ v.FinalisedHeight # 0 => v.Height # 0

(* The agreed tx has the body of o, which is in the voter and attested.    *)
Agreed(v, o) ==
    /\ v.Tx # NoTx /\ v.Tx.obs.body = o.body
    /\ \E j \in DOMAIN v.Txs : v.Txs[j].obs.body = o.body
    /\ Attested(v, o.body)

NoChurnInv ==
    /\ CountInv(voter)
    /\ msg # NoMsg /\ msg.crossed => Agreed(voter, msg.tx)

(* An entry whose class has a super majority is found by the loop.         *)
LEMMA ConsensusTxExists ==
    ASSUME NEW v \in Voter, NEW nas, NEW f \in BOOLEAN, NEW i \in DOMAIN v.Txs,
           HasClassMajority(v, nas, f, i)
    PROVE  getConsensusTx(v, nas, f) # NoTx
<1> DEFINE good  == {j \in DOMAIN v.Txs : HasClassMajority(v, nas, f, j)}
           first == {j \in good : \A h \in good : j <= h}
           k == CHOOSE j \in first : TRUE
<1>1. v.Txs \in Seq(ObservedTx)
    BY DEF Voter
<1>2. good \subseteq Nat /\ good \subseteq DOMAIN v.Txs /\ good # {}
    BY <1>1
<1> HIDE DEF good
<1>3. PICK x \in good : \A y \in good : ~(<<y, x>> \in OpToRel(<, Nat))
    BY <1>2, NatLessThanWellFounded, WFMin
<1>4. \A y \in good : y < x => <<y, x>> \in OpToRel(<, Nat)
    BY <1>2 DEF OpToRel
<1>5. \A y \in good : x <= y
    <2>1. \A y \in good : ~(y < x)
        BY <1>3, <1>4
    <2>2. x \in Nat /\ \A y \in good : y \in Nat
        BY <1>2
    <2> QED
        BY <2>1, <2>2
<1>6. first # {}
    BY <1>5
<1>7. k \in first
    BY <1>6
<1>8. getConsensusTx(v, nas, f) = v.Txs[k]
    BY <1>6 DEF getConsensusTx, good
<1>9. k \in DOMAIN v.Txs
    BY <1>2, <1>7
<1>10. v.Txs[k] \in ObservedTx
    BY <1>1, <1>9
<1> QED
    BY <1>8, <1>10, InAssumption

(* So a super majority of either form is consensus, one of the final form  *)
(* is finality.                                                            *)
LEMMA MajorityCounts ==
    ASSUME NEW v \in Voter, NEW nas, NEW i \in DOMAIN v.Txs
    PROVE  /\ HasClassMajority(v, nas, TRUE, i) => HasFinalised(v, nas)
           /\ HasClassMajority(v, nas, FALSE, i) => HasConsensus(v, nas)
<1>1. ASSUME HasClassMajority(v, nas, TRUE, i) PROVE HasFinalised(v, nas)
    <2>1. getConsensusTx(v, nas, TRUE) # NoTx
        BY <1>1, ConsensusTxExists
    <2>2. IsFinal(getConsensusTx(v, nas, TRUE).obs)
        BY <2>1, ConsensusTxType
    <2> QED
        BY <2>1, <2>2 DEF HasFinalised, GetTx
<1>2. ASSUME HasClassMajority(v, nas, FALSE, i) PROVE HasConsensus(v, nas)
    <2>1. getConsensusTx(v, nas, FALSE) # NoTx
        BY <1>2, ConsensusTxExists
    <2> QED
        BY <2>1 DEF HasConsensus, GetTx
<1> QED
    BY <1>1, <1>2

(* What Add does to the entries, one by one.                               *)
AddedTo(v, w, o, n) ==
    /\ \A i \in DOMAIN v.Txs : /\ i \in DOMAIN w.Txs /\ w.Txs[i].obs = v.Txs[i].obs
                               /\ v.Txs[i].signers \subseteq w.Txs[i].signers
    /\ \A i \in DOMAIN w.Txs : w.Txs[i].obs = o \/ (i \in DOMAIN v.Txs /\ w.Txs[i] = v.Txs[i])
    /\ \E k \in DOMAIN w.Txs : w.Txs[k].obs = o /\ n \in w.Txs[k].signers
    /\ \A i \in DOMAIN w.Txs : \A m \in w.Txs[i].signers :
          m = n \/ (i \in DOMAIN v.Txs /\ m \in v.Txs[i].signers)
    /\ w.Tx = v.Tx /\ w.Height = v.Height /\ w.FinalisedHeight = v.FinalisedHeight
    /\ w.UpdatedVault = v.UpdatedVault /\ w.Reverted = v.Reverted

(* Add changes the entry of the observation, or appends one.               *)
LEMMA AddEntries ==
    ASSUME NEW v \in Voter, NEW o \in Observation, NEW n \in Node
    PROVE  AddedTo(v, Add(v, o, n), o, n)
<1> DEFINE w == Add(v, o, n)
           i == VotedIdx(v, o)
<1>1. w \in Voter /\ w = [v EXCEPT !.Txs = w.Txs]
    BY AddType
<1>2. v.Txs \in Seq(ObservedTx) /\ w.Txs \in Seq(ObservedTx)
    BY <1>1 DEF Voter
<1>3. CASE i # 0
    <2>1. i \in DOMAIN v.Txs /\ v.Txs[i].obs = o
        BY <1>3 DEF VotedIdx
    <2>2. v.Txs[i] \in ObservedTx
        BY <1>2, <2>1
    <2> DEFINE e == [v.Txs[i] EXCEPT !.signers = @ \cup {n}]
    <2>3. w.Txs = [v.Txs EXCEPT ![i] = e]
        BY <1>3 DEF Add, Voter
    <2>4. e.obs = o /\ e.signers = v.Txs[i].signers \cup {n}
        BY <2>1, <2>2 DEF ObservedTx
    <2> HIDE DEF w, e, i
    <2>5. /\ DOMAIN w.Txs = DOMAIN v.Txs /\ w.Txs[i] = e
          /\ \A j \in DOMAIN v.Txs : j # i => w.Txs[j] = v.Txs[j]
        BY <1>2, <2>1, <2>3
    <2>6. /\ w.Tx = v.Tx /\ w.Height = v.Height /\ w.FinalisedHeight = v.FinalisedHeight
          /\ w.UpdatedVault = v.UpdatedVault /\ w.Reverted = v.Reverted
        BY <1>1 DEF Voter
    <2> QED
        BY <2>1, <2>4, <2>5, <2>6 DEF AddedTo, w
<1>4. CASE i = 0
    <2> DEFINE e == [obs |-> o, signers |-> {n}, status |-> "incomplete"]
    <2>1. w.Txs = Append(v.Txs, e)
        BY <1>4 DEF Add, Voter
    <2>2. e \in ObservedTx /\ e.obs = o /\ e.signers = {n}
        BY DEF ObservedTx, Status
    <2> HIDE DEF w, e
    <2>3. /\ DOMAIN w.Txs = 1..(Len(v.Txs) + 1)
          /\ w.Txs[Len(v.Txs) + 1] = e
          /\ \A j \in DOMAIN v.Txs : w.Txs[j] = v.Txs[j]
          /\ DOMAIN v.Txs = 1..Len(v.Txs) /\ Len(v.Txs) \in Nat
        BY <1>2, <2>1, <2>2
    <2>4. /\ \A j \in DOMAIN w.Txs : j \in DOMAIN v.Txs \/ j = Len(v.Txs) + 1
          /\ \A j \in DOMAIN v.Txs : j \in DOMAIN w.Txs
          /\ Len(v.Txs) + 1 \in DOMAIN w.Txs
        BY <2>3
    <2>5. /\ w.Tx = v.Tx /\ w.Height = v.Height /\ w.FinalisedHeight = v.FinalisedHeight
          /\ w.UpdatedVault = v.UpdatedVault /\ w.Reverted = v.Reverted
        BY <1>1 DEF Voter
    <2> QED
        BY <2>2, <2>3, <2>4, <2>5 DEF AddedTo, w
<1> QED
    BY <1>3, <1>4

(* A vote moves the count of its own class only.                           *)
LEMMA ClassUnmoved ==
    ASSUME NEW v, NEW w, NEW o, NEW n, AddedTo(v, w, o, n), NEW nas,
           NEW f \in BOOLEAN, NEW i \in DOMAIN w.Txs, HasClassMajority(w, nas, f, i),
           w.Txs[i].obs.body # o.body \/ f # IsFinal(o)
    PROVE  i \in DOMAIN v.Txs /\ HasClassMajority(v, nas, f, i)
<1>1. IsFinal(w.Txs[i].obs) = f
    BY DEF HasClassMajority
<1>2. i \in DOMAIN v.Txs /\ w.Txs[i] = v.Txs[i]
    BY <1>1 DEF AddedTo
<1>3. ClassSigners(w, w.Txs[i].obs, f) = ClassSigners(v, v.Txs[i].obs, f)
    BY <1>1, <1>2 DEF AddedTo, ClassSigners, EqualsEx
<1> QED
    BY <1>2, <1>3 DEF HasClassMajority

(* More signers do not undo what two thirds attested.                      *)
LEMMA AttestedGrows ==
    ASSUME NEW v, NEW w, NEW b, Attested(v, b), active \in SUBSET Node,
           \A i \in DOMAIN v.Txs : /\ i \in DOMAIN w.Txs /\ w.Txs[i].obs = v.Txs[i].obs
                                   /\ v.Txs[i].signers \subseteq w.Txs[i].signers
    PROVE  Attested(w, b)
<1> DEFINE S(x) == {n \in Node : \E i \in DOMAIN x.Txs :
                       x.Txs[i].obs.body = b /\ n \in x.Txs[i].signers}
<1>1. S(v) \cap active \subseteq S(w) \cap active
    OBVIOUS
<1>2. IsFiniteSet(active)
    BY InAssumption, FS_Subset
<1>3. IsFiniteSet(S(w) \cap active)
    BY <1>2, FS_Subset
<1>4. IsFiniteSet(S(v) \cap active)
    BY <1>2, FS_Subset
<1>5. Cardinality(S(v) \cap active) <= Cardinality(S(w) \cap active)
    BY <1>1, <1>3, FS_Subset
<1>6. /\ Cardinality(S(v) \cap active) \in Nat /\ Cardinality(S(w) \cap active) \in Nat
      /\ Cardinality(active) \in Nat
    BY <1>2, <1>3, <1>4, FS_CardinalityType
<1>7. 3 * Cardinality(S(v) \cap active) >= 2 * Cardinality(active)
    BY DEF Attested, TwoThirds
<1>8. PICK a \in Nat : a = Cardinality(S(v) \cap active)
    BY <1>6
<1>9. PICK c \in Nat : c = Cardinality(S(w) \cap active)
    BY <1>6
<1>10. PICK t \in Nat : t = Cardinality(active)
    BY <1>6
<1>11. 3 * c >= 2 * t
    BY <1>5, <1>7, <1>8, <1>9, <1>10
<1> QED
    BY <1>9, <1>10, <1>11 DEF Attested, TwoThirds

(* A super majority of a class is two thirds attesting its body.           *)
LEMMA MajorityAttests ==
    ASSUME NEW v, NEW f \in BOOLEAN, NEW i \in DOMAIN v.Txs,
           HasClassMajority(v, active, f, i), active \in SUBSET Node
    PROVE  Attested(v, v.Txs[i].obs.body)
<1> DEFINE C == ClassSigners(v, v.Txs[i].obs, f)
           S == {n \in Node : \E j \in DOMAIN v.Txs :
                    v.Txs[j].obs.body = v.Txs[i].obs.body /\ n \in v.Txs[j].signers}
<1>1. C \subseteq S
    BY DEF ClassSigners, EqualsEx
<1>2. HasSuperMajority(Cardinality(C \cap active), Cardinality(active))
    BY DEF HasClassMajority
<1> HIDE DEF C, S
<1>3. IsFiniteSet(active)
    BY InAssumption, FS_Subset
<1>4. IsFiniteSet(C \cap active) /\ IsFiniteSet(S \cap active)
    BY <1>3, FS_Subset
<1>5. Cardinality(C \cap active) <= Cardinality(S \cap active)
    BY <1>1, <1>4, FS_Subset
<1>6. PICK a \in Nat : a = Cardinality(C \cap active)
    BY <1>4, FS_CardinalityType
<1>7. PICK c \in Nat : c = Cardinality(S \cap active)
    BY <1>4, FS_CardinalityType
<1>8. PICK t \in Nat : t = Cardinality(active)
    BY <1>3, FS_CardinalityType
<1>9. 3 * a >= 2 * t
    BY <1>2, <1>6, <1>8, SuperMajorityIsTwoThirds
<1>10. 3 * c >= 2 * t
    BY <1>5, <1>6, <1>7, <1>9
<1> QED
    BY <1>7, <1>8, <1>10 DEF Attested, TwoThirds, S

(* What an attestation does while nobody churns.                           *)
CountStep(v, x, ok, o) ==
    /\ CountInv(x)
    /\ ok => Agreed(x, o)
    /\ ~ok => /\ (v.Tx = NoTx) = (x.Tx = NoTx)
              /\ v.Tx # NoTx => x.Tx.obs = v.Tx.obs
    /\ \A i \in DOMAIN v.Txs : /\ i \in DOMAIN x.Txs /\ x.Txs[i].obs = v.Txs[i].obs
                               /\ v.Txs[i].signers \subseteq x.Txs[i].signers

(* A majority that a vote completes is settled by that vote.               *)
LEMMA TallyCount ==
    ASSUME NEW v \in Voter, VoterInv(v), FinalMarked(v), CountInv(v),
           now \in Nat \ {0}, active \in SUBSET Node,
           NEW o \in Observation, NEW n \in Node, NEW s \in [Node -> Nat],
           NEW w, w = Add(v, o, n), NEW r, r = TallyIn(w, s, active, o, n)
    PROVE  CountStep(v, r.voter, r.ok, o)
<1>1. w \in Voter /\ AddedTo(v, w, o, n)
    BY AddType, AddEntries
<1>2. VoterInv(w) /\ FinalMarked(w)
    BY <1>1 DEF AddedTo, VoterInv, FinalMarked
<1>3. /\ AttestationFacts(w, r, active)
      /\ HasFinalised(r.voter, active) => r.voter.FinalisedHeight # 0
    BY <1>1, <1>2, TallyFacts
<1> DEFINE g == GetTx(w, active)
           fin  == [w EXCEPT !.Height = now, !.FinalisedHeight = now, !.Tx = g]
           disc == [w EXCEPT !.Height = now, !.Tx = g]
           late == [w EXCEPT !.Tx.signers = @ \cup {n}]
           Fin  == /\ r.voter = fin /\ r.ok = TRUE
                   /\ HasFinalised(w, active) /\ w.FinalisedHeight = 0
           Disc == /\ r.voter = disc /\ r.ok = TRUE /\ HasConsensus(w, active)
                   /\ ~HasFinalised(w, active) /\ ~IsFinal(o) /\ w.FinalisedHeight = 0 /\ w.Height = 0
           Late == r.voter = late /\ r.ok = FALSE /\ w.Tx # NoTx
           Same == r.voter = w /\ r.ok = FALSE
<1>4. /\ Fin \/ Disc \/ Late \/ Same
      /\ Late \/ Same =>
            \/ HasFinalised(w, active) /\ w.FinalisedHeight # 0
            \/ ~HasFinalised(w, active) /\ (HasConsensus(w, active) /\ ~IsFinal(o) /\ w.FinalisedHeight = 0 => w.Height # 0)
    <2>1. CASE HasFinalised(w, active)
        BY <2>1, <1>2 DEF TallyIn, Settle, AcceptLate, VoterInv
    <2>2. CASE ~HasFinalised(w, active)
        BY <2>2, <1>2 DEF TallyIn, Settle, AcceptLate, VoterInv
    <2> QED
        BY <2>1, <2>2
<1>5. /\ r.voter.Txs = w.Txs /\ r.voter \in Voter
      /\ w.Height # 0 => r.voter.Height # 0
    <2>1. r.voter \in Voter
        BY <1>3 DEF AttestationFacts
    <2>2. Fin => r.voter.Txs = w.Txs /\ r.voter.Height = now
        BY <1>1 DEF Voter
    <2>3. Disc => r.voter.Txs = w.Txs /\ r.voter.Height = now
        BY <1>1 DEF Voter
    <2>4. Late => r.voter.Txs = w.Txs /\ r.voter.Height = w.Height
        BY <1>1 DEF Voter
    <2> QED
        BY <1>4, <2>1, <2>2, <2>3, <2>4
<1>6. \A i \in DOMAIN w.Txs, f \in BOOLEAN :
        HasClassMajority(r.voter, active, f, i) = HasClassMajority(w, active, f, i)
    BY <1>5 DEF HasClassMajority, ClassSigners
<1>7. ASSUME NEW i \in DOMAIN w.Txs, HasClassMajority(w, active, TRUE, i)
      PROVE  r.voter.FinalisedHeight # 0
    <2>1. HasFinalised(r.voter, active)
        BY <1>5, <1>6, <1>7, MajorityCounts
    <2> QED
        BY <1>3, <2>1
<1>8. r.voter.FinalisedHeight # 0 => r.voter.Height # 0
    <2>1. Fin => r.voter.Height = now
        BY <1>1 DEF Voter
    <2>2. Disc => r.voter.Height = now
        BY <1>1 DEF Voter
    <2>3. Late => r.voter.Height = w.Height /\ r.voter.FinalisedHeight = w.FinalisedHeight
        BY <1>1 DEF Voter
    <2>4. w.FinalisedHeight # 0 => w.Height # 0
        BY <1>1 DEF AddedTo, CountInv
    <2> QED
        BY <1>4, <2>1, <2>2, <2>3, <2>4
<1>9. r.voter.Tx # NoTx => r.voter.Height # 0
    <2>1. Fin => r.voter.Height = now
        BY <1>1 DEF Voter
    <2>2. Disc => r.voter.Height = now
        BY <1>1 DEF Voter
    <2>3. Late => r.voter.Height = w.Height
        BY <1>1 DEF Voter
    <2>4. w.Tx # NoTx => w.Height # 0
        BY <1>1 DEF AddedTo, CountInv
    <2> QED
        BY <1>4, <2>1, <2>2, <2>3, <2>4
<1>10. ASSUME NEW i \in DOMAIN w.Txs, HasClassMajority(w, active, FALSE, i)
       PROVE  r.voter.Height # 0
    <2>1. CASE w.Height # 0
        BY <1>5, <2>1
    <2>2. CASE w.Height = 0
        <3>1. v.Height = 0 /\ w.FinalisedHeight = 0 /\ w.Tx = NoTx
            BY <1>1, <2>2 DEF AddedTo, CountInv
        <3>2. ~(w.Txs[i].obs.body # o.body \/ FALSE # IsFinal(o))
            <4> SUFFICES ASSUME w.Txs[i].obs.body # o.body \/ FALSE # IsFinal(o) PROVE FALSE
                OBVIOUS
            <4>1. i \in DOMAIN v.Txs /\ HasClassMajority(v, active, FALSE, i)
                BY <1>1, <1>10, ClassUnmoved
            <4> QED
                BY <3>1, <4>1 DEF CountInv
        <3>3. ~IsFinal(o) /\ HasConsensus(w, active)
            BY <1>1, <1>10, <3>2, MajorityCounts
        <3>4. Fin \/ Disc
            BY <1>4, <2>2, <3>1, <3>3
        <3>5. Fin => r.voter.Height = now
            BY <1>1 DEF Voter
        <3>6. Disc => r.voter.Height = now
            BY <1>1 DEF Voter
        <3> QED
            BY <3>4, <3>5, <3>6
    <2> QED
        BY <2>1, <2>2
<1>11. CountInv(r.voter)
    BY <1>5, <1>6, <1>7, <1>8, <1>9, <1>10 DEF CountInv
<1>12. ASSUME r.ok = TRUE PROVE Agreed(r.voter, o)
    <2>1. Fin \/ Disc
        BY <1>4, <1>12
    <2>2. r.voter.Tx = g /\ g # NoTx
        <3>1. Fin => r.voter.Tx = g
            BY <1>1 DEF Voter
        <3>2. Disc => r.voter.Tx = g
            BY <1>1 DEF Voter
        <3>3. g # NoTx
            BY <2>1 DEF HasFinalised, HasConsensus
        <3> QED
            BY <2>1, <3>1, <3>2, <3>3
    <2>3. \E f \in BOOLEAN : \E i \in DOMAIN w.Txs :
            g = w.Txs[i] /\ HasClassMajority(w, active, f, i) /\ w.Txs[i].obs.body = o.body
        <3>1. CASE Fin
            <4>1. ~(w.Tx # NoTx /\ IsFinal(w.Tx.obs)) /\ IsFinal(g.obs)
                BY <1>2, <3>1 DEF FinalMarked, HasFinalised
            <4>2. getConsensusTx(w, active, FALSE) # NoTx
                    => ~IsFinal(getConsensusTx(w, active, FALSE).obs)
                BY <1>1, ConsensusTxType
            <4>3. g = getConsensusTx(w, active, TRUE)
                BY <2>2, <4>1, <4>2 DEF GetTx
            <4>4. PICK i \in DOMAIN w.Txs : g = w.Txs[i] /\ HasClassMajority(w, active, TRUE, i)
                BY <1>1, <2>2, <4>3, ConsensusTxType
            <4>5. w.Txs[i].obs.body = o.body
                <5> SUFFICES ASSUME w.Txs[i].obs.body # o.body PROVE FALSE
                    OBVIOUS
                <5>1. i \in DOMAIN v.Txs /\ HasClassMajority(v, active, TRUE, i)
                    BY <1>1, <4>4, ClassUnmoved
                <5> QED
                    BY <1>1, <3>1, <5>1 DEF CountInv, AddedTo
            <4> QED
                BY <4>4, <4>5
        <3>2. CASE Disc
            <4>1. w.Tx = NoTx
                BY <1>1, <3>2 DEF AddedTo, CountInv
            <4>2. ~IsFinal(g.obs)
                BY <2>2, <3>2 DEF HasFinalised
            <4>3. getConsensusTx(w, active, TRUE) # NoTx
                    => IsFinal(getConsensusTx(w, active, TRUE).obs)
                BY <1>1, ConsensusTxType
            <4>4. g = getConsensusTx(w, active, FALSE)
                BY <2>2, <4>1, <4>2, <4>3 DEF GetTx
            <4>5. PICK i \in DOMAIN w.Txs : g = w.Txs[i] /\ HasClassMajority(w, active, FALSE, i)
                BY <1>1, <2>2, <4>4, ConsensusTxType
            <4>6. w.Txs[i].obs.body = o.body
                <5> SUFFICES ASSUME w.Txs[i].obs.body # o.body PROVE FALSE
                    OBVIOUS
                <5>1. i \in DOMAIN v.Txs /\ HasClassMajority(v, active, FALSE, i)
                    BY <1>1, <4>5, ClassUnmoved
                <5> QED
                    BY <1>1, <3>2, <5>1 DEF CountInv, AddedTo
            <4> QED
                BY <4>5, <4>6
        <3> QED
            BY <2>1, <3>1, <3>2
    <2>4. PICK f \in BOOLEAN : \E i \in DOMAIN w.Txs :
            g = w.Txs[i] /\ HasClassMajority(w, active, f, i) /\ w.Txs[i].obs.body = o.body
        BY <2>3
    <2>5. PICK i \in DOMAIN w.Txs :
            g = w.Txs[i] /\ HasClassMajority(w, active, f, i) /\ w.Txs[i].obs.body = o.body
        BY <2>4
    <2>6. Attested(w, o.body)
        BY <2>5, MajorityAttests
    <2>7. Attested(r.voter, o.body)
        BY <1>5, <2>6 DEF Attested
    <2> HIDE DEF g
    <2> QED
        BY <1>5, <2>2, <2>5, <2>7 DEF Agreed
<1>13. ASSUME ~r.ok PROVE /\ (v.Tx = NoTx) = (r.voter.Tx = NoTx)
                          /\ v.Tx # NoTx => r.voter.Tx.obs = v.Tx.obs
    <2>1. Late \/ Same
        BY <1>4, <1>13
    <2>2. w.Tx = v.Tx
        BY <1>1 DEF AddedTo
    <2>3. CASE Same
        BY <2>2, <2>3
    <2>4. CASE Late
        <3>1. w.Tx \in ObservedTx
            BY <1>1, <2>4 DEF Voter
        <3>2. [w.Tx EXCEPT !.signers = @ \cup {n}] \in ObservedTx
            BY <3>1 DEF ObservedTx
        <3>3. late.Tx = [w.Tx EXCEPT !.signers = @ \cup {n}]
            BY <1>1 DEF Voter
        <3>4. late.Tx.obs = w.Tx.obs /\ late.Tx # NoTx
            BY <3>1, <3>2, <3>3, InAssumption DEF ObservedTx
        <3> QED
            BY <2>2, <2>4, <3>4
    <2> QED
        BY <2>1, <2>3, <2>4
<1>14. \A i \in DOMAIN v.Txs : /\ i \in DOMAIN r.voter.Txs /\ r.voter.Txs[i].obs = v.Txs[i].obs
                               /\ v.Txs[i].signers \subseteq r.voter.Txs[i].signers
    BY <1>1, <1>5 DEF AddedTo
<1>15. r.ok \in BOOLEAN
    BY <1>3 DEF AttestationFacts
<1> QED
    BY <1>11, <1>12, <1>13, <1>14, <1>15 DEF CountStep

(* So for a whole attestation, duplicates included.                        *)
LEMMA AttestationCount ==
    ASSUME NEW v \in Voter, VoterInv(v), FinalMarked(v), CountInv(v),
           now \in Nat \ {0}, active \in SUBSET Node, slash \in [Node -> Nat],
           NEW o \in Observation, NEW n \in Node, NEW d \in BOOLEAN,
           NEW r, r = processTxInAttestation(v, active, o, n, d)
    PROVE  CountStep(v, r.voter, r.ok, o)
<1>1. CASE AlreadySigned(v, o, n)
    <2>1. r.voter = v /\ r.ok = FALSE
        BY <1>1 DEF processTxInAttestation
    <2> QED
        BY <2>1 DEF CountStep
<1>2. CASE ~AlreadySigned(v, o, n)
    <2>1. PICK s : s = IncSlashPoints(slash, ObservePoints, {n})
        OBVIOUS
    <2>2. s \in [Node -> Nat]
        BY <2>1, SlashType, InAssumption
    <2>3. r = TallyIn(Add(v, o, n), s, active, o, n)
        BY <1>2, <2>1 DEF processTxInAttestation
    <2> QED
        BY <2>2, <2>3, TallyCount
<1> QED
    BY <1>1, <1>2

(* A handler that is called with a tx of the agreed body keeps the agreed  *)
(* tx, and acts on what is attested.                                       *)
ActsAsAttested ==
    /\ effects' # effects => Attested(voter', effects'[Len(effects')].body)
    /\ credits' # credits =>
          \E j \in DOMAIN voter'.Txs :
              /\ voter'.Txs[j].obs.body.coins = credits'[Len(credits')][2]
              /\ Attested(voter', voter'.Txs[j].obs.body)

(* The handler moves no count, and acts on the body that was agreed.       *)
LEMMA HandleCount ==
    ASSUME TypeOK, NEW v \in Voter, VoterInv(v), CountInv(v), NEW o \in Observation, NEW S,
           NEW c \in BOOLEAN, NEW a \in Answers, c => Agreed(v, o),
           handleObservedTxInQuorum(v, o, S, c, a), active' = active
    PROVE  /\ CountInv(voter)' /\ ActsAsAttested
           /\ voter'.Txs = v.Txs /\ voter'.Height = v.Height
           /\ voter'.FinalisedHeight = v.FinalisedHeight
           /\ (voter'.Tx = NoTx) = (v.Tx = NoTx)
           /\ v.Tx # NoTx => voter'.Tx.obs = v.Tx.obs /\ voter'.Tx.signers = v.Tx.signers
<1>0. PICK w : w = voter'
    OBVIOUS
<1>1. CASE w = v /\ UNCHANGED <<effects, credits>>
    <2>1. CountInv(voter)'
        BY <1>0, <1>1 DEF CountInv, HasClassMajority, ClassSigners
    <2> QED
        BY <1>0, <1>1, <2>1 DEF ActsAsAttested
<1>2. CASE /\ c /\ AddFunds(v, o)
           /\ w \in {CrossedVoter(v, o), SetDone(CrossedVoter(v, o))}
           /\ effects' \in {effects, Append(effects, Outcome(CrossedVoter(v, o), o, a))}
    <2>1. PICK x : x = CrossedVoter(v, o)
        OBVIOUS
    <2>2. v.Tx # NoTx /\ v.Tx.obs.body = o.body /\ Attested(v, o.body)
        BY <1>2 DEF Agreed
    <2>3. v.Tx \in ObservedTx
        BY <2>2 DEF Voter
    <2>4. /\ x \in Voter /\ VoterInv(x) /\ x.Tx \in ObservedTx /\ x.Tx # NoTx
          /\ x.Txs = v.Txs /\ x.Height = v.Height /\ x.FinalisedHeight = v.FinalisedHeight
        BY <2>1, <2>2, CrossedVoterType
    <2>5. x.Tx.obs = v.Tx.obs /\ x.Tx.signers = v.Tx.signers
        <3>1. x.Tx = [v.Tx EXCEPT !.obs.body.memo = o.body.memo]
            BY <2>1 DEF CrossedVoter, Voter
        <3>2. [v.Tx.obs.body EXCEPT !.memo = o.body.memo] = v.Tx.obs.body
            BY <2>2, <2>3 DEF ObservedTx, Observation, Body
        <3>3. x.Tx.obs = [v.Tx.obs EXCEPT !.body = [v.Tx.obs.body EXCEPT !.memo = o.body.memo]]
            BY <2>3, <3>1 DEF ObservedTx, Observation, Body
        <3>4. [v.Tx.obs EXCEPT !.body = v.Tx.obs.body] = v.Tx.obs
            BY <2>3 DEF ObservedTx, Observation
        <3>5. x.Tx.signers = v.Tx.signers
            BY <2>3, <3>1 DEF ObservedTx
        <3> QED
            BY <3>2, <3>3, <3>4, <3>5
    <2>6. /\ w.Txs = v.Txs /\ w.Height = v.Height /\ w.FinalisedHeight = v.FinalisedHeight
          /\ w.Tx # NoTx /\ w.Tx.obs = v.Tx.obs /\ w.Tx.signers = v.Tx.signers
        <3>1. CASE w = x
            BY <2>4, <2>5, <3>1
        <3>2. CASE w = SetDone(x)
            <4>1. w = [x EXCEPT !.Tx.status = "done"]
                BY <2>4, <3>2 DEF SetDone, setStatus
            <4>2. /\ w.Tx = [x.Tx EXCEPT !.status = "done"] /\ w.Txs = x.Txs /\ w.Height = x.Height
                  /\ w.FinalisedHeight = x.FinalisedHeight
                BY <2>4, <4>1 DEF Voter
            <4>3. w.Tx \in ObservedTx /\ w.Tx.obs = x.Tx.obs /\ w.Tx.signers = x.Tx.signers
                BY <2>4, <4>2 DEF ObservedTx, Status
            <4> QED
                BY <2>4, <2>5, <4>2, <4>3, InAssumption
        <3> QED
            BY <1>2, <2>1, <3>1, <3>2
    <2>7. CountInv(voter)'
        <3>1. \A i, f : HasClassMajority(w, active, f, i) = HasClassMajority(v, active, f, i)
            BY <2>6 DEF HasClassMajority, ClassSigners
        <3>2. CountInv(w)
            BY <2>2, <2>6, <3>1 DEF CountInv
        <3> QED
            BY <1>0, <3>2 DEF CountInv, HasClassMajority
    <2>8. Attested(w, o.body)
        BY <2>2, <2>6 DEF Attested
    <2>9. ASSUME effects' # effects PROVE effects'[Len(effects')].body = o.body
        <3>1. PICK e : e = Outcome(x, o, a)
            OBVIOUS
        <3>2. e \in Effect
            BY <2>4, <3>1, OutcomeType
        <3>3. e.body = o.body
            BY <2>2, <2>5, <3>1 DEF Outcome
        <3>4. effects \in Seq(Effect) /\ effects' = Append(effects, e)
            BY <1>2, <2>1, <2>9, <3>1 DEF TypeOK
        <3>5. effects'[Len(effects')] = e
            BY <3>2, <3>4
        <3> QED
            BY <3>3, <3>5
    <2>10. ASSUME credits' # credits PROVE credits'[Len(credits')][2] = o.body.coins
        <3>1. PICK q : q = <<o.pubkey, o.body.coins>>
            OBVIOUS
        <3>2. q \in Vault \X Amount /\ q[2] = o.body.coins
            BY <3>1 DEF Observation, Body
        <3>3. credits \in Seq(Vault \X Amount) /\ credits' = Append(credits, q)
            BY <1>2, <2>10, <3>1 DEF AddFunds, TypeOK
        <3>4. credits'[Len(credits')] = q
            BY <3>2, <3>3
        <3> QED
            BY <3>2, <3>4
    <2>11. PICK j \in DOMAIN v.Txs : v.Txs[j].obs.body = o.body
        BY <1>2 DEF Agreed
    <2>12. /\ j \in DOMAIN voter'.Txs /\ voter'.Txs[j].obs.body = o.body
           /\ Attested(voter', o.body)
        BY <1>0, <2>6, <2>8, <2>11
    <2>13. ActsAsAttested
        BY <2>9, <2>10, <2>12 DEF ActsAsAttested
    <2> QED
        BY <1>0, <2>2, <2>6, <2>7, <2>13
<1>3. \/ voter' = v /\ UNCHANGED <<effects, credits>>
      \/ /\ c /\ AddFunds(v, o)
         /\ voter' \in {CrossedVoter(v, o), SetDone(CrossedVoter(v, o))}
         /\ effects' \in {effects, Append(effects, Outcome(CrossedVoter(v, o), o, a))}
    BY DEF handleObservedTxInQuorum
<1> QED
    BY <1>0, <1>1, <1>2, <1>3

(* Before the first churn the active validators stay, and every step       *)
(* counts and acts as it should.                                           *)
LEMMA NextNoChurn ==
    churns' = 0 /\ IInv /\ StableInv /\ NoChurnInv /\ [Next]_vars
        => NoChurnInv' /\ ActsAsAttested /\ active' = active
<1> SUFFICES ASSUME churns' = 0, IInv, StableInv, NoChurnInv, [Next]_vars
             PROVE  NoChurnInv' /\ ActsAsAttested /\ active' = active
    OBVIOUS
<1>0. /\ voter \in Voter /\ VoterInv(voter) /\ FinalMarked(voter) /\ now \in Nat \ {0}
      /\ CountInv(voter) /\ active \in SUBSET Node /\ slash \in [Node -> Nat]
      /\ reports \subseteq Observation
    BY InAssumption DEF IInv, TypeOK, StableInv, NoChurnInv
<1>1. churns \in Nat /\ churns' # churns + 1
    BY DEF IInv, TypeOK
<1>2. active' = active
    BY <1>1 DEF Next, ObservedTxInMsg, QuorumBegin, QuorumAttest, QuorumEnd, ErrataTx, NextBlock, Churn,
                VaultInactive, chainVars, vars
<1>3. ASSUME NEW w, w = voter', CountInv(w) PROVE CountInv(voter)'
    BY <1>2, <1>3 DEF CountInv, HasClassMajority
<1>4. ASSUME UNCHANGED <<voter, effects, credits>>, msg' # NoMsg => ~msg'.crossed
      PROVE  NoChurnInv' /\ ActsAsAttested
    <2>1. CountInv(voter)'
        BY <1>0, <1>3, <1>4
    <2> QED
        BY <1>4, <2>1 DEF NoChurnInv, ActsAsAttested
<1>5. ASSUME NEW n \in Node, NEW o \in reports, NEW a \in Answers,
             ObservedTxInMsg(n, o, a)
      PROVE  NoChurnInv' /\ ActsAsAttested
    <2>1. PICK r : r = processTxInAttestation(voter, active, o, n, TRUE)
        OBVIOUS
    <2>2. o \in Observation
        BY <1>0
    <2>3. PICK S : handleObservedTxInQuorum(r.voter, o, S, r.ok, a)
        BY <1>5, <2>1 DEF ObservedTxInMsg
    <2>4. AttestationFacts(voter, r, active)
        BY <1>0, <2>1, <2>2, AttestationLemma
    <2>5. CountStep(voter, r.voter, r.ok, o)
        BY <1>0, <2>1, <2>2, AttestationCount
    <2>6. r.voter \in Voter /\ VoterInv(r.voter) /\ r.ok \in BOOLEAN
        BY <2>4 DEF AttestationFacts
    <2>7. CountInv(voter)' /\ ActsAsAttested
        BY <1>2, <2>2, <2>3, <2>5, <2>6, HandleCount DEF CountStep, IInv
    <2>8. msg' = NoMsg
        BY <1>5 DEF ObservedTxInMsg, CanSend
    <2> QED
        BY <2>7, <2>8 DEF NoChurnInv
<1>6. ASSUME NEW o \in reports, NEW S \in SUBSET Node \ {{}}, QuorumBegin(o, S)
      PROVE  NoChurnInv' /\ ActsAsAttested
    <2>1. ~msg'.crossed /\ UNCHANGED <<voter, effects, credits>>
        BY <1>6 DEF QuorumBegin
    <2> QED
        BY <1>4, <2>1
<1>7. ASSUME NEW n \in Node, QuorumAttest(n) PROVE NoChurnInv' /\ ActsAsAttested
    <2>1. /\ msg \in QuorumMsg /\ msg # NoMsg /\ UNCHANGED <<effects, credits>>
          /\ msg.tx \in Observation
        BY <1>7 DEF QuorumAttest, IInv, TypeOK, QuorumMsg
    <2>2. ActsAsAttested
        BY <2>1 DEF ActsAsAttested
    <2>3. PICK w : w = voter'
        OBVIOUS
    <2>4. ASSUME CountInv(w), msg' # NoMsg /\ msg'.crossed => Agreed(w, msg.tx), msg'.tx = msg.tx
          PROVE  NoChurnInv'
        <3>1. CountInv(voter)'
            BY <1>3, <2>3, <2>4
        <3>2. \A b : Attested(w, b) => Attested(voter, b)'
            BY <1>2, <2>3 DEF Attested
        <3>3. Agreed(w, msg.tx) => Agreed(voter, msg.tx)'
            BY <2>3, <2>4, <3>2 DEF Agreed
        <3> QED
            BY <2>4, <3>1, <3>3 DEF NoChurnInv
    <2>5. CASE n \notin active
        <3>1. msg' = [msg EXCEPT !.left = @ \ {n}] /\ voter' = voter
            BY <1>7, <2>5 DEF QuorumAttest
        <3>2. msg'.tx = msg.tx /\ msg'.crossed = msg.crossed
            BY <2>1, <3>1 DEF QuorumMsg
        <3> QED
            BY <1>0, <2>1, <2>2, <2>3, <2>4, <3>1, <3>2 DEF NoChurnInv
    <2>6. CASE n \in active
        <3>1. PICK r : r = processTxInAttestation(voter, active, msg.tx, n, FALSE)
            OBVIOUS
        <3>2. /\ voter' = r.voter
              /\ msg' = [msg EXCEPT !.left = @ \ {n}, !.seen = @ \cup {n},
                                    !.crossed = @ \/ r.ok]
            BY <1>7, <2>6, <3>1 DEF QuorumAttest
        <3>3. msg'.tx = msg.tx /\ msg'.crossed = (msg.crossed \/ r.ok)
            BY <2>1, <3>2 DEF QuorumMsg
        <3>4. CountStep(voter, r.voter, r.ok, msg.tx)
            BY <1>0, <2>1, <3>1, AttestationCount
        <3>5. CountInv(w) /\ (r.ok => Agreed(w, msg.tx))
            BY <2>3, <3>2, <3>4 DEF CountStep
        <3>6. Agreed(voter, msg.tx) /\ ~r.ok => Agreed(w, msg.tx)
            <4> SUFFICES ASSUME Agreed(voter, msg.tx), ~r.ok PROVE Agreed(w, msg.tx)
                OBVIOUS
            <4>1. w.Tx # NoTx /\ w.Tx.obs.body = msg.tx.body
                BY <2>3, <3>2, <3>4 DEF CountStep, Agreed
            <4>2. Attested(w, msg.tx.body)
                BY <1>0, <2>3, <3>2, <3>4, AttestedGrows DEF CountStep, Agreed
            <4>3. \E j \in DOMAIN w.Txs : w.Txs[j].obs.body = msg.tx.body
                BY <2>3, <3>2, <3>4 DEF CountStep, Agreed
            <4> QED
                BY <4>1, <4>2, <4>3 DEF Agreed
        <3>7. msg.crossed => Agreed(voter, msg.tx)
            BY <2>1 DEF NoChurnInv
        <3>8. msg'.crossed => Agreed(w, msg.tx)
            BY <3>3, <3>5, <3>6, <3>7
        <3> QED
            BY <2>2, <2>4, <3>3, <3>5, <3>8
    <2> QED
        BY <2>5, <2>6
<1>8. ASSUME NEW a \in Answers, QuorumEnd(a) PROVE NoChurnInv' /\ ActsAsAttested
    <2>1. /\ msg \in QuorumMsg /\ msg # NoMsg /\ msg' = NoMsg
          /\ msg.tx \in Observation /\ msg.crossed \in BOOLEAN
        BY <1>8 DEF QuorumEnd, IInv, TypeOK, QuorumMsg
    <2>2. msg.crossed => Agreed(voter, msg.tx)
        BY <2>1 DEF NoChurnInv
    <2>3. handleObservedTxInQuorum(voter, msg.tx, msg.seen, msg.crossed, a)
        BY <1>8 DEF QuorumEnd
    <2>4. CountInv(voter)' /\ ActsAsAttested
        BY <1>0, <1>2, <2>1, <2>2, <2>3, HandleCount DEF IInv
    <2> QED
        BY <2>1, <2>4 DEF NoChurnInv
<1>9. ASSUME NEW n \in Node, NEW d \in BOOLEAN, NEW f \in BOOLEAN,
             ErrataTx(n, d, f)
      PROVE  NoChurnInv' /\ ActsAsAttested
    <2>1. msg' = NoMsg /\ UNCHANGED <<effects, credits>>
        BY <1>9 DEF ErrataTx, CanSend
    <2>2. CASE voter' = voter
        BY <1>4, <2>1, <2>2
    <2>3. CASE voter' = SetReverted(voter)
        <3>1. PICK w : w = voter'
            OBVIOUS
        <3>2. /\ w.Txs = voter.Txs /\ w.Height = voter.Height
              /\ w.FinalisedHeight = voter.FinalisedHeight
              /\ (w.Tx = NoTx) = (voter.Tx = NoTx)
            BY <1>0, <2>3, <3>1, RevertedVoter
        <3>3. \A b, i : HasClassMajority(w, active, b, i) = HasClassMajority(voter, active, b, i)
            BY <3>2 DEF HasClassMajority, ClassSigners
        <3>4. CountInv(w)
            BY <1>0, <3>2, <3>3 DEF CountInv
        <3>5. CountInv(voter)'
            BY <1>3, <3>1, <3>4
        <3> QED
            BY <2>1, <3>5 DEF NoChurnInv, ActsAsAttested
    <2> QED
        BY <1>9, <2>2, <2>3 DEF ErrataTx, ErrataVote, ErrataRevert
<1>10. CASE NextBlock \/ UNCHANGED vars
    <2>1. CASE NextBlock
        BY <1>4, <2>1 DEF NextBlock
    <2>2. CASE UNCHANGED vars
        <3>1. CountInv(voter)'
            BY <1>0, <1>3, <2>2 DEF vars
        <3>2. (msg # NoMsg /\ msg.crossed => Agreed(voter, msg.tx))'
            BY <2>2 DEF vars, NoChurnInv, Agreed, Attested
        <3> QED
            BY <2>2, <3>1, <3>2 DEF NoChurnInv, ActsAsAttested, vars
    <2> QED
        BY <1>10, <2>1, <2>2
<1>11. ~(\E S \in SUBSET Node : Churn(S)) /\ ~(\E v \in Vault : VaultInactive(v))
    BY <1>1 DEF Churn, VaultInactive
<1> QED
    BY <1>2, <1>5, <1>6, <1>7, <1>8, <1>9, <1>10, <1>11 DEF Next

(* Churns are counted.                                                     *)
LEMMA ChurnsGrow == IInv /\ [Next]_vars => (churns' = 0 => churns = 0)
<1> SUFFICES ASSUME IInv, [Next]_vars PROVE churns' = churns \/ churns' = churns + 1
    BY DEF IInv, TypeOK
<1> QED
    BY DEF Next, ObservedTxInMsg, QuorumBegin, QuorumAttest, QuorumEnd, ErrataTx, NextBlock, Churn,
           VaultInactive, chainVars, vars

(* Before a churn the counts and the open quorum message are in order.     *)
LEMMA NoChurnInvariant ==
    Spec => [](IInv /\ StableInv /\ (churns = 0 => NoChurnInv))
<1>1. Init => NoChurnInv
    <2> SUFFICES ASSUME Init PROVE NoChurnInv
        OBVIOUS
    <2>1. CountInv(voter)
        BY DEF Init, NewErrataTxVoter, NewVoter, CountInv
    <2> QED
        BY <2>1 DEF Init, NoChurnInv
<1>2. IInv /\ StableInv /\ (churns = 0 => NoChurnInv) /\ [Next]_vars => (churns = 0 => NoChurnInv)'
    BY NextNoChurn, ChurnsGrow
<1> QED
    BY <1>1, <1>2, StableInvariant, PTL DEF Spec

-----------------------------------------------------------------------------
(* Slash points, while nobody churns                                       *)

(* n signed an observation of the given finality.                          *)
Signed(v, n, f) ==
    \E i \in DOMAIN v.Txs : IsFinal(v.Txs[i].obs) = f /\ n \in v.Txs[i].signers

(* n signed two observations of one body and finality, as SignedVariants.  *)
Variants(v, n) ==
    \E i, j \in DOMAIN v.Txs :
        /\ i # j /\ n \in v.Txs[i].signers \cap v.Txs[j].signers
        /\ EqualsEx(v.Txs[i].obs, v.Txs[j].obs)
        /\ IsFinal(v.Txs[i].obs) = IsFinal(v.Txs[j].obs)

(* The points a node has been charged and not been given back: for a vote  *)
(* in a phase that is not settled, for having missed the agreed tx, and    *)
(* the same for the errata.                                                *)
VoteOwed(v, n)  == IF v.Height = 0 /\ Signed(v, n, FALSE) THEN ObservePoints ELSE 0
FinalOwed(v, n) == IF v.FinalisedHeight = 0 /\ Signed(v, n, TRUE) THEN ObservePoints ELSE 0
LackOwed(v, n)  == IF v.Tx # NoTx /\ n \in active \ GetConsensusSigners(v) THEN LackPenalty ELSE 0
ErrataOwed(e, n) ==
    IF e.height = 0
    THEN IF n \in e.signers THEN ObservePoints ELSE 0
    ELSE IF n \in active \ e.signers THEN LackPenalty ELSE 0

(* Whatever is given back later was charged before: the node has at least  *)
(* what it still owes on top of what it had.                               *)
Covered(v, e, s, n) ==
    s[n] >= BaseSlash + VoteOwed(v, n) + FinalOwed(v, n) + LackOwed(v, n) + ErrataOwed(e, n)

SlashFor(v, e, s) == \A n \in Node : Variants(v, n) \/ Covered(v, e, s, n)

SlashInv == SlashFor(voter, errata, slash)

(* What is owed is a natural number.                                       *)
LEMMA OwedType ==
    ASSUME NEW v, NEW e, NEW n
    PROVE  /\ VoteOwed(v, n) \in Nat /\ FinalOwed(v, n) \in Nat
           /\ LackOwed(v, n) \in Nat /\ ErrataOwed(e, n) \in Nat
           /\ ObservePoints \in Nat /\ LackPenalty \in Nat /\ BaseSlash \in Nat
<1>1. ObservePoints \in Nat /\ LackPenalty \in Nat /\ BaseSlash \in Nat
    BY InAssumption
<1> QED
    BY <1>1 DEF VoteOwed, FinalOwed, LackOwed, ErrataOwed

(* The points of one node after charging, giving back and settling.        *)
LEMMA SlashValue ==
    ASSUME NEW s \in [Node -> Nat], NEW p \in Nat, NEW S, NEW nas, NEW m \in Node
    PROVE  /\ IncSlashPoints(s, p, S)[m] = IF m \in S THEN s[m] + p ELSE s[m]
           /\ DecSlashPoints(s, p, S)[m] = IF m \in S THEN SafeSub(s[m], p) ELSE s[m]
           /\ SettleSlash(s, nas, S)[m] =
                IF m \in S THEN SafeSub(s[m], ObservePoints)
                ELSE IF m \in nas THEN s[m] + LackPenalty ELSE s[m]
<1>1. /\ IncSlashPoints(s, p, S)[m] = IF m \in S THEN s[m] + p ELSE s[m]
      /\ DecSlashPoints(s, p, S)[m] = IF m \in S THEN SafeSub(s[m], p) ELSE s[m]
    BY DEF IncSlashPoints, DecSlashPoints
<1>2. DecSlashPoints(s, ObservePoints, S)[m] =
        IF m \in S THEN SafeSub(s[m], ObservePoints) ELSE s[m]
    BY DEF DecSlashPoints
<1>3. SettleSlash(s, nas, S)[m] =
        IF m \in nas \ S THEN DecSlashPoints(s, ObservePoints, S)[m] + LackPenalty
        ELSE DecSlashPoints(s, ObservePoints, S)[m]
    BY DEF SettleSlash, IncSlashPoints
<1> QED
    BY <1>1, <1>2, <1>3

(* What a vote changes of who signed what.                                 *)
LEMMA AddSigned ==
    ASSUME NEW v, NEW w, NEW o, NEW n, AddedTo(v, w, o, n), NEW m \in Node
    PROVE  /\ Variants(v, m) => Variants(w, m)
           /\ \A f : Signed(w, m, f) => Signed(v, m, f) \/ (m = n /\ f = IsFinal(o))
           /\ LackOwed(w, m) = LackOwed(v, m) \/ LackOwed(w, m) = 0
<1>1. Variants(v, m) => Variants(w, m)
    BY DEF AddedTo, Variants
<1>2. ASSUME NEW f, Signed(w, m, f), ~Signed(v, m, f)
      PROVE  m = n /\ f = IsFinal(o)
    <2>1. PICK i \in DOMAIN w.Txs : IsFinal(w.Txs[i].obs) = f /\ m \in w.Txs[i].signers
        BY <1>2 DEF Signed
    <2>2. ~(i \in DOMAIN v.Txs /\ m \in v.Txs[i].signers)
        BY <1>2, <2>1 DEF Signed, AddedTo
    <2> QED
        BY <2>1, <2>2 DEF AddedTo
<1>3. m \in GetConsensusSigners(v) => m \in GetConsensusSigners(w)
    BY DEF AddedTo, GetConsensusSigners, ClassSigners
<1>4. LackOwed(w, m) = LackOwed(v, m) \/ LackOwed(w, m) = 0
    BY <1>3 DEF AddedTo, LackOwed
<1> QED
    BY <1>1, <1>2, <1>4

(* Two voters that agree in this owe the same.                             *)
LEMMA SameOwed ==
    ASSUME NEW v, NEW w, w.Txs = v.Txs, w.Height = v.Height,
           w.FinalisedHeight = v.FinalisedHeight, (w.Tx = NoTx) = (v.Tx = NoTx),
           v.Tx # NoTx => w.Tx.obs = v.Tx.obs, NEW m
    PROVE  /\ Variants(w, m) = Variants(v, m) /\ VoteOwed(w, m) = VoteOwed(v, m)
           /\ FinalOwed(w, m) = FinalOwed(v, m) /\ LackOwed(w, m) = LackOwed(v, m)
<1>1. Variants(w, m) = Variants(v, m)
    BY DEF Variants
<1>2. \A f : Signed(w, m, f) = Signed(v, m, f)
    BY DEF Signed
<1>3. GetConsensusSigners(w) = GetConsensusSigners(v)
    BY DEF GetConsensusSigners, ClassSigners
<1> QED
    BY <1>1, <1>2, <1>3 DEF VoteOwed, FinalOwed, LackOwed

(* A vote is charged for before it counts.                                 *)
LEMMA ChargeCovers ==
    ASSUME NEW v, NEW w, NEW o, NEW n, AddedTo(v, w, o, n), NEW e,
           NEW s \in [Node -> Nat], NEW m \in Node, Covered(v, e, s, m),
           NEW c, c = IncSlashPoints(s, ObservePoints, {n})
    PROVE  Covered(w, e, c, m)
<1>1. /\ VoteOwed(v, m) \in Nat /\ FinalOwed(v, m) \in Nat
      /\ LackOwed(v, m) \in Nat /\ ErrataOwed(e, m) \in Nat
      /\ LackOwed(w, m) \in Nat
      /\ ObservePoints \in Nat /\ LackPenalty \in Nat /\ BaseSlash \in Nat
    BY OwedType
<1>2. c[m] = IF m = n THEN s[m] + ObservePoints ELSE s[m]
    BY DEF IncSlashPoints
<1>3. LackOwed(w, m) <= LackOwed(v, m)
    BY <1>1, AddSigned
<1>4. w.Height = v.Height /\ w.FinalisedHeight = v.FinalisedHeight
    BY DEF AddedTo
<1>5. m # n => (Signed(w, m, FALSE) => Signed(v, m, FALSE)) /\ (Signed(w, m, TRUE) => Signed(v, m, TRUE))
    BY AddSigned
<1>6. (Signed(w, m, FALSE) => Signed(v, m, FALSE)) \/ (Signed(w, m, TRUE) => Signed(v, m, TRUE))
    BY AddSigned
<1>7. /\ VoteOwed(w, m) \in {0, ObservePoints} /\ FinalOwed(w, m) \in {0, ObservePoints}
      /\ m # n => /\ VoteOwed(w, m) = VoteOwed(v, m) \/ VoteOwed(w, m) = 0
                  /\ FinalOwed(w, m) = FinalOwed(v, m) \/ FinalOwed(w, m) = 0
      /\ \/ VoteOwed(w, m) = VoteOwed(v, m) \/ VoteOwed(w, m) = 0
         \/ FinalOwed(w, m) = FinalOwed(v, m) \/ FinalOwed(w, m) = 0
    BY <1>4, <1>5, <1>6 DEF VoteOwed, FinalOwed
<1>8. /\ m # n => VoteOwed(w, m) <= VoteOwed(v, m) /\ FinalOwed(w, m) <= FinalOwed(v, m)
      /\ VoteOwed(w, m) + FinalOwed(w, m) <= VoteOwed(v, m) + FinalOwed(v, m) + ObservePoints
    BY <1>1, <1>7
<1>9. VoteOwed(w, m) \in Nat /\ FinalOwed(w, m) \in Nat /\ s[m] \in Nat
    BY OwedType
<1> QED
    BY <1>1, <1>2, <1>3, <1>8, <1>9 DEF Covered

(* Settling gives back what the signers of the settled phase were charged. *)
LEMMA SettleCovers ==
    ASSUME NEW w, NEW x, NEW e, NEW s \in [Node -> Nat], NEW m \in Node,
           Covered(w, e, s, m), x.Height # 0,
           m \in GetConsensusSigners(x) =>
              VoteOwed(w, m) + FinalOwed(w, m) >= ObservePoints + FinalOwed(x, m),
           FinalOwed(x, m) <= FinalOwed(w, m)
    PROVE  Covered(x, e, SettleSlash(s, active, GetConsensusSigners(x)), m)
<1> DEFINE C == GetConsensusSigners(x)
           z == SettleSlash(s, active, C)[m]
<1>1. /\ VoteOwed(w, m) \in Nat /\ FinalOwed(w, m) \in Nat
      /\ LackOwed(w, m) \in Nat /\ ErrataOwed(e, m) \in Nat
      /\ LackOwed(x, m) \in Nat /\ FinalOwed(x, m) \in Nat /\ s[m] \in Nat
      /\ ObservePoints \in Nat /\ LackPenalty \in Nat /\ BaseSlash \in Nat
    BY OwedType
<1>2. z = IF m \in C THEN SafeSub(s[m], ObservePoints)
          ELSE IF m \in active THEN s[m] + LackPenalty ELSE s[m]
    BY <1>1, SlashValue
<1>3. VoteOwed(x, m) = 0
    BY DEF VoteOwed
<1>4. LackOwed(x, m) = 0 \/ (m \notin C /\ m \in active /\ LackOwed(x, m) = LackPenalty)
    BY DEF LackOwed
<1>5. m \in C => LackOwed(x, m) = 0
    BY DEF LackOwed
<1> SUFFICES z >= BaseSlash + VoteOwed(x, m) + FinalOwed(x, m) + LackOwed(x, m) + ErrataOwed(e, m)
    BY DEF Covered
<1>6. s[m] >= BaseSlash + VoteOwed(w, m) + FinalOwed(w, m) + LackOwed(w, m) + ErrataOwed(e, m)
    BY DEF Covered
<1> HIDE DEF z, C
<1>7. CASE m \in C
    <2>1. VoteOwed(w, m) + FinalOwed(w, m) >= ObservePoints + FinalOwed(x, m)
        BY <1>7 DEF C
    <2> QED
        BY <1>1, <1>2, <1>3, <1>5, <1>6, <1>7, <2>1 DEF SafeSub
<1>8. CASE m \notin C
    BY <1>1, <1>2, <1>3, <1>4, <1>6, <1>8
<1> QED
    BY <1>7, <1>8

(* One attestation, charged, counted and perhaps settled.                  *)
LEMMA TallySlash ==
    ASSUME NEW v \in Voter, VoterInv(v), FinalMarked(v), CountInv(v),
           now \in Nat \ {0}, active \in SUBSET Node, NEW e, NEW s \in [Node -> Nat],
           NEW o \in Observation, NEW n \in active, ~AlreadySigned(v, o, n),
           NEW m \in Node, Variants(v, m) \/ Covered(v, e, s, m),
           NEW c, c = IncSlashPoints(s, ObservePoints, {n}),
           NEW w, w = Add(v, o, n), NEW r, r = TallyIn(w, c, active, o, n)
    PROVE  Variants(r.voter, m) \/ Covered(r.voter, e, r.slash, m)
<1>1. w \in Voter /\ AddedTo(v, w, o, n) /\ n \in Node
    BY AddType, AddEntries
<1>2. w.Tx = v.Tx /\ w.Height = v.Height /\ w.FinalisedHeight = v.FinalisedHeight
    BY <1>1 DEF AddedTo
<1>3. c \in [Node -> Nat] /\ ObservePoints \in Nat
    BY SlashType, InAssumption
<1> DEFINE g == GetTx(w, active)
           fin  == [w EXCEPT !.Height = now, !.FinalisedHeight = now, !.Tx = g]
           disc == [w EXCEPT !.Height = now, !.Tx = g]
           late == [w EXCEPT !.Tx.signers = @ \cup {n}]
           Fin  == /\ r.voter = fin /\ r.slash = SettleSlash(c, active, GetConsensusSigners(fin))
                   /\ HasFinalised(w, active) /\ w.FinalisedHeight = 0
           Disc == /\ r.voter = disc /\ r.slash = SettleSlash(c, active, GetConsensusSigners(disc))
                   /\ HasConsensus(w, active)
                   /\ ~HasFinalised(w, active) /\ w.FinalisedHeight = 0 /\ w.Height = 0
           Late == /\ r.voter = late /\ r.slash = DecSlashPoints(c, ObservePoints + LackPenalty, {n})
                   /\ w.Tx # NoTx
                   /\ w.FinalisedHeight # 0 \/ ~IsFinal(o)
                   /\ IsFinal(w.Tx.obs) = IsFinal(o) /\ EqualsEx(w.Tx.obs, o)
           Same == r.voter = w /\ r.slash = c
<1>4. Fin \/ Disc \/ Late \/ Same
    <2>1. CASE HasFinalised(w, active)
        BY <1>2, <2>1 DEF TallyIn, Settle, AcceptLate, LateVote, VoterInv
    <2>2. CASE ~HasFinalised(w, active)
        BY <1>2, <2>2 DEF TallyIn, Settle, AcceptLate, LateVote, VoterInv
    <2> QED
        BY <2>1, <2>2
<1>5. r.voter.Txs = w.Txs
    <2>1. Fin => r.voter.Txs = w.Txs
        BY <1>1 DEF Voter
    <2>2. Disc => r.voter.Txs = w.Txs
        BY <1>1 DEF Voter
    <2>3. Late => r.voter.Txs = w.Txs
        BY <1>1 DEF Voter
    <2> QED
        BY <1>4, <2>1, <2>2, <2>3
<1>6. Variants(w, m) => Variants(r.voter, m)
    BY ONLY <1>5 DEF Variants
<1>7. CASE Variants(w, m)
    BY <1>6, <1>7
<1>8. CASE ~Variants(w, m)
    <2>1. Covered(v, e, s, m)
        BY <1>1, <1>8, AddSigned
    <2>2. Covered(w, e, c, m)
        BY <1>1, <2>1, ChargeCovers
    <2>3. CASE Fin
        <3>1. r.voter = fin /\ r.slash = SettleSlash(c, active, GetConsensusSigners(fin))
            BY <2>3
        <3>2. fin.Tx = g /\ fin.Height = now /\ fin.FinalisedHeight = now /\ fin.Txs = w.Txs
            BY <1>1 DEF Voter
        <3>3. g # NoTx /\ IsFinal(g.obs)
            BY <2>3 DEF HasFinalised
        <3> HIDE DEF fin, g
        <3>4. m \in GetConsensusSigners(fin) => Signed(w, m, TRUE)
            BY <3>2, <3>3 DEF GetConsensusSigners, ClassSigners, Signed
        <3>5. m \in GetConsensusSigners(fin) => FinalOwed(w, m) = ObservePoints
            BY <2>3, <3>4 DEF FinalOwed
        <3>6. FinalOwed(fin, m) = 0
            BY <3>2 DEF FinalOwed
        <3>7. VoteOwed(w, m) \in Nat /\ FinalOwed(w, m) \in Nat /\ fin.Height # 0
            BY <3>2, OwedType
        <3>8. Covered(fin, e, SettleSlash(c, active, GetConsensusSigners(fin)), m)
            BY <1>3, <2>2, <3>5, <3>6, <3>7, SettleCovers
        <3> QED
            BY <3>1, <3>8
    <2>4. CASE Disc
        <3>1. r.voter = disc /\ r.slash = SettleSlash(c, active, GetConsensusSigners(disc))
            BY <2>4
        <3>2. disc.Tx = g /\ disc.Height = now /\ disc.FinalisedHeight = w.FinalisedHeight /\ disc.Txs = w.Txs
            BY <1>1 DEF Voter
        <3>3. g # NoTx /\ ~IsFinal(g.obs)
            BY <2>4 DEF HasFinalised, HasConsensus
        <3> HIDE DEF disc, g
        <3>4. m \in GetConsensusSigners(disc) => Signed(w, m, FALSE)
            BY <3>2, <3>3 DEF GetConsensusSigners, ClassSigners, Signed, IsFinal
        <3>5. m \in GetConsensusSigners(disc) => VoteOwed(w, m) = ObservePoints
            BY <2>4, <3>4 DEF VoteOwed
        <3>6. FinalOwed(disc, m) = FinalOwed(w, m)
            BY <3>2 DEF FinalOwed, Signed
        <3>7. VoteOwed(w, m) \in Nat /\ FinalOwed(w, m) \in Nat /\ disc.Height # 0
            BY <3>2, OwedType
        <3>8. Covered(disc, e, SettleSlash(c, active, GetConsensusSigners(disc)), m)
            BY <1>3, <2>2, <3>5, <3>6, <3>7, SettleCovers, SMTT(20)
        <3> QED
            BY <3>1, <3>8
    <2>5. CASE Late
        <3>0. PICK x : x = late
            OBVIOUS
        <3>1. /\ r.voter = x
              /\ r.slash = DecSlashPoints(c, ObservePoints + LackPenalty, {n})
            BY <2>5, <3>0
        <3>2. w.Tx \in ObservedTx
            BY <1>1, <2>5 DEF Voter
        <3>3. [w.Tx EXCEPT !.signers = @ \cup {n}] \in ObservedTx
            BY <1>1, <3>2 DEF ObservedTx
        <3>4. /\ x.Tx = [w.Tx EXCEPT !.signers = @ \cup {n}]
              /\ x.Txs = w.Txs /\ x.Height = w.Height /\ x.FinalisedHeight = w.FinalisedHeight
            BY <1>1, <3>0 DEF Voter
        <3>5. x.Tx.obs = w.Tx.obs /\ x.Tx # NoTx
            BY <3>2, <3>3, <3>4, InAssumption DEF ObservedTx
        <3>6. /\ VoteOwed(x, m) = VoteOwed(w, m) /\ FinalOwed(x, m) = FinalOwed(w, m)
              /\ LackOwed(x, m) = LackOwed(w, m)
            <4>1. (x.Tx = NoTx) = (w.Tx = NoTx)
                BY <2>5, <3>5
            <4>2. x.Txs = w.Txs /\ x.Height = w.Height /\ x.FinalisedHeight = w.FinalisedHeight
                BY <3>4
            <4>3. w.Tx # NoTx => x.Tx.obs = w.Tx.obs
                BY <3>5
            <4> QED
                BY ONLY <4>1, <4>2, <4>3, SameOwed
        <3>7. r.slash[m] = IF m = n THEN SafeSub(c[m], ObservePoints + LackPenalty) ELSE c[m]
            BY <3>1 DEF DecSlashPoints
        <3>8. CASE m # n
            BY <2>2, <3>1, <3>6, <3>7, <3>8 DEF Covered
        <3>9. CASE m = n
            <4>1. n \notin GetConsensusSigners(v)
                <5> SUFFICES ASSUME n \in GetConsensusSigners(v) PROVE FALSE
                    OBVIOUS
                <5>1. PICK i \in DOMAIN v.Txs : /\ IsFinal(v.Txs[i].obs) = IsFinal(o)
                                                /\ v.Txs[i].obs.body = o.body
                                                /\ n \in v.Txs[i].signers
                    BY <1>2, <2>5 DEF GetConsensusSigners, ClassSigners, EqualsEx
                <5>2. v.Txs[i].obs # o
                    BY <5>1 DEF AlreadySigned
                <5>3. PICK k \in DOMAIN w.Txs : w.Txs[k].obs = o /\ n \in w.Txs[k].signers
                    BY <1>1 DEF AddedTo
                <5>4. i \in DOMAIN w.Txs /\ w.Txs[i].obs = v.Txs[i].obs /\ n \in w.Txs[i].signers
                    BY <1>1, <5>1 DEF AddedTo
                <5>5. Variants(w, n)
                    BY <5>1, <5>2, <5>3, <5>4 DEF Variants, EqualsEx
                <5> QED
                    BY <1>8, <3>9, <5>5
            <4>2. LackOwed(v, n) = LackPenalty
                BY <1>2, <2>5, <4>1 DEF LackOwed
            <4>3. n \in GetConsensusSigners(w)
                <5>1. PICK k \in DOMAIN w.Txs : w.Txs[k].obs = o /\ n \in w.Txs[k].signers
                    BY <1>1 DEF AddedTo
                <5> QED
                    BY <1>1, <2>5, <5>1 DEF GetConsensusSigners, ClassSigners, EqualsEx
            <4>4. LackOwed(w, n) = 0
                BY <4>3 DEF LackOwed
            <4>5. VoteOwed(w, n) = 0
                BY <1>2, <2>5 DEF VoteOwed, CountInv
            <4>6. FinalOwed(w, n) = FinalOwed(v, n) \/ FinalOwed(w, n) = 0
                <5>1. CASE w.FinalisedHeight # 0
                    BY <5>1 DEF FinalOwed
                <5>2. CASE ~IsFinal(o)
                    <6>1. Signed(w, n, TRUE) => Signed(v, n, TRUE)
                        <7>1. IsFinal(o) = FALSE
                            BY <5>2 DEF IsFinal
                        <7> QED
                            BY <1>1, <7>1, AddSigned
                    <6> QED
                        BY <1>2, <6>1 DEF FinalOwed
                <5> QED
                    BY <2>5, <5>1, <5>2
            <4>7. /\ VoteOwed(v, n) \in Nat /\ FinalOwed(v, n) \in Nat /\ ErrataOwed(e, n) \in Nat
                  /\ LackPenalty \in Nat /\ BaseSlash \in Nat /\ ObservePoints \in Nat
                BY OwedType
            <4>8. c[n] = s[n] + ObservePoints /\ s[n] \in Nat
                BY <1>1 DEF IncSlashPoints
            <4>9. s[n] >= BaseSlash + VoteOwed(v, n) + FinalOwed(v, n) + LackPenalty + ErrataOwed(e, n)
                BY <2>1, <3>9, <4>2 DEF Covered
            <4>10. r.slash[n] = SafeSub(s[n] + ObservePoints, ObservePoints + LackPenalty)
                BY <3>7, <3>9, <4>8
            <4>11. r.slash[n] = s[n] - LackPenalty
                BY <4>7, <4>8, <4>9, <4>10 DEF SafeSub
            <4>12. r.slash[n] >= BaseSlash + 0 + FinalOwed(w, n) + 0 + ErrataOwed(e, n)
                BY <4>6, <4>7, <4>8, <4>9, <4>11
            <4> QED
                BY <3>1, <3>6, <3>9, <4>4, <4>5, <4>12 DEF Covered
        <3> QED
            BY <3>8, <3>9
    <2>6. CASE Same
        BY <2>2, <2>6
    <2> QED
        BY <1>4, <2>3, <2>4, <2>5, <2>6
<1> QED
    BY <1>7, <1>8

(* A duplicate costs its sender, or nothing.                               *)
LEMMA AttestationSlash ==
    ASSUME NEW v \in Voter, VoterInv(v), FinalMarked(v), CountInv(v),
           now \in Nat \ {0}, active \in SUBSET Node, slash \in [Node -> Nat], NEW e,
           SlashFor(v, e, slash), NEW o \in Observation, NEW n \in active, NEW d \in BOOLEAN,
           NEW r, r = processTxInAttestation(v, active, o, n, d)
    PROVE  SlashFor(r.voter, e, r.slash)
<1> SUFFICES ASSUME NEW m \in Node PROVE Variants(r.voter, m) \/ Covered(r.voter, e, r.slash, m)
    BY DEF SlashFor
<1>1. Variants(v, m) \/ Covered(v, e, slash, m)
    BY DEF SlashFor
<1>2. PICK c : c = IncSlashPoints(slash, ObservePoints, {n})
    OBVIOUS
<1>3. CASE AlreadySigned(v, o, n)
    <2>1. r.voter = v /\ r.slash = IF d THEN c ELSE DecSlashPoints(c, ObservePoints, {n})
        BY <1>2, <1>3 DEF processTxInAttestation
    <2>2. /\ c[m] = IF m = n THEN slash[m] + ObservePoints ELSE slash[m]
          /\ DecSlashPoints(c, ObservePoints, {n})[m] =
                IF m = n THEN SafeSub(c[m], ObservePoints) ELSE c[m]
        BY <1>2 DEF IncSlashPoints, DecSlashPoints
    <2>3. ObservePoints \in Nat /\ slash[m] \in Nat
        BY InAssumption
    <2>4. r.slash[m] = slash[m] \/ r.slash[m] = slash[m] + ObservePoints
        BY <2>1, <2>2, <2>3 DEF SafeSub
    <2>5. /\ VoteOwed(v, m) \in Nat /\ FinalOwed(v, m) \in Nat /\ LackOwed(v, m) \in Nat
          /\ ErrataOwed(e, m) \in Nat /\ BaseSlash \in Nat
        BY OwedType
    <2> QED
        BY <1>1, <2>1, <2>3, <2>4, <2>5 DEF Covered
<1>4. CASE ~AlreadySigned(v, o, n)
    <2>1. r = TallyIn(Add(v, o, n), c, active, o, n)
        BY <1>2, <1>4 DEF processTxInAttestation
    <2> QED
        BY <1>1, <1>2, <1>4, <2>1, TallySlash
<1> QED
    BY <1>3, <1>4

(* An errata vote is charged, settled or taken late like any other.        *)
LEMMA ErrataVoteSlash ==
    ASSUME TypeOK, SlashInv, NEW n \in active, NEW d \in BOOLEAN, ErrataVote(n, d),
           NEW e, e = errata', NEW s, s = slash'
    PROVE  SlashFor(voter, e, s)
<1> SUFFICES ASSUME NEW m \in Node, ~Variants(voter, m) PROVE Covered(voter, e, s, m)
    BY DEF SlashFor
<1>1. Covered(voter, errata, slash, m)
    BY DEF SlashInv, SlashFor
<1> DEFINE signers == errata.signers \cup {n}
           agreed  == HasSuperMajority(Cardinality(signers \cap active), Cardinality(active))
<1>2. /\ errata \in [signers : SUBSET Node, height : Nat] /\ slash \in [Node -> Nat]
      /\ n \in Node /\ slash[m] \in Nat
    BY DEF TypeOK
<1>3. e = [errata EXCEPT !.signers = signers]
    BY DEF ErrataVote
<1>4. e.signers = signers /\ e.height = errata.height
    BY <1>2, <1>3
<1>5. /\ VoteOwed(voter, m) \in Nat /\ FinalOwed(voter, m) \in Nat /\ LackOwed(voter, m) \in Nat
      /\ ErrataOwed(errata, m) \in Nat /\ ErrataOwed(e, m) \in Nat
      /\ ObservePoints \in Nat /\ LackPenalty \in Nat /\ BaseSlash \in Nat
    BY OwedType
<1>6. m # n \/ n \in errata.signers => ErrataOwed(e, m) = ErrataOwed(errata, m)
    BY <1>4 DEF ErrataOwed
<1>7. m = n => ErrataOwed(e, m) = IF errata.height = 0 THEN ObservePoints ELSE 0
    BY <1>4 DEF ErrataOwed
<1>8. m = n /\ n \notin errata.signers /\ errata.height # 0 => ErrataOwed(errata, m) = LackPenalty
    BY DEF ErrataOwed
<1>9. ASSUME NEW p \in Nat
      PROVE  /\ IncSlashPoints(slash, p, {n})[m] = IF m = n THEN slash[m] + p ELSE slash[m]
             /\ DecSlashPoints(slash, p, {n})[m] = IF m = n THEN SafeSub(slash[m], p) ELSE slash[m]
    BY DEF IncSlashPoints, DecSlashPoints
<1>10. slash[m] >= BaseSlash + VoteOwed(voter, m) + FinalOwed(voter, m)
                     + LackOwed(voter, m) + ErrataOwed(errata, m)
    BY <1>1 DEF Covered
<1> SUFFICES s[m] >= BaseSlash + VoteOwed(voter, m) + FinalOwed(voter, m)
                     + LackOwed(voter, m) + ErrataOwed(e, m)
    BY DEF Covered
<1>11. CASE n \in errata.signers
    <2>1. s = slash \/ s = IncSlashPoints(slash, ObservePoints, {n})
        BY <1>11 DEF ErrataVote
    <2>2. s[m] = slash[m] \/ s[m] = slash[m] + ObservePoints
        BY <1>5, <1>9, <2>1
    <2> QED
        BY <1>2, <1>5, <1>6, <1>10, <1>11, <2>2
<1>12. CASE n \notin errata.signers /\ ~agreed
    <2>1. s = IncSlashPoints(slash, ObservePoints, {n})
        BY <1>12 DEF ErrataVote
    <2>2. s[m] = IF m = n THEN slash[m] + ObservePoints ELSE slash[m]
        BY <1>5, <1>9, <2>1
    <2>3. m = n => ErrataOwed(e, m) <= ObservePoints
        BY <1>5, <1>7
    <2> QED
        BY <1>2, <1>5, <1>6, <1>10, <2>2, <2>3
<1>13. CASE n \notin errata.signers /\ agreed
    <2>1. errata.height # 0
        BY <1>2, <1>13 DEF ErrataVote
    <2>2. s = slash \/ s = DecSlashPoints(slash, LackPenalty, {n})
        BY <1>13 DEF ErrataVote
    <2>3. s[m] = slash[m] \/ (m = n /\ s[m] = SafeSub(slash[m], LackPenalty))
        BY <1>5, <1>9, <2>2
    <2>4. CASE m # n
        BY <1>6, <1>10, <2>3, <2>4
    <2>5. CASE m = n
        <3>1. ErrataOwed(e, m) = 0 /\ ErrataOwed(errata, m) = LackPenalty
            BY <1>7, <1>8, <1>13, <2>1, <2>5
        <3> QED
            BY <1>2, <1>5, <1>10, <2>3, <3>1 DEF SafeSub
    <2> QED
        BY <2>4, <2>5
<1> QED
    BY <1>11, <1>12, <1>13

(* The errata vote that reverts the tx settles the errata.                 *)
LEMMA ErrataRevertSlash ==
    ASSUME TypeOK, now # 0, SlashInv, NEW n \in active, NEW d, NEW f, ErrataRevert(n, d, f),
           NEW e, e = errata', NEW s, s = slash', NEW w, w = voter'
    PROVE  SlashFor(w, e, s)
<1> SUFFICES ASSUME NEW m \in Node, ~Variants(w, m) PROVE Covered(w, e, s, m)
    BY DEF SlashFor
<1>1. w = voter \/ w = SetReverted(voter)
    BY DEF ErrataRevert
<1>2. /\ w.Txs = voter.Txs /\ w.Height = voter.Height
      /\ w.FinalisedHeight = voter.FinalisedHeight
      /\ (w.Tx = NoTx) = (voter.Tx = NoTx)
      /\ voter.Tx # NoTx => w.Tx.obs = voter.Tx.obs
    BY <1>1, RevertedVoter DEF TypeOK
<1>3. /\ Variants(w, m) = Variants(voter, m) /\ VoteOwed(w, m) = VoteOwed(voter, m)
      /\ FinalOwed(w, m) = FinalOwed(voter, m) /\ LackOwed(w, m) = LackOwed(voter, m)
    BY ONLY <1>2, SameOwed
<1>4. Covered(voter, errata, slash, m)
    BY <1>3 DEF SlashInv, SlashFor
<1> DEFINE signers == errata.signers \cup {n}
           c == IncSlashPoints(slash, ObservePoints, {n})
<1>5. /\ errata.height = 0 /\ e = [signers |-> signers, height |-> now] /\ n \notin errata.signers
      /\ s = SettleSlash(c, active, signers)
    BY DEF ErrataRevert
<1>6. slash \in [Node -> Nat] /\ slash[m] \in Nat /\ n \in Node /\ now \in Nat
    BY DEF TypeOK
<1>7. /\ VoteOwed(voter, m) \in Nat /\ FinalOwed(voter, m) \in Nat /\ LackOwed(voter, m) \in Nat
      /\ ErrataOwed(errata, m) \in Nat /\ ErrataOwed(e, m) \in Nat
      /\ ObservePoints \in Nat /\ LackPenalty \in Nat /\ BaseSlash \in Nat
    BY OwedType
<1>8. c \in [Node -> Nat]
    BY <1>6, <1>7, SlashType
<1>9. c[m] = IF m = n THEN slash[m] + ObservePoints ELSE slash[m]
    BY DEF IncSlashPoints
<1>10. ErrataOwed(errata, m) = IF m \in errata.signers THEN ObservePoints ELSE 0
    BY <1>5 DEF ErrataOwed
<1>11. ErrataOwed(e, m) = IF m \in active \ signers THEN LackPenalty ELSE 0
    BY <1>5, <1>6 DEF ErrataOwed
<1>12. slash[m] >= BaseSlash + VoteOwed(voter, m) + FinalOwed(voter, m)
                     + LackOwed(voter, m) + ErrataOwed(errata, m)
    BY <1>4 DEF Covered
<1> HIDE DEF c
<1>13. s[m] = IF m \in signers THEN SafeSub(c[m], ObservePoints)
              ELSE IF m \in active THEN c[m] + LackPenalty ELSE c[m]
    BY <1>5, <1>7, <1>8, SlashValue
<1> SUFFICES s[m] >= BaseSlash + VoteOwed(voter, m) + FinalOwed(voter, m)
                     + LackOwed(voter, m) + ErrataOwed(e, m)
    BY <1>3 DEF Covered
<1>14. CASE m \in signers
    <2>1. c[m] >= BaseSlash + VoteOwed(voter, m) + FinalOwed(voter, m)
                     + LackOwed(voter, m) + ObservePoints
        BY <1>5, <1>6, <1>7, <1>9, <1>10, <1>12, <1>14
    <2>2. s[m] = SafeSub(c[m], ObservePoints) /\ ErrataOwed(e, m) = 0 /\ c[m] \in Nat
        BY <1>8, <1>11, <1>13, <1>14
    <2> QED
        BY <1>7, <2>1, <2>2 DEF SafeSub
<1>15. CASE m \notin signers
    <2>1. c[m] = slash[m] /\ ErrataOwed(errata, m) = 0
        BY <1>9, <1>10, <1>15
    <2>2. s[m] = c[m] + ErrataOwed(e, m)
        BY <1>6, <1>7, <1>11, <1>13, <1>15, <2>1
    <2> QED
        BY <1>6, <1>7, <1>12, <2>1, <2>2
<1> QED
    BY <1>14, <1>15

(* Before a churn every step leaves what is owed covered.                  *)
LEMMA NextSlash ==
    churns' = 0 /\ IInv /\ StableInv /\ NoChurnInv /\ SlashInv /\ [Next]_vars => SlashInv'
<1> SUFFICES ASSUME churns' = 0, IInv, StableInv, NoChurnInv, SlashInv, [Next]_vars
             PROVE  SlashInv'
    OBVIOUS
<1>0. /\ voter \in Voter /\ VoterInv(voter) /\ FinalMarked(voter) /\ now \in Nat \ {0}
      /\ CountInv(voter) /\ active \in SUBSET Node /\ slash \in [Node -> Nat]
      /\ reports \subseteq Observation /\ TypeOK
    BY InAssumption DEF IInv, TypeOK, StableInv, NoChurnInv
<1>1. active' = active
    BY NextNoChurn
<1>2. ASSUME NEW w, w = voter', NEW e, e = errata', NEW s, s = slash', SlashFor(w, e, s)
      PROVE  SlashInv'
    BY <1>1, <1>2 DEF SlashInv, SlashFor, Covered, LackOwed, ErrataOwed
<1>3. ASSUME UNCHANGED <<voter, errata, slash>> PROVE SlashInv'
    BY <1>2, <1>3 DEF SlashInv
<1>4. ASSUME NEW v \in Voter, VoterInv(v), CountInv(v), NEW o \in Observation, NEW S,
             NEW k \in BOOLEAN, NEW a \in Answers, k => Agreed(v, o),
             handleObservedTxInQuorum(v, o, S, k, a), UNCHANGED errata,
             NEW s, s = slash', SlashFor(v, errata, s)
      PROVE  SlashInv'
    <2>1. PICK w : w = voter'
        OBVIOUS
    <2>2. /\ w.Txs = v.Txs /\ w.Height = v.Height /\ w.FinalisedHeight = v.FinalisedHeight
          /\ (w.Tx = NoTx) = (v.Tx = NoTx)
          /\ v.Tx # NoTx => w.Tx.obs = v.Tx.obs
        BY <1>0, <1>1, <1>4, <2>1, HandleCount
    <2>3. \A m \in Node : /\ Variants(w, m) = Variants(v, m) /\ VoteOwed(w, m) = VoteOwed(v, m)
                          /\ FinalOwed(w, m) = FinalOwed(v, m) /\ LackOwed(w, m) = LackOwed(v, m)
        BY ONLY <2>2, SameOwed
    <2>4. SlashFor(w, errata, s)
        BY <1>4, <2>3 DEF SlashFor, Covered
    <2> QED
        BY <1>2, <1>4, <2>1, <2>4
<1>5. ASSUME NEW n \in Node, NEW o \in reports, NEW a \in Answers, ObservedTxInMsg(n, o, a)
      PROVE  SlashInv'
    <2>1. PICK r : r = processTxInAttestation(voter, active, o, n, TRUE)
        OBVIOUS
    <2>2. o \in Observation /\ n \in active
        BY <1>0, <1>5 DEF ObservedTxInMsg
    <2>3. /\ \E S : handleObservedTxInQuorum(r.voter, o, S, r.ok, a)
          /\ slash' = r.slash /\ UNCHANGED errata
        BY <1>5, <2>1 DEF ObservedTxInMsg
    <2>4. AttestationFacts(voter, r, active)
        BY <1>0, <2>1, <2>2, AttestationLemma
    <2>5. CountStep(voter, r.voter, r.ok, o)
        BY <1>0, <2>1, <2>2, AttestationCount
    <2>6. r.voter \in Voter /\ VoterInv(r.voter) /\ r.ok \in BOOLEAN
        BY <2>4 DEF AttestationFacts
    <2>7. CountInv(r.voter) /\ (r.ok => Agreed(r.voter, o))
        BY <2>5 DEF CountStep
    <2>8. SlashFor(r.voter, errata, r.slash)
        BY <1>0, <2>1, <2>2, AttestationSlash DEF SlashInv
    <2> QED
        BY <1>4, <2>2, <2>3, <2>6, <2>7, <2>8
<1>6. ASSUME NEW n \in Node, QuorumAttest(n) PROVE SlashInv'
    <2>1. msg.tx \in Observation
        BY <1>6 DEF QuorumAttest, IInv, TypeOK, QuorumMsg
    <2>2. CASE n \notin active
        BY <1>3, <1>6, <2>2 DEF QuorumAttest
    <2>3. CASE n \in active
        <3>1. PICK r : r = processTxInAttestation(voter, active, msg.tx, n, FALSE)
            OBVIOUS
        <3>2. voter' = r.voter /\ slash' = r.slash /\ UNCHANGED errata
            BY <1>6, <2>3, <3>1 DEF QuorumAttest
        <3>3. SlashFor(r.voter, errata, r.slash)
            BY <1>0, <2>1, <2>3, <3>1, AttestationSlash DEF SlashInv
        <3> QED
            BY <1>2, <3>2, <3>3
    <2> QED
        BY <2>2, <2>3
<1>7. ASSUME NEW a \in Answers, QuorumEnd(a) PROVE SlashInv'
    <2>1. /\ msg \in QuorumMsg /\ msg # NoMsg /\ msg.tx \in Observation /\ msg.crossed \in BOOLEAN
        BY <1>7 DEF QuorumEnd, IInv, TypeOK, QuorumMsg
    <2>2. msg.crossed => Agreed(voter, msg.tx)
        BY <2>1 DEF NoChurnInv
    <2>3. /\ handleObservedTxInQuorum(voter, msg.tx, msg.seen, msg.crossed, a)
          /\ UNCHANGED <<errata, slash>>
        BY <1>7 DEF QuorumEnd
    <2> QED
        BY <1>0, <1>4, <2>1, <2>2, <2>3 DEF SlashInv
<1>8. ASSUME NEW n \in Node, NEW d \in BOOLEAN, NEW f \in BOOLEAN, ErrataTx(n, d, f)
      PROVE  SlashInv'
    <2>1. n \in active /\ (ErrataVote(n, d) \/ ErrataRevert(n, d, f))
        BY <1>8 DEF ErrataTx
    <2>2. PICK e, s, w : e = errata' /\ s = slash' /\ w = voter'
        OBVIOUS
    <2>3. CASE ErrataVote(n, d)
        <3>1. SlashFor(voter, e, s)
            BY <1>0, <2>1, <2>2, <2>3, ErrataVoteSlash
        <3>2. w = voter
            BY <2>2, <2>3 DEF ErrataVote
        <3> QED
            BY <1>2, <2>2, <3>1, <3>2
    <2>4. CASE ErrataRevert(n, d, f)
        <3>1. SlashFor(w, e, s)
            BY <1>0, <2>1, <2>2, <2>4, ErrataRevertSlash
        <3> QED
            BY <1>2, <2>2, <3>1
    <2> QED
        BY <2>1, <2>3, <2>4
<1>9. ASSUME NEW o \in reports, NEW S \in SUBSET Node \ {{}}, QuorumBegin(o, S) PROVE SlashInv'
    BY <1>3, <1>9 DEF QuorumBegin
<1>10. ASSUME NEW S \in SUBSET Node, Churn(S) PROVE SlashInv'
    BY <1>1, <1>10 DEF Churn
<1>11. ASSUME NEW v \in Vault, VaultInactive(v) PROVE SlashInv'
    BY <1>3, <1>11 DEF VaultInactive
<1>12. CASE NextBlock \/ UNCHANGED vars
    BY <1>3, <1>12 DEF NextBlock, vars
<1> QED
    BY <1>5, <1>6, <1>7, <1>8, <1>9, <1>10, <1>11, <1>12 DEF Next

(* Before a churn nothing is given back that was not charged.              *)
LEMMA SlashInvariant == Spec => [](IInv /\ (churns = 0 => SlashInv))
<1>1. Init => SlashInv
    <2> SUFFICES ASSUME Init, NEW n \in Node PROVE Covered(voter, errata, slash, n)
        BY DEF SlashInv, SlashFor
    <2>1. /\ voter.Txs = << >> /\ voter.Tx = NoTx
          /\ errata.signers = {} /\ errata.height = 0 /\ slash[n] = BaseSlash
        BY DEF Init, NewErrataTxVoter, NewVoter
    <2>2. ~Signed(voter, n, FALSE) /\ ~Signed(voter, n, TRUE)
        BY <2>1 DEF Signed
    <2>3. /\ VoteOwed(voter, n) = 0 /\ FinalOwed(voter, n) = 0
          /\ LackOwed(voter, n) = 0 /\ ErrataOwed(errata, n) = 0
        BY <2>1, <2>2 DEF VoteOwed, FinalOwed, LackOwed, ErrataOwed
    <2>4. BaseSlash \in Nat
        BY InAssumption
    <2> QED
        BY <2>1, <2>3, <2>4 DEF Covered
<1>2. IInv /\ StableInv /\ (churns = 0 => NoChurnInv) /\ (churns = 0 => SlashInv) /\ [Next]_vars
        => (churns = 0 => SlashInv)'
    BY NextSlash, ChurnsGrow
<1> QED
    BY <1>1, <1>2, NoChurnInvariant, PTL DEF Spec

-----------------------------------------------------------------------------
(* The lack-of-observation penalty, until the first churn and as long as   *)
(* only final observations are made                                        *)

FinalOnly(v) == \A i \in DOMAIN v.Txs : IsFinal(v.Txs[i].obs)

(* b is what the messages handled so far may have cost one node.  Before   *)
(* the tx is agreed nobody has been given points back; afterwards who is   *)
(* not among its attesters has the penalty, and who is on its list of      *)
(* signers has no more than the cost of the messages.                      *)
PenaltyFor(v, s, b) ==
    \A m \in Node :
        IF v.FinalisedHeight = 0
        THEN v.Tx = NoTx /\ s[m] >= BaseSlash /\ s[m] <= BaseSlash + b
        ELSE /\ m \in active \ GetConsensusSigners(v) => s[m] >= BaseSlash + LackPenalty
             /\ s[m] <= BaseSlash + b + LackPenalty
             /\ m \in v.Tx.signers => s[m] <= BaseSlash + b

(* Messages sent, without those of the open quorum message still to come.  *)
Handled == sent - (IF msg = NoMsg THEN 0 ELSE Cardinality(msg.left))

(* The part of the invariant that counts messages.                         *)
SentInv ==
    /\ sent <= MaxMsgs
    /\ msg # NoMsg => Cardinality(msg.left) <= sent

PenaltyInv ==
    errata.signers = {} /\ FinalOnly(voter) =>
        PenaltyFor(voter, slash, ObservePoints * Handled)

(* What more messages may cost is more.                                    *)
LEMMA CostGrows ==
    ASSUME NEW p \in Nat, NEW j \in Nat, NEW k \in Nat, j <= k
    PROVE  p * j \in Nat /\ p * k \in Nat /\ p * j <= p * k /\ p * (j + 1) = p * j + p
<1>1. PICK i \in Nat : k = j + i
    <2>1. k - j \in Nat /\ k = j + (k - j)
        OBVIOUS
    <2> QED
        BY <2>1
<1>2. p * k = p * j + p * i
    BY <1>1
<1>3. p * j \in Nat /\ p * i \in Nat /\ p * k \in Nat
    OBVIOUS
<1>4. p * (j + 1) = p * j + p
    OBVIOUS
<1> QED
    BY <1>2, <1>3, <1>4

(* One attestation of a final observation.                                 *)
LEMMA TallyPenalty ==
    ASSUME NEW v \in Voter, VoterInv(v), now \in Nat \ {0}, active \in SUBSET Node,
           NEW s \in [Node -> Nat], NEW b \in Nat, PenaltyFor(v, s, b),
           NEW o \in Observation, NEW n \in active,
           NEW c, c = IncSlashPoints(s, ObservePoints, {n}),
           NEW w, w = Add(v, o, n), FinalOnly(w), NEW r, r = TallyIn(w, c, active, o, n)
    PROVE  PenaltyFor(r.voter, r.slash, b + ObservePoints)
<1> SUFFICES ASSUME NEW m \in Node
             PROVE  IF r.voter.FinalisedHeight = 0
                    THEN /\ r.voter.Tx = NoTx /\ r.slash[m] >= BaseSlash
                         /\ r.slash[m] <= BaseSlash + (b + ObservePoints)
                    ELSE /\ m \in active \ GetConsensusSigners(r.voter) =>
                               r.slash[m] >= BaseSlash + LackPenalty
                         /\ r.slash[m] <= BaseSlash + (b + ObservePoints) + LackPenalty
                         /\ m \in r.voter.Tx.signers => r.slash[m] <= BaseSlash + (b + ObservePoints)
    BY DEF PenaltyFor
<1>1. w \in Voter /\ AddedTo(v, w, o, n) /\ n \in Node
    BY AddType, AddEntries
<1>2. w.Tx = v.Tx /\ w.Height = v.Height /\ w.FinalisedHeight = v.FinalisedHeight
    BY <1>1 DEF AddedTo
<1>3. /\ c \in [Node -> Nat] /\ c[m] \in Nat /\ s[m] \in Nat
      /\ ObservePoints \in Nat /\ LackPenalty \in Nat /\ BaseSlash \in Nat
    BY SlashType, InAssumption
<1>4. c[m] = IF m = n THEN s[m] + ObservePoints ELSE s[m]
    BY DEF IncSlashPoints
<1>5. c[m] >= s[m] /\ c[m] <= s[m] + ObservePoints
    BY <1>3, <1>4
<1>6. IsFinal(o)
    <2>1. PICK k \in DOMAIN w.Txs : w.Txs[k].obs = o
        BY <1>1 DEF AddedTo
    <2> QED
        BY <2>1 DEF FinalOnly
<1>7. IF v.FinalisedHeight = 0
      THEN v.Tx = NoTx /\ s[m] >= BaseSlash /\ s[m] <= BaseSlash + b
      ELSE /\ m \in active \ GetConsensusSigners(v) => s[m] >= BaseSlash + LackPenalty
           /\ s[m] <= BaseSlash + b + LackPenalty
           /\ m \in v.Tx.signers => s[m] <= BaseSlash + b
    BY DEF PenaltyFor
<1>8. m \in GetConsensusSigners(v) => m \in GetConsensusSigners(w)
    BY <1>1 DEF AddedTo, GetConsensusSigners, ClassSigners
<1> DEFINE g == GetTx(w, active)
           fin  == [w EXCEPT !.Height = now, !.FinalisedHeight = now, !.Tx = g]
           late == [w EXCEPT !.Tx.signers = @ \cup {n}]
           Fin  == /\ r.voter = fin /\ r.slash = SettleSlash(c, active, GetConsensusSigners(fin))
                   /\ HasFinalised(w, active) /\ w.FinalisedHeight = 0
           Late == /\ r.voter = late /\ r.slash = DecSlashPoints(c, ObservePoints + LackPenalty, {n})
                   /\ w.FinalisedHeight # 0 /\ n \notin w.Tx.signers
                   /\ IsFinal(w.Tx.obs) = IsFinal(o) /\ EqualsEx(w.Tx.obs, o)
           Same == r.voter = w /\ r.slash = c
<1>9. Fin \/ Late \/ Same
    <2>1. CASE HasFinalised(w, active)
        BY <2>1 DEF TallyIn, Settle, AcceptLate, LateVote
    <2>2. CASE ~HasFinalised(w, active)
        BY <1>6, <2>2 DEF TallyIn
    <2> QED
        BY <2>1, <2>2
<1>10. CASE Fin
    <2>1. r.voter = fin /\ r.slash = SettleSlash(c, active, GetConsensusSigners(fin))
        BY <1>10
    <2>2. fin.Tx = g /\ fin.FinalisedHeight = now /\ fin.Txs = w.Txs
        BY <1>1 DEF Voter
    <2>3. w.Tx = NoTx /\ s[m] >= BaseSlash /\ s[m] <= BaseSlash + b
        BY <1>2, <1>7, <1>10
    <2>4. \E i \in DOMAIN w.Txs : g = w.Txs[i]
        <3>1. g # NoTx
            BY <1>10 DEF HasFinalised
        <3>2. g = getConsensusTx(w, active, TRUE) \/ g = getConsensusTx(w, active, FALSE)
            BY <2>3, <3>1 DEF GetTx
        <3>3. ASSUME NEW f \in BOOLEAN, getConsensusTx(w, active, f) # NoTx
              PROVE  \E i \in DOMAIN w.Txs : getConsensusTx(w, active, f) = w.Txs[i]
            BY <1>1, <3>3, ConsensusTxType
        <3> QED
            BY <3>1, <3>2, <3>3
    <2>5. g # NoTx
        BY <1>10 DEF HasFinalised
    <2> HIDE DEF g, fin
    <2>6. m \in g.signers => m \in GetConsensusSigners(fin)
        BY <2>2, <2>4, <2>5 DEF GetConsensusSigners, ClassSigners, EqualsEx
    <2>7. r.slash[m] = IF m \in GetConsensusSigners(fin) THEN SafeSub(c[m], ObservePoints)
                       ELSE IF m \in active THEN c[m] + LackPenalty ELSE c[m]
        <3>1. PICK C : C = GetConsensusSigners(fin)
            OBVIOUS
        <3>2. SettleSlash(c, active, C)[m] = IF m \in C THEN SafeSub(c[m], ObservePoints)
                                             ELSE IF m \in active THEN c[m] + LackPenalty ELSE c[m]
            <4>1. c \in [Node -> Nat] /\ ObservePoints \in Nat /\ m \in Node
                BY <1>3
            <4> QED
                BY ONLY <4>1, SlashValue
        <3> QED
            BY <2>1, <3>1, <3>2
    <2>8. CASE m \in GetConsensusSigners(fin)
        <3>1. r.slash[m] \in Nat /\ r.slash[m] <= c[m]
            BY <1>3, <2>7, <2>8 DEF SafeSub
        <3> QED
            BY <1>3, <1>5, <2>1, <2>2, <2>3, <2>8, <3>1
    <2>9. CASE m \notin GetConsensusSigners(fin)
        <3>1. m \notin r.voter.Tx.signers
            BY <2>1, <2>2, <2>6, <2>9
        <3>2. /\ m \in active => r.slash[m] = c[m] + LackPenalty
              /\ r.slash[m] <= c[m] + LackPenalty
            BY <1>3, <2>7, <2>9
        <3>3. r.slash[m] \in Nat
            BY <1>3, <2>7, <2>9
        <3> QED
            BY <1>3, <1>5, <2>1, <2>2, <2>3, <3>1, <3>2, <3>3
    <2> QED
        BY <2>8, <2>9
<1>11. CASE Late
    <2>0. PICK x : x = late
        OBVIOUS
    <2>1. r.voter = x /\ r.slash = DecSlashPoints(c, ObservePoints + LackPenalty, {n})
        BY <1>11, <2>0
    <2>2. w.Tx \in ObservedTx
        BY <1>1, <1>2, <1>11 DEF Voter, VoterInv
    <2>3. x.Tx = [w.Tx EXCEPT !.signers = @ \cup {n}] /\ x.Txs = w.Txs /\ x.FinalisedHeight = w.FinalisedHeight
        BY <1>1, <2>0 DEF Voter
    <2>4. x.Tx.obs = w.Tx.obs /\ x.Tx.signers = w.Tx.signers \cup {n} /\ x.Tx \in ObservedTx
        BY <1>1, <2>2, <2>3 DEF ObservedTx
    <2>5. GetConsensusSigners(x) = GetConsensusSigners(w)
        <3>1. w.Tx # NoTx /\ x.Tx # NoTx
            BY <2>2, <2>4, InAssumption
        <3> QED
            BY <2>3, <2>4, <3>1 DEF GetConsensusSigners, ClassSigners
    <2>6. r.slash[m] = IF m = n THEN SafeSub(c[m], ObservePoints + LackPenalty) ELSE c[m]
        BY <2>1 DEF DecSlashPoints
    <2>7. v.FinalisedHeight # 0 /\ x.FinalisedHeight # 0
        BY <1>2, <1>11, <2>3
    <2>8. CASE m = n
        <3>1. n \in GetConsensusSigners(w)
            <4>1. PICK k \in DOMAIN w.Txs : w.Txs[k].obs = o /\ n \in w.Txs[k].signers
                BY <1>1 DEF AddedTo
            <4>2. w.Tx # NoTx
                BY <2>2, InAssumption
            <4> QED
                BY <1>1, <1>11, <4>1, <4>2 DEF GetConsensusSigners, ClassSigners, EqualsEx
        <3>2. s[m] <= BaseSlash + b + LackPenalty
            BY <1>7, <2>7
        <3>3. r.slash[m] \in Nat /\ r.slash[m] <= BaseSlash + b
            BY <1>3, <1>5, <2>6, <2>8, <3>2 DEF SafeSub
        <3> QED
            BY <1>3, <2>1, <2>5, <2>7, <2>8, <3>1, <3>3
    <2>9. CASE m # n
        <3>1. r.slash[m] = s[m]
            BY <1>4, <2>6, <2>9
        <3>2. m \in x.Tx.signers => m \in v.Tx.signers
            BY <1>2, <2>4, <2>9
        <3>3. m \in active \ GetConsensusSigners(x) => m \in active \ GetConsensusSigners(v)
            BY <1>8, <2>5
        <3> QED
            BY <1>3, <1>7, <2>1, <2>7, <3>1, <3>2, <3>3
    <2> QED
        BY <2>8, <2>9
<1>12. CASE Same
    <2>1. r.voter = w /\ r.slash = c
        BY <1>12
    <2>2. CASE w.FinalisedHeight = 0
        BY <1>2, <1>3, <1>5, <1>7, <2>1, <2>2
    <2>3. CASE w.FinalisedHeight # 0
        <3>1. m \in active \ GetConsensusSigners(w) => s[m] >= BaseSlash + LackPenalty
            BY <1>2, <1>7, <1>8, <2>3
        <3>2. /\ s[m] <= BaseSlash + b + LackPenalty
              /\ m \in w.Tx.signers => s[m] <= BaseSlash + b
            BY <1>2, <1>7, <2>3
        <3> QED
            BY <1>3, <1>5, <2>1, <2>3, <3>1, <3>2
    <2> QED
        BY <2>2, <2>3
<1> QED
    BY <1>9, <1>10, <1>11, <1>12

(* A duplicate costs its sender at most the points of one message.         *)
LEMMA AttestationPenalty ==
    ASSUME NEW v \in Voter, VoterInv(v), now \in Nat \ {0}, active \in SUBSET Node,
           slash \in [Node -> Nat], NEW b \in Nat, FinalOnly(v) => PenaltyFor(v, slash, b),
           NEW o \in Observation, NEW n \in active, NEW d \in BOOLEAN,
           NEW r, r = processTxInAttestation(v, active, o, n, d), FinalOnly(r.voter)
    PROVE  PenaltyFor(r.voter, r.slash, b + ObservePoints)
<1>1. PICK c : c = IncSlashPoints(slash, ObservePoints, {n})
    OBVIOUS
<1>2. n \in Node /\ ObservePoints \in Nat /\ LackPenalty \in Nat /\ BaseSlash \in Nat
    BY InAssumption
<1>3. CASE AlreadySigned(v, o, n)
    <2>1. r.voter = v /\ r.slash = IF d THEN c ELSE DecSlashPoints(c, ObservePoints, {n})
        BY <1>1, <1>3 DEF processTxInAttestation
    <2>2. PenaltyFor(v, slash, b)
        BY <2>1
    <2>3. \A m \in Node : r.slash[m] \in Nat /\ r.slash[m] >= slash[m] /\ r.slash[m] <= slash[m] + ObservePoints
        <3> SUFFICES ASSUME NEW m \in Node
                     PROVE  r.slash[m] \in Nat /\ r.slash[m] >= slash[m] /\ r.slash[m] <= slash[m] + ObservePoints
            OBVIOUS
        <3>1. /\ c[m] = IF m = n THEN slash[m] + ObservePoints ELSE slash[m]
              /\ DecSlashPoints(c, ObservePoints, {n})[m] =
                    IF m = n THEN SafeSub(c[m], ObservePoints) ELSE c[m]
            BY <1>1 DEF IncSlashPoints, DecSlashPoints
        <3> QED
            BY <1>2, <2>1, <3>1 DEF SafeSub
    <2> SUFFICES ASSUME NEW m \in Node
                 PROVE  IF v.FinalisedHeight = 0
                        THEN /\ v.Tx = NoTx /\ r.slash[m] >= BaseSlash
                             /\ r.slash[m] <= BaseSlash + (b + ObservePoints)
                        ELSE /\ m \in active \ GetConsensusSigners(v) =>
                                   r.slash[m] >= BaseSlash + LackPenalty
                             /\ r.slash[m] <= BaseSlash + (b + ObservePoints) + LackPenalty
                             /\ m \in v.Tx.signers => r.slash[m] <= BaseSlash + (b + ObservePoints)
        BY <2>1 DEF PenaltyFor
    <2>4. r.slash[m] \in Nat /\ slash[m] \in Nat /\ r.slash[m] >= slash[m] /\ r.slash[m] <= slash[m] + ObservePoints
        BY <2>3
    <2> QED
        BY <1>2, <2>2, <2>4 DEF PenaltyFor
<1>4. CASE ~AlreadySigned(v, o, n)
    <2>1. PICK w : w = Add(v, o, n)
        OBVIOUS
    <2>2. r = TallyIn(w, c, active, o, n)
        BY <1>1, <1>4, <2>1 DEF processTxInAttestation
    <2>3. w \in Voter /\ AddedTo(v, w, o, n)
        BY <1>2, <2>1, AddType, AddEntries
    <2>4. r.voter.Txs = w.Txs
        BY <2>2, <2>3 DEF TallyIn, Settle, AcceptLate, Voter
    <2>5. FinalOnly(w)
        BY <2>4 DEF FinalOnly
    <2>6. FinalOnly(v)
        BY <2>3, <2>5 DEF FinalOnly, AddedTo
    <2> QED
        BY <1>1, <2>1, <2>2, <2>5, <2>6, TallyPenalty
<1> QED
    BY <1>3, <1>4

(* The messages still to come have been counted: q is the open message,    *)
(* k the number sent.                                                      *)
LEMMA HandledNat ==
    ASSUME NEW q \in QuorumMsg \cup {NoMsg}, NEW k \in Nat, q # NoMsg => Cardinality(q.left) <= k,
           NEW h, h = k - (IF q = NoMsg THEN 0 ELSE Cardinality(q.left))
    PROVE  h \in Nat /\ h <= k
<1>1. CASE q = NoMsg
    BY <1>1
<1>2. CASE q # NoMsg
    <2>1. q.left \in SUBSET Node
        BY <1>2 DEF QuorumMsg
    <2>2. IsFiniteSet(q.left)
        BY <2>1, InAssumption, FS_Subset
    <2>3. Cardinality(q.left) \in Nat
        BY <2>2, FS_CardinalityType
    <2> QED
        BY <1>2, <2>3
<1> QED
    BY <1>1, <1>2

(* So what is handled is a number, and no more than was sent.              *)
LEMMA HandledType ==
    TypeOK /\ SentInv => Handled \in Nat /\ Handled <= sent
BY HandledNat DEF TypeOK, SentInv, Handled

(* Taking an attester from the open message leaves one message less.       *)
LEMMA AttestHandled ==
    ASSUME TypeOK, SentInv, NEW n \in Node, QuorumAttest(n)
    PROVE  Handled + 1 <= Handled' /\ (msg' # NoMsg => Cardinality(msg'.left) <= sent')
<1>1. msg \in QuorumMsg /\ msg # NoMsg /\ n \in msg.left /\ sent' = sent /\ sent \in Nat
    BY DEF QuorumAttest, TypeOK
<1>2. msg'.left = msg.left \ {n}
    BY <1>1 DEF QuorumAttest, QuorumMsg
<1>3. IsFiniteSet(msg.left)
    BY <1>1, InAssumption, FS_Subset DEF QuorumMsg
<1>4. Cardinality(msg.left \ {n}) = Cardinality(msg.left) - 1 /\ Cardinality(msg.left) \in Nat
    BY <1>1, <1>3, FS_RemoveElement, FS_CardinalityType
<1>5. Cardinality(msg.left \ {n}) \in Nat
    BY <1>3, FS_Subset, FS_CardinalityType
<1>6. Cardinality(msg.left) <= sent
    BY <1>1 DEF SentInv
<1> QED
    BY <1>1, <1>2, <1>4, <1>5, <1>6 DEF Handled

(* No more messages are sent than the bound allows.                        *)
LEMMA NextSent == IInv /\ SentInv /\ [Next]_vars => SentInv'
<1> SUFFICES ASSUME TypeOK, SentInv, [Next]_vars PROVE SentInv'
    BY DEF IInv
<1>1. sent \in Nat /\ MaxMsgs \in Nat
    BY InAssumption DEF TypeOK
<1>2. ASSUME UNCHANGED <<sent, msg>> PROVE SentInv'
    BY <1>2 DEF SentInv
<1>3. ASSUME msg = NoMsg, sent' = sent + 1, sent + 1 <= MaxMsgs, msg' = msg PROVE SentInv'
    BY <1>1, <1>3 DEF SentInv
<1>4. ASSUME NEW n \in Node, NEW o \in reports, NEW a \in Answers, ObservedTxInMsg(n, o, a) PROVE SentInv'
    BY <1>3, <1>4 DEF ObservedTxInMsg, CanSend
<1>5. ASSUME NEW n \in Node, NEW d \in BOOLEAN, NEW f \in BOOLEAN, ErrataTx(n, d, f) PROVE SentInv'
    BY <1>3, <1>5 DEF ErrataTx, CanSend
<1>6. ASSUME NEW o \in reports, NEW S \in SUBSET Node \ {{}}, QuorumBegin(o, S) PROVE SentInv'
    <2>1. Cardinality(S) \in Nat
        BY InAssumption, FS_Subset, FS_CardinalityType
    <2>2. sent' = sent + Cardinality(S) /\ sent + Cardinality(S) <= MaxMsgs /\ msg'.left = S
        BY <1>6 DEF QuorumBegin, CanSend
    <2> QED
        BY <1>1, <2>1, <2>2 DEF SentInv
<1>7. ASSUME NEW n \in Node, QuorumAttest(n) PROVE SentInv'
    <2>1. sent' = sent
        BY <1>7 DEF QuorumAttest
    <2> QED
        BY <1>7, <2>1, AttestHandled DEF SentInv
<1>8. ASSUME NEW a \in Answers, QuorumEnd(a) PROVE SentInv'
    BY <1>8 DEF QuorumEnd, SentInv
<1>9. CASE NextBlock \/ (\E S \in SUBSET Node : Churn(S)) \/ (\E v \in Vault : VaultInactive(v))
           \/ UNCHANGED vars
    BY <1>2, <1>9 DEF NextBlock, Churn, VaultInactive, vars
<1> QED
    BY <1>4, <1>5, <1>6, <1>7, <1>8, <1>9 DEF Next

(* Before a churn every attestation, handler and block keeps the account.  *)
LEMMA NextPenalty ==
    churns' = 0 /\ IInv /\ StableInv /\ NoChurnInv /\ SentInv /\ PenaltyInv /\ [Next]_vars => PenaltyInv'
<1> SUFFICES ASSUME churns' = 0, IInv, StableInv, NoChurnInv, SentInv, PenaltyInv, [Next]_vars,
                    errata'.signers = {}, FinalOnly(voter')
             PROVE  PenaltyFor(voter, slash, ObservePoints * Handled)'
    BY DEF PenaltyInv, FinalOnly
<1>0. /\ voter \in Voter /\ VoterInv(voter) /\ FinalMarked(voter) /\ now \in Nat \ {0}
      /\ CountInv(voter) /\ active \in SUBSET Node /\ slash \in [Node -> Nat]
      /\ reports \subseteq Observation /\ TypeOK
    BY InAssumption DEF IInv, TypeOK, StableInv, NoChurnInv
<1>1. active' = active
    BY NextNoChurn
<1>2. ObservePoints \in Nat /\ LackPenalty \in Nat /\ BaseSlash \in Nat
    BY InAssumption
<1>3. Handled \in Nat
    BY HandledType DEF IInv
<1>4. ASSUME NEW w, w = voter', NEW s, s = slash', slash' \in [Node -> Nat],
             NEW j \in Nat, Handled' \in Nat, j <= Handled', PenaltyFor(w, s, ObservePoints * j)
      PROVE  PenaltyFor(voter, slash, ObservePoints * Handled)'
    <2>1. PICK h \in Nat : h = Handled'
        BY <1>4
    <2>2. PICK b \in Nat, d \in Nat : b = ObservePoints * j /\ d = ObservePoints * h /\ b <= d
        BY <1>2, <1>4, <2>1, CostGrows
    <2>3. PenaltyFor(w, s, d)
        <3> SUFFICES ASSUME NEW m \in Node
                     PROVE  IF w.FinalisedHeight = 0
                            THEN w.Tx = NoTx /\ s[m] >= BaseSlash /\ s[m] <= BaseSlash + d
                            ELSE /\ m \in active \ GetConsensusSigners(w) => s[m] >= BaseSlash + LackPenalty
                                 /\ s[m] <= BaseSlash + d + LackPenalty
                                 /\ m \in w.Tx.signers => s[m] <= BaseSlash + d
            BY DEF PenaltyFor
        <3>1. s[m] \in Nat /\ PenaltyFor(w, s, b)
            BY <1>4, <2>2
        <3> QED
            BY <1>2, <2>2, <3>1 DEF PenaltyFor
    <2> QED
        BY <1>1, <1>4, <2>1, <2>2, <2>3 DEF PenaltyFor
<1>5. slash' \in [Node -> Nat]
    BY NextIInv DEF IInv, TypeOK
<1>6. Handled' \in Nat
    <2>1. TypeOK' /\ SentInv'
        BY NextIInv, NextSent DEF IInv
    <2> QED
        BY <2>1, HandledNat DEF TypeOK, SentInv, Handled
<1>7. ASSUME UNCHANGED <<voter, slash, errata>>, Handled <= Handled'
      PROVE  PenaltyFor(voter, slash, ObservePoints * Handled)'
    BY <1>3, <1>4, <1>5, <1>6, <1>7 DEF PenaltyInv
<1>8. ASSUME NEW v \in Voter, VoterInv(v), CountInv(v), NEW o \in Observation, NEW S,
             NEW k \in BOOLEAN, NEW a \in Answers, k => Agreed(v, o),
             handleObservedTxInQuorum(v, o, S, k, a),
             NEW j \in Nat, j <= Handled',
             FinalOnly(v) => PenaltyFor(v, slash', ObservePoints * j)
      PROVE  PenaltyFor(voter, slash, ObservePoints * Handled)'
    <2>1. PICK w, s : w = voter' /\ s = slash'
        OBVIOUS
    <2>2. /\ w.Txs = v.Txs /\ w.FinalisedHeight = v.FinalisedHeight
          /\ (w.Tx = NoTx) = (v.Tx = NoTx)
          /\ v.Tx # NoTx => w.Tx.obs = v.Tx.obs /\ w.Tx.signers = v.Tx.signers
        BY <1>0, <1>1, <1>8, <2>1, HandleCount
    <2>3. FinalOnly(v)
        BY <2>1, <2>2 DEF FinalOnly
    <2>4. PenaltyFor(v, s, ObservePoints * j)
        BY <1>8, <2>1, <2>3
    <2>5. GetConsensusSigners(w) = GetConsensusSigners(v)
        BY <2>2 DEF GetConsensusSigners, ClassSigners
    <2>6. w.FinalisedHeight # 0 => w.Tx.signers = v.Tx.signers
        BY <1>8, <2>2 DEF VoterInv
    <2>7. PICK b : b = ObservePoints * j
        OBVIOUS
    <2>8. PenaltyFor(w, s, b)
        BY ONLY <2>2, <2>4, <2>5, <2>6, <2>7 DEF PenaltyFor
    <2> QED
        BY <1>4, <1>5, <1>6, <1>8, <2>1, <2>7, <2>8
<1>9. ASSUME NEW o \in Observation, NEW n \in active, NEW d \in BOOLEAN, UNCHANGED errata,
             NEW r, r = processTxInAttestation(voter, active, o, n, d), FinalOnly(r.voter)
      PROVE  PenaltyFor(r.voter, r.slash, ObservePoints * (Handled + 1))
    <2>1. PICK b \in Nat : b = ObservePoints * Handled /\ ObservePoints * (Handled + 1) = b + ObservePoints
        BY <1>2, <1>3, CostGrows
    <2>2. FinalOnly(voter) => PenaltyFor(voter, slash, b)
        BY <1>9, <2>1 DEF PenaltyInv
    <2>3. PenaltyFor(r.voter, r.slash, b + ObservePoints)
        BY <1>0, <1>9, <2>2, AttestationPenalty
    <2> QED
        BY <2>1, <2>3
<1>10. ASSUME NEW n \in Node, NEW o \in reports, NEW a \in Answers, ObservedTxInMsg(n, o, a)
       PROVE  PenaltyFor(voter, slash, ObservePoints * Handled)'
    <2>1. PICK r : r = processTxInAttestation(voter, active, o, n, TRUE)
        OBVIOUS
    <2>2. o \in Observation /\ n \in active
        BY <1>0, <1>10 DEF ObservedTxInMsg
    <2>3. /\ \E S : handleObservedTxInQuorum(r.voter, o, S, r.ok, a)
          /\ slash' = r.slash /\ UNCHANGED <<errata, msg>> /\ msg = NoMsg /\ sent' = sent + 1
        BY <1>10, <2>1 DEF ObservedTxInMsg, CanSend
    <2>4. AttestationFacts(voter, r, active)
        BY <1>0, <2>1, <2>2, AttestationLemma
    <2>5. CountStep(voter, r.voter, r.ok, o)
        BY <1>0, <2>1, <2>2, AttestationCount
    <2>6. r.voter \in Voter /\ VoterInv(r.voter) /\ r.ok \in BOOLEAN
        BY <2>4 DEF AttestationFacts
    <2>7. CountInv(r.voter) /\ (r.ok => Agreed(r.voter, o))
        BY <2>5 DEF CountStep
    <2>8. FinalOnly(r.voter) => PenaltyFor(r.voter, slash', ObservePoints * (Handled + 1))
        BY <1>9, <2>1, <2>2, <2>3
    <2>9. Handled + 1 \in Nat /\ Handled + 1 <= Handled'
        BY <1>0, <1>3, <2>3 DEF Handled, TypeOK
    <2> QED
        BY <1>8, <2>2, <2>3, <2>6, <2>7, <2>8, <2>9
<1>11. ASSUME NEW n \in Node, QuorumAttest(n)
       PROVE  PenaltyFor(voter, slash, ObservePoints * Handled)'
    <2>1. msg \in QuorumMsg /\ msg # NoMsg /\ msg.tx \in Observation /\ n \in msg.left
        BY <1>11 DEF QuorumAttest, IInv, TypeOK, QuorumMsg
    <2>2. Handled + 1 <= Handled' /\ UNCHANGED errata
        BY <1>11, AttestHandled DEF QuorumAttest, IInv
    <2>3. CASE n \notin active
        BY <1>3, <1>6, <1>7, <1>11, <2>2, <2>3 DEF QuorumAttest
    <2>4. CASE n \in active
        <3>1. PICK r : r = processTxInAttestation(voter, active, msg.tx, n, FALSE)
            OBVIOUS
        <3>2. voter' = r.voter /\ slash' = r.slash
            BY <1>11, <2>4, <3>1 DEF QuorumAttest
        <3>3. PenaltyFor(r.voter, r.slash, ObservePoints * (Handled + 1))
            BY <1>9, <2>1, <2>2, <2>4, <3>1, <3>2
        <3> QED
            BY <1>3, <1>4, <1>5, <1>6, <2>2, <3>2, <3>3
    <2> QED
        BY <2>3, <2>4
<1>12. ASSUME NEW a \in Answers, QuorumEnd(a)
       PROVE  PenaltyFor(voter, slash, ObservePoints * Handled)'
    <2>1. /\ msg \in QuorumMsg /\ msg # NoMsg /\ msg.tx \in Observation /\ msg.crossed \in BOOLEAN
        BY <1>12 DEF QuorumEnd, IInv, TypeOK, QuorumMsg
    <2>2. msg.crossed => Agreed(voter, msg.tx)
        BY <2>1 DEF NoChurnInv
    <2>3. /\ handleObservedTxInQuorum(voter, msg.tx, msg.seen, msg.crossed, a)
          /\ UNCHANGED <<errata, slash, sent>> /\ msg' = NoMsg /\ msg.left = {}
        BY <1>12 DEF QuorumEnd
    <2>4. Handled <= Handled'
        <3>1. Cardinality(msg.left) = 0
            BY <2>3, FS_EmptySet
        <3> QED
            BY <1>0, <2>1, <2>3, <3>1 DEF Handled, TypeOK
    <2>5. FinalOnly(voter) => PenaltyFor(voter, slash', ObservePoints * Handled)
        BY <2>3 DEF PenaltyInv
    <2> QED
        BY <1>0, <1>3, <1>8, <2>1, <2>2, <2>3, <2>4, <2>5
<1>13. ASSUME NEW n \in Node, NEW d \in BOOLEAN, NEW f \in BOOLEAN, ErrataTx(n, d, f)
       PROVE  FALSE
    <2>1. n \in errata'.signers
        BY <1>0, <1>13 DEF ErrataTx, ErrataVote, ErrataRevert, TypeOK
    <2> QED
        BY <2>1
<1>14. ASSUME NEW o \in reports, NEW S \in SUBSET Node \ {{}}, QuorumBegin(o, S)
       PROVE  PenaltyFor(voter, slash, ObservePoints * Handled)'
    <2>1. /\ msg = NoMsg /\ sent' = sent + Cardinality(S)
          /\ msg' = [tx |-> o, left |-> S, seen |-> {}, crossed |-> FALSE]
          /\ UNCHANGED <<voter, slash, errata>>
        BY <1>14 DEF QuorumBegin, CanSend
    <2>2. Cardinality(S) \in Nat
        BY InAssumption, FS_Subset, FS_CardinalityType
    <2>3. Handled <= Handled'
        BY <1>0, <2>1, <2>2 DEF Handled, TypeOK
    <2> QED
        BY <1>7, <2>1, <2>3
<1>15. CASE NextBlock \/ (\E S \in SUBSET Node : Churn(S)) \/ (\E v \in Vault : VaultInactive(v))
            \/ UNCHANGED vars
    <2>1. UNCHANGED <<voter, slash, errata, msg, sent>>
        BY <1>1, <1>15 DEF NextBlock, Churn, VaultInactive, vars
    <2>2. Handled' = Handled
        BY <2>1 DEF Handled
    <2> QED
        BY <1>3, <1>7, <2>1, <2>2
<1> QED
    BY <1>10, <1>11, <1>12, <1>13, <1>14, <1>15 DEF Next

(* The penalty is in order as long as nobody churned.                      *)
LEMMA PenaltyInvariant == Spec => [](IInv /\ StableInv /\ SentInv /\ (churns = 0 => PenaltyInv))
<1>1. Init => SentInv /\ PenaltyInv
    <2> SUFFICES ASSUME Init PROVE SentInv /\ PenaltyInv
        OBVIOUS
    <2>1. /\ voter.Tx = NoTx /\ voter.FinalisedHeight = 0 /\ slash = [n \in Node |-> BaseSlash]
          /\ msg = NoMsg /\ sent = 0
        BY DEF Init, NewErrataTxVoter, NewVoter
    <2>2. BaseSlash \in Nat /\ ObservePoints \in Nat /\ MaxMsgs \in Nat
        BY InAssumption
    <2>3. ObservePoints * Handled = 0
        BY <2>1, <2>2 DEF Handled
    <2> QED
        BY <2>1, <2>2, <2>3 DEF SentInv, PenaltyInv, PenaltyFor
<1>2. IInv /\ SentInv /\ [Next]_vars => SentInv'
    BY NextSent
<1>3. IInv /\ StableInv /\ SentInv /\ (churns = 0 => NoChurnInv) /\ (churns = 0 => PenaltyInv) /\ [Next]_vars
        => (churns = 0 => PenaltyInv)'
    BY NextPenalty, ChurnsGrow
<1> QED
    BY <1>1, <1>2, <1>3, NoChurnInvariant, PTL DEF Spec

-----------------------------------------------------------------------------
(* Theorems                                                                *)

(* Every reachable state of the inbound vote is well formed.               *)
THEOREM TypeCorrect == Spec => []TypeOK
<1>1. IInv => TypeOK
    BY DEF IInv
<1> QED
    BY <1>1, InitIInv, NextIInv, PTL DEF Spec

(* For any number of validators and whatever they report, an inbound is    *)
(* carried out or refunded, credited and corrected at most once.           *)
THEOREM ActedOnAtMostOnce == Spec => []AtMostOnce
<1>1. IInv => AtMostOnce
    BY DEF IInv, MarkInv, AtMostOnce
<1> QED
    BY <1>1, InitIInv, NextIInv, PTL DEF Spec

(* Through churns and erratas, the inbound is handled or refunded only     *)
(* once it is final: a discovered tx at most credits the vault             *)
(* (handler_observed_tx_helpers.go:202-220).                               *)
THEOREM ActsOnlyWhenFinal ==
    Spec => [](effects # << >> => /\ voter.FinalisedHeight # 0
                                 /\ voter.Tx # NoTx /\ IsFinal(voter.Tx.obs))
<1>1. IInv => (effects # << >> => /\ voter.FinalisedHeight # 0
                                 /\ voter.Tx # NoTx /\ IsFinal(voter.Tx.obs))
    BY DEF IInv, MarkInv, VoterInv
<1> QED
    BY <1>1, InitIInv, NextIInv, PTL DEF Spec

(* Once final, no later majority, churn or errata replaces the tx or moves *)
(* its heights, whoever the validators are and whatever they report.       *)
THEOREM FinalStays == Spec => FinalTxStable
<1>1. IInv /\ StableInv /\ [Next]_vars =>
        [voter.FinalisedHeight # 0 =>
            /\ voter'.Height = voter.Height
            /\ voter'.FinalisedHeight = voter.FinalisedHeight
            /\ SameButMemo(voter'.Tx.obs, voter.Tx.obs)
            /\ voter.Tx.signers \subseteq voter'.Tx.signers]_vars
    BY NextChainStep DEF ChainStep, KeepsTx
<1> QED
    BY <1>1, StableInvariant, PTL DEF Spec, FinalTxStable

(* After the errata nothing moves funds or runs a handler for the tx.      *)
THEOREM RevertedStaysInert == Spec => RevertedIsInert
<1>1. IInv /\ StableInv /\ [Next]_vars =>
        [voter.Reverted => UNCHANGED <<effects, credits, adjusted, funds>>]_vars
    BY NextChainStep DEF ChainStep
<1> QED
    BY <1>1, StableInvariant, PTL DEF Spec, RevertedIsInert

(* No tx is declared final unless two thirds of the validators that were   *)
(* active at that moment attested its final form with the same body.       *)
THEOREM FinalNeedsMajority == Spec => FinalisedByMajority
<1> DEFINE Same(j) == {n \in Node : \E i \in DOMAIN voter'.Txs :
                          /\ voter'.Txs[i].obs.body = voter'.Txs[j].obs.body
                          /\ voter'.Txs[i].obs.bh = voter'.Txs[i].obs.fh
                          /\ n \in voter'.Txs[i].signers}
           Majority == \E j \in DOMAIN voter'.Txs :
                          /\ SameButMemo(voter'.Txs[j].obs, voter'.Tx.obs)
                          /\ TwoThirds(Same(j), active)
<1>1. ASSUME IInv, StableInv, [Next]_vars,
             voter'.FinalisedHeight # voter.FinalisedHeight
      PROVE  Majority
    <2>1. PICK w : w = voter'
        OBVIOUS
    <2>2. MajorityTx(w, active)
        BY <1>1, <2>1, NextChainStep DEF ChainStep
    <2>3. PICK j \in DOMAIN w.Txs : /\ SameButMemo(w.Txs[j].obs, w.Tx.obs)
                                    /\ HasClassMajority(w, active, TRUE, j)
        BY <2>2 DEF MajorityTx
    <2>4. PICK C : C = ClassSigners(w, w.Txs[j].obs, TRUE)
        OBVIOUS
    <2>5. HasSuperMajority(Cardinality(C \cap active), Cardinality(active))
        BY <2>3, <2>4 DEF HasClassMajority
    <2>6. Cardinality(C \cap active) \in Nat /\ Cardinality(active) \in Nat
        <3>1. IsFiniteSet(active)
            BY <1>1, InAssumption, FS_Subset DEF IInv, TypeOK
        <3>2. IsFiniteSet(C \cap active)
            BY <3>1, FS_Subset
        <3> QED
            BY <3>1, <3>2, FS_CardinalityType
    <2>7. TwoThirds(C, active)
        BY <2>5, <2>6, SuperMajorityIsTwoThirds DEF TwoThirds
    <2>8. C = Same(j)
        BY <2>1, <2>4 DEF ClassSigners, IsFinal, EqualsEx
    <2> QED
        BY <2>1, <2>3, <2>7, <2>8
<1>2. IInv /\ StableInv /\ [Next]_vars =>
        [voter'.FinalisedHeight # voter.FinalisedHeight => Majority]_vars
    BY <1>1
<1> QED
    BY <1>2, StableInvariant, PTL DEF Spec, FinalisedByMajority

(* If all reports name one vault and one amount, then reverting takes back *)
(* exactly what was credited, through discovery, finality, late votes,     *)
(* differing memos, churns and any order of the errata with them.          *)
THEOREM ErrataRestores == ReportsAgree => (Spec => []ErrataRestoresFunds)
<1> SUFFICES ASSUME ReportsAgree PROVE Spec => []ErrataRestoresFunds
    OBVIOUS
<1>1. Init => FundsInv
    <2> SUFFICES ASSUME Init PROVE FundsInv
        OBVIOUS
    <2>1. Sourced(voter)
        BY DEF Init, NewErrataTxVoter, NewVoter, Sourced
    <2>2. FundsOf(voter)
        BY DEF Init, NewErrataTxVoter, NewVoter, FundsOf, Untouched
    <2> QED
        BY <2>1, <2>2 DEF Init, FundsInv
<1>2. IInv /\ StableInv /\ FundsInv /\ [Next]_vars => FundsInv'
    BY NextFunds
<1>3. FundsInv => ErrataRestoresFunds
    BY DEF FundsInv, FundsOf, Untouched, SelfPaid, ErrataRestoresFunds
<1> QED
    BY <1>1, <1>2, <1>3, StableInvariant, PTL DEF Spec

(* While the validators stay, the coins credited and the tx handled or     *)
(* refunded have been attested, as they are, by two thirds of them: the    *)
(* attestation that crosses the threshold is one of the agreed tx.  With a *)
(* churn it does not hold (handler_observed_tx_helpers.go:169,185).        *)
THEOREM ActsOnWhatIsAttested == MaxChurn = 0 => (Spec => ActsOnAttestedTx)
<1> SUFFICES ASSUME MaxChurn = 0 PROVE Spec => ActsOnAttestedTx
    OBVIOUS
<1>1. Init => churns = 0
    BY DEF Init
<1>2. IInv /\ churns = 0 /\ [Next]_vars => (churns = 0)'
    <2> SUFFICES ASSUME churns = 0, [Next]_vars PROVE churns' = churns
        OBVIOUS
    <2>1. ~(churns < MaxChurn)
        OBVIOUS
    <2> QED
        BY <2>1 DEF Next, ObservedTxInMsg, QuorumBegin, QuorumAttest, QuorumEnd, ErrataTx, NextBlock,
                    Churn, VaultInactive, chainVars, vars
<1>3. IInv /\ StableInv /\ NoChurnInv /\ churns' = 0 /\ [Next]_vars =>
        [/\ effects' # effects => Attested(voter', effects'[Len(effects')].body)
         /\ credits' # credits =>
              \E j \in DOMAIN voter'.Txs :
                  /\ voter'.Txs[j].obs.body.coins = credits'[Len(credits')][2]
                  /\ Attested(voter', voter'.Txs[j].obs.body)]_vars
    BY NextNoChurn DEF ActsAsAttested
<1>4. IInv /\ StableInv /\ (churns = 0 => NoChurnInv) /\ churns = 0 /\ [Next]_vars =>
        [/\ effects' # effects => Attested(voter', effects'[Len(effects')].body)
         /\ credits' # credits =>
              \E j \in DOMAIN voter'.Txs :
                  /\ voter'.Txs[j].obs.body.coins = credits'[Len(credits')][2]
                  /\ Attested(voter', voter'.Txs[j].obs.body)]_vars
    BY <1>2, <1>3
<1> QED
    BY <1>1, <1>2, <1>4, NoChurnInvariant, PTL DEF Spec, ActsOnAttestedTx

(* The same with no hypothesis on the constants: up to the first churn     *)
(* every step that credits, handles or refunds does so as attested.        *)
THEOREM ActsAsAttestedUntilChurn == Spec => [][churns' = 0 => ActsAsAttested]_vars
<1>1. IInv /\ StableInv /\ (churns = 0 => NoChurnInv) /\ [Next]_vars =>
        [churns' = 0 => ActsAsAttested]_vars
    BY NextNoChurn, ChurnsGrow
<1> QED
    BY <1>1, NoChurnInvariant, PTL DEF Spec

(* Until the validators change, attesting never lowers the slash points   *)
(* of a node below what it had before, through duplicates, late votes, two *)
(* phases and an errata, unless it signed variants of one observation: for *)
(* those AcceptLate may give back what was not charged (same file, :100).  *)
THEOREM DecrementsOnce == Spec => [](churns = 0 => DecrementedOnceUnlessVariants)
<1>1. IInv /\ SlashInv => DecrementedOnceUnlessVariants
    <2> SUFFICES ASSUME IInv, SlashInv, NEW n \in Node, ~SignedVariants(n)
                 PROVE  slash[n] >= BaseSlash
        BY DEF DecrementedOnceUnlessVariants
    <2>1. ~Variants(voter, n)
        BY DEF Variants, SignedVariants
    <2>2. Covered(voter, errata, slash, n) /\ slash[n] \in Nat
        BY <2>1 DEF SlashInv, SlashFor, IInv, TypeOK
    <2>3. /\ VoteOwed(voter, n) \in Nat /\ FinalOwed(voter, n) \in Nat
          /\ LackOwed(voter, n) \in Nat /\ ErrataOwed(errata, n) \in Nat /\ BaseSlash \in Nat
        BY OwedType
    <2> QED
        BY <2>2, <2>3 DEF Covered
<1> QED
    BY <1>1, SlashInvariant, PTL

(* And the penalty for missing a tx is never lost: once a tx is agreed on, *)
(* every validator that did not attest it has the lack-of-observation      *)
(* points on top of what it had, whatever else it sent.                    *)
THEOREM MissedVoteIsCharged ==
    Spec => [](churns = 0 /\ voter.Tx # NoTx =>
                  \A n \in active \ GetConsensusSigners(voter) :
                      SignedVariants(n) \/ OwesLackPenalty(n))
<1>1. IInv /\ SlashInv =>
        (voter.Tx # NoTx => \A n \in active \ GetConsensusSigners(voter) :
                                SignedVariants(n) \/ OwesLackPenalty(n))
    <2> SUFFICES ASSUME IInv, SlashInv, voter.Tx # NoTx,
                        NEW n \in active \ GetConsensusSigners(voter), ~SignedVariants(n)
                 PROVE  OwesLackPenalty(n)
        OBVIOUS
    <2>1. n \in Node
        BY DEF IInv, TypeOK
    <2>2. ~Variants(voter, n)
        BY DEF Variants, SignedVariants
    <2>3. Covered(voter, errata, slash, n) /\ slash[n] \in Nat
        BY <2>1, <2>2 DEF SlashInv, SlashFor, IInv, TypeOK
    <2>4. LackOwed(voter, n) = LackPenalty
        BY DEF LackOwed
    <2>5. /\ VoteOwed(voter, n) \in Nat /\ FinalOwed(voter, n) \in Nat
          /\ ErrataOwed(errata, n) \in Nat /\ BaseSlash \in Nat /\ LackPenalty \in Nat
        BY OwedType
    <2> QED
        BY <2>3, <2>4, <2>5 DEF Covered, OwesLackPenalty
<1> QED
    BY <1>1, SlashInvariant, PTL

(* Until the validators change, and as long as only final observations are *)
(* made, the lack-of-observation penalty follows the votes: after          *)
(* consensus every validator that never attested the agreed tx has it, and *)
(* one whose vote counted, at consensus or late (AcceptLate, same file,    *)
(* :100), has paid for its messages at the most, one by one.               *)
THEOREM PenaltyFollowsVotes == Spec => []LackPenaltyMatchesVotes
<1>1. ASSUME IInv, SentInv, PenaltyInv, errata.signers = {}, voter.FinalisedHeight # 0, FinalOnly(voter),
             NEW n \in active
      PROVE  /\ n \in voter.Tx.signers => slash[n] <= BaseSlash + ObservePoints * sent
             /\ n \notin GetConsensusSigners(voter) => OwesLackPenalty(n)
    <2>1. n \in Node /\ slash[n] \in Nat /\ sent \in Nat
        BY <1>1 DEF IInv, TypeOK
    <2>2. ObservePoints \in Nat /\ BaseSlash \in Nat
        BY InAssumption
    <2>3. Handled \in Nat /\ Handled <= sent
        BY <1>1, HandledType DEF IInv
    <2>4. PICK b \in Nat : b = ObservePoints * Handled
        BY <2>2, <2>3
    <2>5. PICK d \in Nat : d = ObservePoints * sent
        BY <2>1, <2>2
    <2>6. b <= d
        BY <2>1, <2>2, <2>3, <2>4, <2>5, CostGrows
    <2>7. PenaltyFor(voter, slash, b)
        BY <1>1, <2>4 DEF PenaltyInv
    <2>8. /\ n \in voter.Tx.signers => slash[n] <= BaseSlash + b
          /\ n \notin GetConsensusSigners(voter) => slash[n] >= BaseSlash + LackPenalty
        BY <1>1, <2>1, <2>7 DEF PenaltyFor
    <2> QED
        BY <2>1, <2>2, <2>5, <2>6, <2>8 DEF OwesLackPenalty
<1>2. IInv /\ SentInv /\ (churns = 0 => PenaltyInv) => LackPenaltyMatchesVotes
    BY <1>1 DEF FinalOnly, LackPenaltyMatchesVotes
<1> QED
    BY <1>2, PenaltyInvariant, PTL
=============================================================================
