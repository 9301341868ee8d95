---------------------- MODULE AttestationGossipProofs ----------------------
(* For any number of validators, any timeouts and any number of faults:    *)
(* the shape of the attestation states, and that a super majority is       *)
(* handed to the node without waiting for a timer.                         *)
EXTENDS AttestationGossip, FiniteSetTheorems, TLAPS

\* The configured times, in ticks: nothing is kept longer than a state without quorum.
LEMMA TimesAreNat ==
    /\ MinTimeBetweenAttestations \in Nat
    /\ LateObserveTimeout \in Nat
    /\ NonQuorumTimeout \in Nat
    /\ MinTimeBetweenAttestations <= NonQuorumTimeout
    /\ LateObserveTimeout <= NonQuorumTimeout
  BY GossipAssumption

\* An age that gets older is still an age.
LEMMA OlderIsAge ==
    ASSUME NEW age \in Age, NEW d \in Nat, d <= NonQuorumTimeout
    PROVE  Older(age, d) \in Age
  BY TimesAreNat DEF Older, Age, Zero

\* Time passing changes the ages of a state only.
LEMMA AgedType ==
    ASSUME NEW s \in AttestationState
    PROVE  /\ Aged(s) \in AttestationState
           /\ Aged(s).attestations = s.attestations
           /\ Aged(s).sent = s.sent
<1>1. NonQuorumTimeout <= NonQuorumTimeout
  BY TimesAreNat
<1> QED
  BY <1>1, OlderIsAge, TimesAreNat DEF Aged, AttestationState

\* After a send no attestation of the state is unsent.
LEMMA MarkSentType ==
    ASSUME NEW s \in AttestationState, NEW q \in BOOLEAN
    PROVE  /\ MarkAttestationsSent(s, q) \in AttestationState
           /\ UnsentAttestations(MarkAttestationsSent(s, q)) = {}
<1>1. 0 \in Age
  BY TimesAreNat DEF Age, Zero
<1> QED
  BY <1>1 DEF MarkAttestationsSent, AttestationState, UnsentAttestations

\* A commit on the chain changes neither the attestations nor what was sent.
LEMMA MarkCommittedType ==
    ASSUME NEW s \in AttestationState, NEW atts \in SUBSET Node
    PROVE  /\ MarkAttestationsCommitted(s, atts) \in AttestationState
           /\ MarkAttestationsCommitted(s, atts).attestations = s.attestations
           /\ MarkAttestationsCommitted(s, atts).sent = s.sent
<1>1. 0 \in Age
  BY TimesAreNat DEF Age, Zero
<1> QED
  BY <1>1 DEF MarkAttestationsCommitted, AttestationState

\* An attestation that does not verify adds nothing, but may create an empty state.
LEMMA AddType ==
    ASSUME TypeOK, NEW n \in Node, NEW valid \in BOOLEAN
    PROVE  /\ AddAttestation(n, valid) \in AttestationState
           /\ ~valid /\ state # NoState => AddAttestation(n, valid) = state
           /\ ~valid /\ state = NoState => AddAttestation(n, valid).attestations = {}
<1>1. 0 \in Age /\ Zero \in Age
  BY TimesAreNat DEF Age, Zero
<1>2. NewAttestationState \in AttestationState
  BY <1>1 DEF NewAttestationState, AttestationState
<1>3. (IF state = NoState THEN NewAttestationState ELSE state) \in AttestationState
  BY <1>2 DEF TypeOK
<1> QED
  BY <1>2, <1>3 DEF AddAttestation, AttestationState, NewAttestationState

\* What SendToSwitchlynode leaves in the map: s, or s with everything sent.
LEMMA SendEffect ==
    ASSUME TypeOK, NEW s \in AttestationState, NEW send \in BOOLEAN,
           NEW q \in BOOLEAN, NEW ok \in BOOLEAN,
           SendToSwitchlynode(s, send, q, ok)
    PROVE  /\ state' \in AttestationState
           /\ state'.attestations = s.attestations
           /\ submitted' \in BOOLEAN
           /\ faults' \in 0 .. MaxFaults
           /\ state' = s \/ UnsentAttestations(state') = {}
           /\ send /\ faults' = faults => UnsentAttestations(state') = {}
<1>1. MaxFaults \in Nat
  BY GossipAssumption
<1>2. CASE send /\ UnsentAttestations(s) # {} /\ ok
  <2>1. /\ state' = MarkAttestationsSent(s, q)
        /\ submitted' = (submitted \/ Me \in UnsentAttestations(s))
        /\ faults' = faults
    BY <1>2 DEF SendToSwitchlynode
  <2>2. state'.attestations = s.attestations
    BY <2>1 DEF MarkAttestationsSent, AttestationState
  <2> QED
    BY <2>1, <2>2, MarkSentType DEF TypeOK
<1>3. CASE ~(send /\ UnsentAttestations(s) # {} /\ ok)
  <2>1. /\ state' = s
        /\ submitted' = submitted
    BY <1>3 DEF SendToSwitchlynode
  <2>2. CASE send /\ UnsentAttestations(s) # {}
    <3>1. faults < MaxFaults /\ faults' = faults + 1
      BY <1>3, <2>2 DEF SendToSwitchlynode
    <3> QED
      BY <2>1, <3>1, <1>1 DEF TypeOK
  <2>3. CASE ~(send /\ UnsentAttestations(s) # {})
    <3>1. faults' = faults
      BY <1>3, <2>3 DEF SendToSwitchlynode
    <3> QED
      BY <2>1, <2>3, <3>1 DEF TypeOK
  <2> QED
    BY <2>2, <2>3
<1> QED
  BY <1>2, <1>3

-----------------------------------------------------------------------------
\* The super majority of a state, for the active validators act.
Majority(s, act) == HasSuperMajority(Cardinality(s.attestations), Cardinality(act))

\* A state without attestations has no majority.
LEMMA NoMajorityOfNone ==
    ASSUME NEW s, s.attestations = {}, NEW act
    PROVE  ~Majority(s, act)
<1>1. Cardinality({}) = 0
  BY FS_EmptySet
<1> QED
  BY <1>1 DEF Majority, HasSuperMajority

\* One attestation is handled: the map and, if no fault was counted, the quorum.
LEMMA AttestationHandled ==
    ASSUME TypeOK, QuorumIsSent,
           NEW n \in Node, NEW valid \in BOOLEAN, NEW act, NEW ok \in BOOLEAN,
           handleObservedTxAttestation(n, valid, act, ok)
    PROVE  /\ state' \in AttestationState
           /\ submitted' \in BOOLEAN
           /\ faults' \in 0 .. MaxFaults
           /\ \/ faults' # faults
              \/ state # NoState /\ (lossy \/ act # active)
              \/ ~Majority(state', act)
              \/ UnsentAttestations(state') = {}
<1> DEFINE s == AddAttestation(n, valid)
           send == valid /\ quorumReached(s, act)
<1>1. /\ s \in AttestationState
      /\ ~valid /\ state # NoState => s = state
      /\ ~valid /\ state = NoState => s.attestations = {}
  BY AddType
<1>2. send \in BOOLEAN
  BY DEF quorumReached, HasSuperMajority
<1>3. SendToSwitchlynode(s, send, TRUE, ok)
  BY DEF handleObservedTxAttestation
<1> HIDE DEF s, send
<1>4. /\ state' \in AttestationState
      /\ state'.attestations = s.attestations
      /\ submitted' \in BOOLEAN
      /\ faults' \in 0 .. MaxFaults
      /\ state' = s \/ UnsentAttestations(state') = {}
      /\ send /\ faults' = faults => UnsentAttestations(state') = {}
  BY <1>1, <1>2, <1>3, SendEffect
<1>5. ASSUME valid, faults' = faults, Majority(state', act)
      PROVE  UnsentAttestations(state') = {}
  BY <1>4, <1>5 DEF send, quorumReached, Majority
<1>6. ASSUME ~valid, state # NoState, ~lossy, act = active, Majority(state', act), state' = s
      PROVE  UnsentAttestations(state') = {}
  BY <1>1, <1>6 DEF QuorumIsSent, Majority
<1>7. ASSUME ~valid, state = NoState
      PROVE  ~Majority(state', act)
  BY <1>1, <1>4, <1>7, NoMajorityOfNone
<1> QED
  BY <1>4, <1>5, <1>6, <1>7

-----------------------------------------------------------------------------
\* A super majority is sent up to its last attestation whatever the order of
\* the calls, for any set of validators and any timeouts.
GossipInv == TypeOK /\ QuorumIsSent

\* Each handler, tick and churn keeps the invariant.
LEMMA GossipInvStep == GossipInv /\ [Next]_vars => GossipInv'
<1> SUFFICES ASSUME TypeOK, QuorumIsSent, [Next]_vars
             PROVE  TypeOK' /\ QuorumIsSent'
  BY DEF GossipInv
<1>0. Me \in Node /\ MaxFaults \in Nat
  BY GossipAssumption
<1>1. ASSUME NEW act \in ActiveSets, NEW ok \in BOOLEAN, sendDeck(act, ok)
      PROVE  TypeOK' /\ QuorumIsSent'
  <2>1. CASE deck
    <3>1. handleObservedTxAttestation(Me, TRUE, act, ok)
      BY <1>1, <2>1 DEF sendDeck
    <3>2. /\ state' \in AttestationState
          /\ submitted' \in BOOLEAN
          /\ faults' \in 0 .. MaxFaults
          /\ \/ faults' # faults
             \/ state # NoState /\ (lossy \/ act # active)
             \/ ~Majority(state', act)
             \/ UnsentAttestations(state') = {}
      BY <1>0, <3>1, AttestationHandled
    <3>3. TypeOK'
      BY <1>1, <3>2 DEF TypeOK, sendDeck
    <3>4. active' = act /\ lossy' = (state' # NoState /\ (faults' # faults \/ (state # NoState /\ (lossy \/ act # active))))
      BY <1>1 DEF sendDeck
    <3>5. QuorumIsSent'
      BY <3>2, <3>4 DEF QuorumIsSent, Majority
    <3> QED
      BY <3>3, <3>5
  <2>2. CASE ~deck
    BY <1>1, <2>2 DEF sendDeck, TypeOK, QuorumIsSent
  <2> QED
    BY <2>1, <2>2
<1>2. ASSUME NEW n \in Node \ {Me}, NEW valid \in BOOLEAN, NEW ok \in BOOLEAN,
             handleStreamAttestation(n, valid, ok)
      PROVE  TypeOK' /\ QuorumIsSent'
  <2>1. handleObservedTxAttestation(n, valid, active, ok)
    BY <1>2 DEF handleStreamAttestation
  <2>2. /\ state' \in AttestationState
        /\ submitted' \in BOOLEAN
        /\ faults' \in 0 .. MaxFaults
        /\ \/ faults' # faults
           \/ state # NoState /\ lossy
           \/ ~Majority(state', active)
           \/ UnsentAttestations(state') = {}
    BY <2>1, AttestationHandled
  <2>3. TypeOK'
    BY <1>2, <2>2 DEF TypeOK, handleStreamAttestation
  <2>4. QuorumIsSent'
    BY <1>2, <2>2 DEF QuorumIsSent, Majority, handleStreamAttestation
  <2> QED
    BY <2>3, <2>4
<1>3. ASSUME NEW ok \in BOOLEAN, reconcile(ok)
      PROVE  TypeOK' /\ QuorumIsSent'
  <2> DEFINE s == Aged(state)
  <2>1. state \in AttestationState
    BY <1>3 DEF reconcile, TypeOK
  <2>2. /\ s \in AttestationState
        /\ s.attestations = state.attestations
        /\ s.sent = state.sent
    BY <2>1, AgedType
  <2>3. UnsentAttestations(s) = UnsentAttestations(state)
    BY <2>2 DEF UnsentAttestations
  <2>4. CASE ExpiredAfterQuorum(s)
    <3>1. state' = NoState /\ submitted' = submitted /\ faults' = faults
      BY <1>3, <2>4 DEF reconcile
    <3> QED
      BY <1>3, <3>1 DEF TypeOK, QuorumIsSent, reconcile
  <2>5. CASE ~ExpiredAfterQuorum(s)
    <3>1. SendToSwitchlynode(s, ShouldSendLate(s), FALSE, ok)
      BY <1>3, <2>5 DEF reconcile
    <3>2. ShouldSendLate(s) \in BOOLEAN
      BY DEF ShouldSendLate
    <3> HIDE DEF s
    <3>3. /\ state' \in AttestationState
          /\ state'.attestations = s.attestations
          /\ submitted' \in BOOLEAN
          /\ faults' \in 0 .. MaxFaults
          /\ state' = s \/ UnsentAttestations(state') = {}
      BY <2>2, <3>1, <3>2, SendEffect
    <3>4. TypeOK'
      BY <1>3, <3>3 DEF TypeOK, reconcile
    <3>5. QuorumIsSent'
      BY <1>3, <2>2, <2>3, <3>3 DEF QuorumIsSent, reconcile
    <3> QED
      BY <3>4, <3>5
  <2> QED
    BY <2>4, <2>5
<1>4. ASSUME NEW atts \in SUBSET Node \ {{}}, NEW delivered \in BOOLEAN, Commit(atts, delivered)
      PROVE  TypeOK' /\ QuorumIsSent'
  BY <1>0, <1>4 DEF Commit, TypeOK, QuorumIsSent
<1>5. CASE handleQuorumTxCommitted
  <2>1. CASE state = NoState
    BY <1>5, <2>1 DEF handleQuorumTxCommitted, TypeOK, QuorumIsSent
  <2>2. CASE state # NoState
    <3>1. state \in AttestationState /\ event \in SUBSET Node
      BY <2>2 DEF TypeOK
    <3>2. state' = MarkAttestationsCommitted(state, event)
      BY <1>5, <2>2 DEF handleQuorumTxCommitted
    <3>3. /\ state' \in AttestationState
          /\ state'.attestations = state.attestations
          /\ state'.sent = state.sent
      BY <3>1, <3>2, MarkCommittedType
    <3>4. TypeOK'
      BY <1>5, <3>3 DEF TypeOK, handleQuorumTxCommitted
    <3>5. QuorumIsSent'
      BY <1>5, <2>2, <3>3 DEF QuorumIsSent, UnsentAttestations, handleQuorumTxCommitted
    <3> QED
      BY <3>4, <3>5
  <2> QED
    BY <2>1, <2>2
<1>6. CASE AttestErrata
  BY <1>6 DEF AttestErrata, TypeOK, QuorumIsSent
<1>7. CASE CacheExpires
  <2>1. faults' \in 0 .. MaxFaults
    BY <1>0, <1>7 DEF CacheExpires, TypeOK
  <2> QED
    BY <1>7, <2>1 DEF CacheExpires, TypeOK, QuorumIsSent
<1>8. CASE Restart
  <2>1. faults' \in 0 .. MaxFaults
    BY <1>0, <1>8 DEF Restart, TypeOK
  <2>2. {} \in SUBSET Node
    OBVIOUS
  <2> QED
    BY <1>8, <2>1, <2>2 DEF Restart, TypeOK, QuorumIsSent
<1>9. CASE UNCHANGED vars
  BY <1>9 DEF vars, TypeOK, QuorumIsSent
<1> QED
  BY <1>1, <1>2, <1>3, <1>4, <1>5, <1>6, <1>7, <1>8, <1>9 DEF Next

\* A node starts without a state.
LEMMA GossipInvInit == Init => GossipInv
<1>1. 0 \in 0 .. MaxFaults /\ {} \in SUBSET Node
  BY GossipAssumption
<1> QED
  BY <1>1 DEF Init, GossipInv, TypeOK, QuorumIsSent

\* For any validators, timeouts and number of faults: the attestation states are
\* well formed, their ages within the longest timeout.
THEOREM GossipTypeCorrect == Spec => []TypeOK
<1>1. GossipInv => TypeOK
  BY DEF GossipInv
<1> QED
  BY <1>1, GossipInvInit, GossipInvStep, PTL DEF Spec

\* For any validators, timeouts and number of faults: as long as no call failed
\* and the active set stayed, a super majority has been handed to the node up to
\* the last attestation (handleObservedTxAttestation, Start's ticker).
THEOREM QuorumAlwaysSent == Spec => []QuorumIsSent
<1>1. GossipInv => QuorumIsSent
  BY DEF GossipInv
<1> QED
  BY <1>1, GossipInvInit, GossipInvStep, PTL DEF Spec
=============================================================================
