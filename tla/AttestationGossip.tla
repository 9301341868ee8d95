-------------------------- MODULE AttestationGossip --------------------------
(***************************************************************************)
(* How one validator's bifrost gathers the attestations of one observation *)
(* and hands them to its own node (bifrost/observer: attestation_gossip,   *)
(* attestation_handlers, attestation_handlers_impl, generic_attestation).  *)
(* Its own attestation is repeated for as long as the observation is on    *)
(* its deck; those of its peers come by gossip, late, repeatedly or never. *)
(* They are collected in an AttestationState, sent once they are a super   *)
(* majority or have waited long enough, marked when the chain reports them *)
(* committed, and forgotten after a time.  The maps for network fees,      *)
(* solvencies and erratas work the same way.                               *)
(*                                                                         *)
(* Every handler locks the state before it lets the map's mutex go, and    *)
(* holds it during the gRPC call: a handler is one step.  A tick of the    *)
(* clock is one ObserveReconcileInterval (15 s), in which the deck, which  *)
(* is attested every second (deckRefreshTime), has been attested.          *)
(***************************************************************************)
EXTENDS Integers, FiniteSets

CONSTANTS
    Node, Me,           \* validators; this one
    ActiveSets,         \* what FetchActiveNodes may return
    MinTimeBetweenAttestations, LateObserveTimeout, NonQuorumTimeout,   \* in ticks
    MaxFaults,          \* bound: failed calls, lost events, expiries, restarts
    NoState             \* the map has no entry for the observation

ASSUME GossipAssumption ==
    /\ IsFiniteSet(Node) /\ Me \in Node
    /\ ActiveSets \subseteq SUBSET Node /\ \A S \in ActiveSets : Me \in S
    /\ MaxFaults \in Nat
    /\ {MinTimeBetweenAttestations, LateObserveTimeout, NonQuorumTimeout} \subseteq Nat
    /\ MinTimeBetweenAttestations < LateObserveTimeout
    /\ LateObserveTimeout < NonQuorumTimeout

VARIABLES
    deck,       \* the observation is on this validator's deck
    state,      \* its AttestationState, or NoState
    active,     \* AttestationGossip.activeVals
    submitted,  \* this validator's attestation waits in its node's inject cache
    event,      \* attestations of a committed event on its way here, or {}
    decked,     \* the deck was attested since the last tick
    faults,     \* faults so far
    lossy       \* history: since the state was made a call failed or active changed

vars == <<deck, state, active, submitted, event, decked, faults, lossy>>

Zero == -1      \* time.Time{}

Age == Zero .. (NonQuorumTimeout + 1)

AttestationState ==
    [attestations : SUBSET Node, sent : SUBSET Node, committed : SUBSET Node,
     firstAttestationObserved : Age, lastAttestationsSent : Age,
     quorumAttestationsSent : Age, lastCommittedAttestation : Age]

NewAttestationState ==
    [attestations |-> {}, sent |-> {}, committed |-> {},
     firstAttestationObserved |-> 0, lastAttestationsSent |-> Zero,
     quorumAttestationsSent |-> Zero, lastCommittedAttestation |-> Zero]

Init ==
    /\ deck = TRUE
    /\ state = NoState
    /\ active \in ActiveSets
    /\ submitted = FALSE
    /\ event = {}
    /\ decked = FALSE
    /\ faults = 0
    /\ lossy = FALSE

-----------------------------------------------------------------------------
(* AttestationState: what it decides, and how it ages                      *)

\* A count of ticks that stops past d, after which no more depends on it.
Older(age, d) == IF age = Zero \/ age > d THEN age ELSE age + 1

Aged(s) ==
    [s EXCEPT !.firstAttestationObserved = Older(@, MinTimeBetweenAttestations),
              !.lastAttestationsSent = Older(@, NonQuorumTimeout),
              !.quorumAttestationsSent = Older(@, LateObserveTimeout),
              !.lastCommittedAttestation = Older(@, LateObserveTimeout)]

UnsentAttestations(s) == s.attestations \ s.sent

\* initialAttestationsSent is zero exactly when lastAttestationsSent is.
ShouldSendLate(s) ==
    /\ UnsentAttestations(s) # {}
    /\ \/ s.lastAttestationsSent > MinTimeBetweenAttestations
       \/ s.lastAttestationsSent = Zero /\ s.firstAttestationObserved > MinTimeBetweenAttestations

\* Mutant: only a quorum, or a commit of everything, ends the tracking.
ExpiredIfDone(s) ==
    \/ s.attestations \subseteq s.committed /\ s.lastCommittedAttestation > LateObserveTimeout
    \/ s.quorumAttestationsSent > LateObserveTimeout

ExpiredAfterQuorum(s) ==
    \/ s.lastAttestationsSent > NonQuorumTimeout
    \/ s.attestations \subseteq s.committed /\ s.lastCommittedAttestation > LateObserveTimeout
    \/ s.quorumAttestationsSent > LateObserveTimeout

\* Mutant: the time stored is that of the next send, in the future.
MarkAttestationsSentAhead(s, isQuorum) ==
    [s EXCEPT !.sent = s.attestations,
              !.lastAttestationsSent = Zero - MinTimeBetweenAttestations - 1,
              !.quorumAttestationsSent = IF isQuorum /\ @ = Zero THEN 0 ELSE @]

MarkAttestationsSent(s, isQuorum) ==
    [s EXCEPT !.sent = s.attestations,
              !.lastAttestationsSent = 0,
              !.quorumAttestationsSent = IF isQuorum /\ @ = Zero THEN 0 ELSE @]

MarkAttestationsCommitted(s, atts) ==
    [s EXCEPT !.committed = @ \cup (s.attestations \cap atts),
              !.lastCommittedAttestation = 0]

HasSuperMajority(signers, total) ==
    /\ signers <= total
    /\ signers > 0
    /\ 3 * signers >= 2 * total

-----------------------------------------------------------------------------
(* Sending to the node's gRPC server, which answers (ok) or fails          *)

\* s, the state in the map, is sent if send says so and there is something new.
SendToSwitchlynode(s, send, isQuorum, ok) ==
    LET unsent == UnsentAttestations(s)
    IN  IF send /\ unsent # {} /\ ok
        THEN /\ state' = MarkAttestationsSent(s, isQuorum)
             /\ submitted' = (submitted \/ Me \in unsent)
             /\ UNCHANGED faults
        ELSE /\ state' = s
             /\ UNCHANGED submitted
             /\ IF send /\ unsent # {}
                THEN faults < MaxFaults /\ faults' = faults + 1
                ELSE ok /\ UNCHANGED faults

\* Mutant: once the quorum has been sent, what comes later waits.
quorumOnce(s, act) ==
    /\ HasSuperMajority(Cardinality(s.attestations), Cardinality(act))
    /\ s.quorumAttestationsSent = Zero

quorumReached(s, act) == HasSuperMajority(Cardinality(s.attestations), Cardinality(act))

\* The state n's attestation is added to: a duplicate changes nothing, and one
\* that does not verify leaves the state it may have been the first for.
AddAttestation(n, valid) ==
    LET s == IF state = NoState THEN NewAttestationState ELSE state
    IN  IF valid THEN [s EXCEPT !.attestations = @ \cup {n}] ELSE s

handleObservedTxAttestation(n, valid, act, ok) ==
    LET s == AddAttestation(n, valid)
    IN  SendToSwitchlynode(s, valid /\ quorumReached(s, act), TRUE, ok)

-----------------------------------------------------------------------------
\* Observer.sendDeck, every second: the active validators are fetched, and what
\* is on deck is attested again (AttestObservedTx).
sendDeck(act, ok) ==
    /\ active' = act
    /\ decked' = TRUE
    /\ IF deck THEN handleObservedTxAttestation(Me, TRUE, act, ok)
               ELSE ok /\ UNCHANGED <<state, submitted, faults>>
    /\ lossy' = (state' # NoState /\ (faults' # faults \/ (state # NoState /\ (lossy \/ act # active))))
    /\ UNCHANGED <<deck, event>>

\* A peer's attestation, from its own batch or from the state another peer sent.
handleStreamAttestation(n, valid, ok) ==
    /\ handleObservedTxAttestation(n, valid, active, ok)
    /\ lossy' = (faults' # faults \/ (state # NoState /\ lossy))
    /\ UNCHANGED <<deck, active, event, decked>>

\* The ticker of Start: expired states go, others are sent if it is time.
reconcile(ok) ==
    /\ state # NoState
    /\ decked /\ decked' = FALSE
    /\ LET s == Aged(state)
       IN  IF ExpiredAfterQuorum(s)
           THEN ok /\ state' = NoState /\ UNCHANGED <<submitted, faults>>
           ELSE SendToSwitchlynode(s, ShouldSendLate(s), FALSE, ok)
    /\ lossy' = (state' # NoState /\ (lossy \/ faults' # faults))
    /\ UNCHANGED <<deck, active, event>>

\* A block holds the attestations atts of the observation; broadcastEvent passes
\* a client over that is not ready.
Commit(atts, delivered) ==
    /\ Me \in atts => submitted
    /\ submitted' = (submitted /\ Me \notin atts)
    /\ IF delivered THEN event = {} /\ event' = atts /\ UNCHANGED faults
                    ELSE faults < MaxFaults /\ faults' = faults + 1 /\ UNCHANGED event
    /\ UNCHANGED <<deck, state, active, decked, lossy>>

handleQuorumTxCommitted ==
    /\ event # {}
    /\ event' = {}
    /\ deck' = (deck /\ Me \notin event)
    /\ state' = IF state = NoState THEN state ELSE MarkAttestationsCommitted(state, event)
    /\ UNCHANGED <<active, submitted, decked, faults, lossy>>

\* The chain client reports that the transaction is gone: off the deck, and its
\* state is deleted from the map (AttestErrata).
AttestErrata ==
    /\ deck' = FALSE
    /\ state' = NoState
    /\ lossy' = FALSE
    /\ UNCHANGED <<active, submitted, event, decked, faults>>

\* The inject cache forgets what no block took for too long.
CacheExpires ==
    /\ submitted /\ submitted' = FALSE
    /\ faults < MaxFaults /\ faults' = faults + 1
    /\ UNCHANGED <<deck, state, active, event, decked, lossy>>

\* Bifrost stops and starts: the deck comes back from its storage.
Restart ==
    /\ faults < MaxFaults /\ faults' = faults + 1
    /\ state' = NoState
    /\ event' = {}
    /\ decked' = FALSE
    /\ lossy' = FALSE
    /\ UNCHANGED <<deck, active, submitted>>

Next ==
    \/ \E act \in ActiveSets, ok \in BOOLEAN : sendDeck(act, ok)
    \/ \E n \in Node \ {Me}, valid \in BOOLEAN, ok \in BOOLEAN : handleStreamAttestation(n, valid, ok)
    \/ \E ok \in BOOLEAN : reconcile(ok)
    \/ \E atts \in SUBSET Node \ {{}}, delivered \in BOOLEAN : Commit(atts, delivered)
    \/ handleQuorumTxCommitted
    \/ AttestErrata
    \/ CacheExpires
    \/ Restart

(* The tickers of deck and of Start run for ever; an event that was taken  *)
(* is handled; and as the inject cache's own run shows, what waits there   *)
(* is put into a block sooner or later unless it expires.                  *)
Fairness ==
    /\ WF_vars(\E act \in ActiveSets, ok \in BOOLEAN : sendDeck(act, ok))
    /\ WF_vars(\E ok \in BOOLEAN : reconcile(ok))
    /\ WF_vars(handleQuorumTxCommitted)
    /\ SF_vars(\E atts \in SUBSET Node : Me \in atts /\ Commit(atts, TRUE))

Spec == Init /\ [][Next]_vars /\ Fairness

-----------------------------------------------------------------------------
(* Properties *)

TypeOK ==
    /\ deck \in BOOLEAN /\ submitted \in BOOLEAN /\ decked \in BOOLEAN /\ lossy \in BOOLEAN
    /\ state \in AttestationState \cup {NoState}
    /\ active \in ActiveSets
    /\ event \in SUBSET Node
    /\ faults \in 0 .. MaxFaults

\* As long as the calls to the node succeed and the validators stay, a super
\* majority that has come together has been handed over to the last attestation,
\* the late ones too: none of them waits for a timer, however the early ones,
\* duplicates, forgeries and timed sends were ordered.
QuorumIsSent ==
    state # NoState /\ ~lossy /\ HasSuperMajority(Cardinality(state.attestations), Cardinality(active))
        => UnsentAttestations(state) = {}

\* What this validator observed leaves its deck: with failed calls, lost events,
\* an expired cache and restarts, as long as they come to an end, its attestation
\* is sent, and sent again when the event of its commit was missed, until it
\* hears that a block holds it.  It takes no restart for that, not even after the
\* cache and the state have expired in a long halt: "If chain halts for longer
\* than this, validators will need to restart their bifrosts to re-share their
\* attestations" (attestation_gossip.go:35) is not so, as sendDeck attests what is
\* on deck again, into a new state.
DeckDrains == deck ~> ~deck

\* "Prune observed txs after this amount of time, even if they are not yet
\* committed" (attestation_gossip.go:33): attestations that are collected are
\* forgotten, even though peers and deck go on to repeat them.
StatesArePruned ==
    (state # NoState /\ state.attestations # {}) ~> (state = NoState)
=============================================================================
