---------------------------- MODULE InjectCache ----------------------------
(***************************************************************************)
(* The inject cache of observed transactions in the enshrined bifrost      *)
(* (x/switchly/ebifrost/inject_cache.go and ebifrost.go).  Bifrost sends   *)
(* gathered attestations over gRPC (SendQuorumTx), the proposer copies     *)
(* what is cached into its block (ProposalInjectTxs), and when a block     *)
(* with such a message is executed the attestations in it are confirmed:   *)
(* taken out of the cache and remembered for some blocks.  A timer drops   *)
(* what nobody confirmed.  Every critical section of the cache's lock is   *)
(* one step (PriorityRWLock shows that they exclude one another); what a   *)
(* goroutine does between two of them is not protected.                    *)
(* Items are shared by pointer: obj is the heap, items the pointers in the *)
(* cache's list, whose order is the order in which they were appended.     *)
(***************************************************************************)
EXTENDS Integers, FiniteSets, FiniteSetsExt

CONSTANTS
    Sender,         \* goroutines serving SendQuorumTx
    Item,           \* QuorumTx up to Equals: an observation and its direction
    Attestation,
    TxIDs, TxOf,    \* the chain's transaction an item is an observation of
    cachedBlocks,   \* ebifrost.go:26
    TTL,            \* cfg.CacheItemTTL, in turns of the prune timer
    MaxSends, MaxHeight, MaxCommits,    \* bounds: calls, blocks, messages in them
    SendInputs, BlockInputs,    \* <<item, attestations>> that senders and blocks bring
    None            \* no job, commit, proposal or size

Pointer == 1..MaxSends
Atts    == SUBSET Attestation
Obj     == [item : Item, atts : Atts]
Job     == [item : Item, todo : Atts, keep : Atts, known : SUBSET (Nat \X Attestation)]
Commit  == [item : Item, atts : Atts, step : {"mark", "record", "clean"}]

ASSUME CacheAssumption ==
    /\ IsFiniteSet(Sender) /\ Item # {}
    /\ TxOf \in [Item -> TxIDs]
    /\ {cachedBlocks, TTL, MaxSends, MaxHeight, MaxCommits} \subseteq Nat
    /\ TTL > 0
    /\ SendInputs \cup BlockInputs \subseteq Item \X (Atts \ {{}})
    /\ None \notin Job \cup Commit

VARIABLES
    obj,            \* pointer -> the QuorumTx it points to
    last,           \* the last pointer allocated
    items, age,     \* the pointers in the cache; pointer -> time since its Timestamp
    recent,         \* recentBlockItems, as a set of records with their height
    height,         \* the block being executed
    job,            \* sender -> the AddItem call it is in, or None
    commit,         \* the message whose attestations are being confirmed, or None
    proposal,       \* the ProposalInjectTxs call under way, or None
    torn,           \* history: an item was marshalled in two different versions
    sends, commits  \* counters for MaxSends and MaxCommits

vars == <<obj, last, items, age, recent, height, job, commit, proposal, torn, sends, commits>>

Init ==
    /\ obj = [k \in Pointer |-> [item |-> CHOOSE i \in Item : TRUE, atts |-> {}]]
    /\ last = 0
    /\ items = {}
    /\ age = [k \in Pointer |-> 0]
    /\ recent = {}
    /\ height = 1
    /\ job = [s \in Sender |-> None]
    /\ commit = None
    /\ proposal = None
    /\ torn = FALSE
    /\ sends = 0
    /\ commits = 0

-----------------------------------------------------------------------------
(* SendQuorumTx: AddItem, one CheckRecentBlocks per attestation (each under *)
(* its own read lock) and then MergeWithExisting.                           *)

\* The attestations of an item that blocks still remembered are known to hold.
Recorded(i, as) ==
    {p \in {r.height : r \in recent} \X as :
        \E r \in recent : r.height = p[1] /\ r.item = i /\ p[2] \in r.atts}

SendQuorumTx(s, i, as) ==
    /\ job[s] = None
    /\ sends < MaxSends
    /\ sends' = sends + 1
    /\ job' = [job EXCEPT ![s] = [item |-> i, todo |-> as, keep |-> {}, known |-> Recorded(i, as)]]
    /\ UNCHANGED <<obj, last, items, age, recent, height, commit, proposal, torn, commits>>

\* Mutant: only the current block is searched
CheckThisBlock(i, a) == \E r \in recent : r.height = height /\ r.item = i /\ a \in r.atts

CheckRecentBlocks(i, a) == \E r \in recent : r.item = i /\ a \in r.atts

FilterAttestation(s) ==
    /\ job[s] # None
    /\ \E a \in job[s].todo :
         LET j == [job[s] EXCEPT !.todo = @ \ {a},
                                 !.keep = IF CheckRecentBlocks(job[s].item, a) THEN @ ELSE @ \cup {a}]
         IN  job' = [job EXCEPT ![s] = IF j.todo = {} /\ j.keep = {} THEN None ELSE j]
    /\ UNCHANGED <<obj, last, items, age, recent, height, commit, proposal, torn, sends, commits>>

\* Mutant: the item is appended without looking for its equal
EqualNone(i) == {}

\* The cached items that equal i; MergeWithExisting keeps there from being two.
Equal(i) == {k \in items : obj[k].item = i}

\* Mutant: the new attestations replace the ones already gathered
MergedReplace(k, as) == [obj[k] EXCEPT !.atts = as]

Merged(k, as) == [obj[k] EXCEPT !.atts = @ \cup as]

AppendItem(i, as) ==
    /\ last' = last + 1
    /\ items' = items \cup {last'}
    /\ obj' = [obj EXCEPT ![last'] = [item |-> i, atts |-> as]]
    /\ age' = [age EXCEPT ![last'] = 0]

MergeItem(k, as) ==
    /\ obj' = [obj EXCEPT ![k] = Merged(k, as)]
    /\ age' = [age EXCEPT ![k] = 0]
    /\ UNCHANGED <<last, items>>

MergeWithExisting(s) ==
    /\ job[s] # None
    /\ job[s].todo = {}
    /\ IF Equal(job[s].item) = {}
       THEN AppendItem(job[s].item, job[s].keep)
       ELSE MergeItem(Min(Equal(job[s].item)), job[s].keep)
    /\ job' = [job EXCEPT ![s] = None]
    /\ UNCHANGED <<recent, height, commit, proposal, torn, sends, commits>>

-----------------------------------------------------------------------------
(* MarkQuorumTxAttestationsConfirmed, called after a block's message has   *)
(* been executed: three critical sections.  Blocks are proposed and        *)
(* executed one at a time (CometBFT), so no proposal is under way.         *)

BlockMessage(i, as) ==
    /\ commit = None
    /\ proposal = None
    /\ commits < MaxCommits
    /\ commits' = commits + 1
    /\ commit' = [item |-> i, atts |-> as, step |-> "mark"]
    /\ UNCHANGED <<obj, last, items, age, recent, height, job, proposal, torn, sends>>

MarkAttestationsConfirmed ==
    /\ commit # None
    /\ commit.step = "mark"
    /\ commit' = [commit EXCEPT !.step = "record"]
    /\ IF Equal(commit.item) = {}
       THEN UNCHANGED <<obj, items, age>>
       ELSE LET k    == Min(Equal(commit.item))
                left == obj[k].atts \ commit.atts
            IN  /\ obj' = [obj EXCEPT ![k].atts = left]
                /\ items' = IF left = {} THEN items \ {k} ELSE items
                /\ age' = IF left = {} THEN age ELSE [age EXCEPT ![k] = 0]
    /\ UNCHANGED <<last, recent, height, job, proposal, torn, sends, commits>>

AddToBlock ==
    /\ commit # None
    /\ commit.step = "record"
    /\ commit' = [commit EXCEPT !.step = "clean"]
    /\ recent' = recent \cup {[height |-> height, item |-> commit.item, atts |-> commit.atts]}
    /\ UNCHANGED <<obj, last, items, age, height, job, proposal, torn, sends, commits>>

\* Mutants: a block too few is kept; a block too many
KeptTooFew == {r \in recent : r.height > height - cachedBlocks}
KeptTooMany == {r \in recent : r.height >= height - cachedBlocks - 1}

Kept == {r \in recent : ~(r.height < height - cachedBlocks)}

CleanOldBlocks ==
    /\ commit # None
    /\ commit.step = "clean"
    /\ commit' = None
    /\ recent' = Kept
    /\ UNCHANGED <<obj, last, items, age, height, job, proposal, torn, sends, commits>>

NextBlock ==
    /\ commit = None
    /\ proposal = None
    /\ height < MaxHeight
    /\ height' = height + 1
    /\ UNCHANGED <<obj, last, items, age, recent, job, commit, proposal, torn, sends, commits>>

-----------------------------------------------------------------------------
(* SendQuorumErrataTx: the first cached item of the transaction is dropped. *)
(* (What it adds to the errata cache is another instance of this module.)   *)

OfTx(x) == {k \in items : TxOf[obj[k].item] = x}

SendQuorumErrataTx(x) ==
    /\ OfTx(x) # {}
    /\ items' = items \ {Min(OfTx(x))}
    /\ UNCHANGED <<obj, last, age, recent, height, job, commit, proposal, torn, sends, commits>>

(* The prune timer (startPruneTimer), and time passing between its turns. *)

Tick ==
    /\ \E k \in items : age[k] < TTL
    /\ age' = [k \in Pointer |-> IF k \in items /\ age[k] < TTL THEN age[k] + 1 ELSE age[k]]
    /\ UNCHANGED <<obj, last, items, recent, height, job, commit, proposal, torn, sends, commits>>

\* Mutant: what is as old as the TTL is kept
ExpiredBeyond == {k \in items : age[k] > TTL}

Expired == {k \in items : age[k] >= TTL}

PruneExpiredItems ==
    /\ Expired # {}
    /\ items' = items \ Expired
    /\ UNCHANGED <<obj, last, age, recent, height, job, commit, proposal, torn, sends, commits>>

-----------------------------------------------------------------------------
(* ProposalInjectTxs.  Get copies the pointers under the priority read     *)
(* lock; every item is marshalled after the lock is released, by reading   *)
(* it twice: for its size, and to write it into a buffer of that size.     *)

ProposeGet ==
    /\ proposal = None
    /\ commit = None
    /\ items # {}
    /\ proposal' = [rest |-> items, sized |-> None]
    /\ UNCHANGED <<obj, last, items, age, recent, height, job, commit, torn, sends, commits>>

ProposeSize ==
    /\ proposal # None
    /\ proposal.sized = None
    /\ proposal' = [proposal EXCEPT !.sized = {obj[Min(proposal.rest)].atts}]
    /\ UNCHANGED <<obj, last, items, age, recent, height, job, commit, torn, sends, commits>>

\* Mutant: the loop runs once more than there are items
ProposeWriteOneMore ==
    /\ proposal # None
    /\ proposal.sized # None
    /\ LET k     == Min(proposal.rest)
           whole == proposal.sized = {obj[k].atts}
       IN  /\ torn' = (torn \/ ~whole)
           /\ proposal' = IF whole THEN [rest |-> proposal.rest \ {k}, sized |-> None] ELSE None
    /\ UNCHANGED <<obj, last, items, age, recent, height, job, commit, sends, commits>>

\* A version other than the one sized does not fit the buffer: Marshal panics
\* and the proposal goes on without any injected message.
ProposeWrite ==
    /\ proposal # None
    /\ proposal.sized # None
    /\ LET k     == Min(proposal.rest)
           whole == proposal.sized = {obj[k].atts}
       IN  /\ torn' = (torn \/ ~whole)
           /\ proposal' = IF whole /\ proposal.rest # {k}
                          THEN [rest |-> proposal.rest \ {k}, sized |-> None]
                          ELSE None
    /\ UNCHANGED <<obj, last, items, age, recent, height, job, commit, sends, commits>>

-----------------------------------------------------------------------------
Next ==
    \/ \E s \in Sender, m \in SendInputs : SendQuorumTx(s, m[1], m[2])
    \/ \E s \in Sender : FilterAttestation(s)
    \/ \E s \in Sender : MergeWithExisting(s)
    \/ \E m \in BlockInputs : BlockMessage(m[1], m[2])
    \/ MarkAttestationsConfirmed
    \/ AddToBlock
    \/ CleanOldBlocks
    \/ NextBlock
    \/ \E x \in TxIDs : SendQuorumErrataTx(x)
    \/ Tick
    \/ PruneExpiredItems
    \/ ProposeGet
    \/ ProposeSize
    \/ ProposeWrite

\* Time passes and the prune timer's goroutine runs at every turn of it.
Fairness == WF_vars(Tick) /\ WF_vars(PruneExpiredItems)

Spec == Init /\ [][Next]_vars /\ Fairness

-----------------------------------------------------------------------------
(* Properties *)

TypeOK ==
    /\ obj \in [Pointer -> Obj]
    /\ last \in 0..sends
    /\ items \subseteq 1..last
    /\ age \in [Pointer -> 0..TTL]
    /\ recent \subseteq [height : Nat, item : Item, atts : Atts]
    /\ height \in Nat \ {0}
    /\ job \in [Sender -> Job \cup {None}]
    /\ commit \in Commit \cup {None}
    /\ proposal = None \/ proposal \in [rest : (SUBSET (1..last)) \ {{}}, sized : {None} \cup {{as} : as \in Atts}]
    /\ torn \in BOOLEAN
    /\ sends \in 0..MaxSends /\ commits \in 0..MaxCommits

Cached(i, a) == \E k \in items : obj[k].item = i /\ a \in obj[k].atts

\* The cache never holds one observation twice, nor one without attestations:
\* two gRPC calls that both found no equal item still end in one item, and a
\* confirmation finds all of an item's attestations in one place.
OneEntryPerItem ==
    \A k \in items :
        /\ obj[k].atts # {}
        /\ \A m \in items : obj[k].item = obj[m].item => k = m

\* Attestations gathered for an observation leave the cache for three reasons:
\* a block confirmed them, nothing touched the item for the TTL, or an errata
\* came for its transaction.  No call, however it overlaps with others, drops
\* an attestation that another one brought.
LeavesForAReason ==
    [][\A i \in Item, a \in Attestation :
         Cached(i, a) /\ ~Cached(i, a)' =>
            \/ commit # None /\ commit.item = i /\ a \in commit.atts
            \/ \E k \in items : obj[k].item = i /\ age[k] >= TTL
            \/ \E x \in TxIDs : TxOf[i] = x /\ SendQuorumErrataTx(x)]_vars

\* An attestation that a block had already been recorded to hold when the call
\* began is only let through once that block is more than cachedBlocks old,
\* however the call is interleaved with the execution of blocks.
FilterHolds ==
    \A s \in Sender : job[s] # None =>
        \A h \in 1..height, a \in job[s].keep :
            <<h, a>> \in job[s].known => h < height - cachedBlocks

\* What is remembered stays bounded: between two confirmations at most
\* cachedBlocks + 1 blocks (ebifrost_test.go:570), all of them within
\* cachedBlocks of the newest one.
WindowBounded ==
    LET heights == {r.height : r \in recent}
    IN  commit = None => \A h, g \in heights : g - h <= cachedBlocks

\* Nothing stays in the cache for ever: once the senders have made their calls
\* the cache empties, whether or not blocks confirm what is in it.
CacheDrains == <>[](items = {})

\* What the cache says of itself (inject_cache.go:20-21): the recent blocks are
\* kept "so we don't reprocess" what is in them.  Once a block's attestations
\* are confirmed, none of them is offered to the next proposal.  It does not hold:
\* a sender that filtered before the confirmation merges after it.
RecentNotCached ==
    commit = None =>
        \A r \in recent, k \in items : obj[k].item = r.item => obj[k].atts \cap r.atts = {}

\* "Get returns all items in the cache (thread-safe)" (inject_cache.go:45): what
\* the proposer does with them is not disturbed by the senders.  It does not hold:
\* the items are marshalled through their pointers outside the lock.
MarshalsOneVersion == ~torn
=============================================================================
