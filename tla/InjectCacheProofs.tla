-------------------------- MODULE InjectCacheProofs --------------------------
(***************************************************************************)
(* For any senders, items, attestations and window: what the inject cache  *)
(* promises between its critical sections.  A call that has begun carries  *)
(* what it knows (known); KnownStays says that such knowledge is either    *)
(* still recorded or past the window, which is why the filter, applied to  *)
(* one attestation at a time, holds at the end.                            *)
(***************************************************************************)
EXTENDS InjectCache, FiniteSetTheorems, WellFoundedInduction, TLAPS

Busy == {s \in Sender : job[s] # None}

CacheType ==
    /\ obj \in [Pointer -> Obj]
    /\ last \in Nat
    /\ items \subseteq 1..last
    /\ recent \subseteq [height : Nat, item : Item, atts : Atts]
    /\ height \in Nat
    /\ job \in [Sender -> Job \cup {None}]
    /\ commit \in Commit \cup {None}

\* Every pointer still to be allocated has its call.
PointersLast == sends \in Nat /\ sends <= MaxSends /\ last + Cardinality(Busy) <= sends

RecentPast == \A r \in recent : r.height <= height

\* What a call knew when it began is still recorded, or past the window.
KnownStays ==
    \A s \in Sender : job[s] # None =>
        \A h \in Nat, a \in Attestation : <<h, a>> \in job[s].known =>
            /\ h <= height
            /\ \/ h < height - cachedBlocks
               \/ \E r \in recent : r.height = h /\ r.item = job[s].item /\ a \in r.atts

KeepOld ==
    \A s \in Sender : job[s] # None =>
        \A h \in Nat, a \in Attestation :
            a \in job[s].keep /\ <<h, a>> \in job[s].known => h < height - cachedBlocks

\* A call has something left to check or to merge.
JobAlive == \A s \in Sender : job[s] # None => job[s].todo # {} \/ job[s].keep # {}

WindowClean ==
    (commit = None \/ commit.step # "clean") =>
        \A r, q \in recent : q.height - r.height <= cachedBlocks

IInv ==
    /\ CacheType /\ PointersLast /\ RecentPast /\ KnownStays
    /\ KeepOld /\ JobAlive /\ WindowClean /\ OneEntryPerItem

-----------------------------------------------------------------------------
\* MergeWithExisting and MarkAttestationsConfirmed stop at the first equal item:
\* there is only one.
LEMMA OneEqual ==
    ASSUME CacheType, OneEntryPerItem, NEW i, Equal(i) # {}
    PROVE  /\ Min(Equal(i)) \in items
           /\ obj[Min(Equal(i))].item = i
           /\ \A k \in items : obj[k].item = i => k = Min(Equal(i))
<1>1. PICK k \in Equal(i) : TRUE
  OBVIOUS
<1>2. Equal(i) = {k} /\ k \in items /\ obj[k].item = i
  BY <1>1 DEF Equal, OneEntryPerItem
<1>3. k \in Int
  BY <1>2 DEF CacheType
<1>4. Min({k}) = k
  BY <1>3 DEF Min
<1>5. Min(Equal(i)) = k
  BY <1>2, <1>4
<1> QED BY <1>2, <1>5 DEF Equal

\* Pointers in the cache's list are allocated ones.
LEMMA ItemsArePointers ==
    ASSUME CacheType, PointersLast
    PROVE  items \subseteq Pointer /\ Cardinality(Busy) \in Nat /\ last <= MaxSends
<1>1. IsFiniteSet(Busy)
  BY CacheAssumption, FS_Subset DEF Busy
<1>2. Cardinality(Busy) \in Nat
  BY <1>1, FS_CardinalityType
<1> QED BY <1>2, CacheAssumption DEF CacheType, PointersLast, Pointer

\* The number of calls under way, as calls begin and end.
LEMMA BusyStep ==
    ASSUME CacheType, NEW s \in Sender, NEW j, job' = [job EXCEPT ![s] = j]
    PROVE  /\ job[s] = None /\ j # None => Cardinality(Busy') = Cardinality(Busy) + 1
           /\ job[s] # None /\ j = None => Cardinality(Busy') = Cardinality(Busy) - 1
           /\ job[s] # None /\ j # None => Busy' = Busy
<1>1. IsFiniteSet(Busy)
  BY CacheAssumption, FS_Subset DEF Busy
<1>2. job' = [job EXCEPT ![s] = j] /\ DOMAIN job = Sender
  BY DEF CacheType
<1>3. ASSUME job[s] = None, j # None PROVE Cardinality(Busy') = Cardinality(Busy) + 1
  <2>1. Busy' = Busy \cup {s} /\ s \notin Busy
    BY <1>2, <1>3 DEF Busy
  <2> QED BY <1>1, <2>1, FS_AddElement
<1>4. ASSUME job[s] # None, j = None PROVE Cardinality(Busy') = Cardinality(Busy) - 1
  <2>1. Busy' = Busy \ {s} /\ s \in Busy
    BY <1>2, <1>4 DEF Busy
  <2> QED BY <1>1, <2>1, FS_RemoveElement
<1>5. ASSUME job[s] # None, j # None PROVE Busy' = Busy
  BY <1>2, <1>5 DEF Busy
<1> QED BY <1>3, <1>4, <1>5

\* The initial cache: empty, no call under way.
LEMMA InitIInv == Init => IInv
<1> SUFFICES ASSUME Init PROVE IInv
  OBVIOUS
<1>1. CacheType
  BY CacheAssumption DEF Init, CacheType, Pointer, Obj, Atts
<1>2. Busy = {}
  BY DEF Init, Busy
<1>3. PointersLast
  BY <1>2, FS_EmptySet, CacheAssumption DEF Init, PointersLast
<1> QED BY <1>1, <1>3
      DEF Init, IInv, RecentPast, KnownStays, KeepOld, JobAlive, WindowClean, OneEntryPerItem

\* SendQuorumTx: the call begins, knowing what is recorded now.
LEMMA SendStep ==
    ASSUME IInv, NEW s \in Sender, NEW m \in SendInputs, SendQuorumTx(s, m[1], m[2])
    PROVE  IInv'
<1> DEFINE i == m[1]  as == m[2]
<1>0. m \in Item \X (Atts \ {{}})
  BY CacheAssumption
<1>1. i \in Item /\ as \in Atts /\ as # {}
  BY <1>0
<1> HIDE DEF i, as
<1>2. /\ job[s] = None /\ sends < MaxSends /\ sends' = sends + 1
      /\ job' = [job EXCEPT ![s] = [item |-> i, todo |-> as, keep |-> {}, known |-> Recorded(i, as)]]
      /\ UNCHANGED <<obj, last, items, recent, height, commit>>
  BY DEF SendQuorumTx, i, as
<1> DEFINE j == [item |-> i, todo |-> as, keep |-> {}, known |-> Recorded(i, as)]
<1>3. \A h \in Nat, a \in Attestation : <<h, a>> \in Recorded(i, as) =>
         \E r \in recent : r.height = h /\ r.item = i /\ a \in r.atts
  BY DEF Recorded, IInv, CacheType
<1>4. Recorded(i, as) \subseteq Nat \X Attestation
  BY <1>1 DEF Recorded, IInv, CacheType, Atts
<1>5. j \in Job /\ j # None
  <2>1. {} \in Atts
    BY DEF Atts
  <2>2. Recorded(i, as) \in SUBSET (Nat \X Attestation)
    BY <1>4
  <2>3. j \in Job
    BY <1>1, <2>1, <2>2 DEF Job
  <2> QED BY <2>3, CacheAssumption
<1>6. j.item = i /\ j.todo = as /\ j.keep = {} /\ j.known = Recorded(i, as)
  OBVIOUS
<1>7. job' = [job EXCEPT ![s] = j]
  BY <1>2
<1> HIDE DEF j
<1>8. job \in [Sender -> Job \cup {None}]
  BY DEF IInv, CacheType
<1>9. job' \in [Sender -> Job \cup {None}] /\ job'[s] = j /\ \A t \in Sender : t # s => job'[t] = job[t]
  BY <1>5, <1>7, <1>8
<1>10. CacheType'
  BY <1>2, <1>9 DEF IInv, CacheType
<1>11. PointersLast'
  <2>1. Cardinality(Busy') = Cardinality(Busy) + 1
    BY <1>2, <1>5, <1>7, BusyStep DEF IInv
  <2> QED BY <1>2, <2>1, ItemsArePointers, CacheAssumption DEF IInv, PointersLast, CacheType
<1>12. KnownStays'
  <2> SUFFICES ASSUME NEW t \in Sender, job'[t] # None, NEW h \in Nat, NEW a \in Attestation,
                      <<h, a>> \in job'[t].known
               PROVE  /\ h <= height
                      /\ \/ h < height - cachedBlocks
                         \/ \E r \in recent : r.height = h /\ r.item = job'[t].item /\ a \in r.atts
    <3>1. recent' = recent /\ height' = height
      BY <1>2
    <3> QED BY <3>1 DEF KnownStays
  <2>1. CASE t # s
    <3>1. job'[t] = job[t]
      BY <2>1, <1>9
    <3> QED BY <3>1 DEF IInv, KnownStays
  <2>2. CASE t = s
    <3>1. job'[t].item = i /\ <<h, a>> \in Recorded(i, as)
      BY <2>2, <1>6, <1>9
    <3>2. PICK r \in recent : r.height = h /\ r.item = i /\ a \in r.atts
      BY <3>1, <1>3
    <3> QED BY <3>1, <3>2 DEF IInv, RecentPast
  <2> QED BY <2>1, <2>2
<1>13. KeepOld' /\ JobAlive'
  BY <1>1, <1>2, <1>6, <1>9 DEF IInv, KeepOld, JobAlive
<1>14. OneEntryPerItem' /\ RecentPast' /\ WindowClean'
  BY <1>2 DEF IInv, OneEntryPerItem, RecentPast, WindowClean
<1> QED BY <1>10, <1>11, <1>12, <1>13, <1>14 DEF IInv

\* CheckRecentBlocks for one attestation of a call: what it lets through is
\* recorded by no remembered block.
LEMMA FilterStep ==
    ASSUME IInv, NEW s \in Sender, FilterAttestation(s)
    PROVE  IInv'
<1>1. job[s] # None /\ UNCHANGED <<obj, last, items, recent, height, commit, sends>>
  BY DEF FilterAttestation
<1>2. PICK b \in job[s].todo :
        LET j == [job[s] EXCEPT !.todo = @ \ {b},
                                !.keep = IF CheckRecentBlocks(job[s].item, b) THEN @ ELSE @ \cup {b}]
        IN  job' = [job EXCEPT ![s] = IF j.todo = {} /\ j.keep = {} THEN None ELSE j]
  BY DEF FilterAttestation
<1> DEFINE j == [job[s] EXCEPT !.todo = @ \ {b},
                               !.keep = IF CheckRecentBlocks(job[s].item, b) THEN @ ELSE @ \cup {b}]
           n == IF j.todo = {} /\ j.keep = {} THEN None ELSE j
<1>3. job \in [Sender -> Job \cup {None}] /\ job[s] \in Job
  BY <1>1 DEF IInv, CacheType
<1>4. /\ j \in Job /\ j.item = job[s].item /\ j.known = job[s].known
      /\ j.keep = IF CheckRecentBlocks(job[s].item, b) THEN job[s].keep ELSE job[s].keep \cup {b}
  BY <1>3 DEF Job, Atts
<1>5. job' = [job EXCEPT ![s] = n]
  BY <1>2
<1> HIDE DEF j
<1>6. n \in Job \cup {None} /\ (n # None => n = j /\ (j.todo # {} \/ j.keep # {}))
  BY <1>4
<1> HIDE DEF n
<1>7. job' \in [Sender -> Job \cup {None}] /\ job'[s] = n /\ \A t \in Sender : t # s => job'[t] = job[t]
  BY <1>3, <1>5, <1>6
<1>8. CacheType'
  BY <1>1, <1>7 DEF IInv, CacheType
<1>9. PointersLast'
  <2>1. Busy' = Busy \/ Cardinality(Busy') = Cardinality(Busy) - 1
    BY <1>1, <1>5, BusyStep DEF IInv
  <2> QED BY <1>1, <2>1, ItemsArePointers, CacheAssumption DEF IInv, PointersLast, CacheType
<1>10. KnownStays'
  BY <1>1, <1>4, <1>6, <1>7 DEF IInv, KnownStays
<1>11. KeepOld'
  <2> SUFFICES ASSUME NEW t \in Sender, job'[t] # None, NEW h \in Nat, NEW a \in Attestation,
                      a \in job'[t].keep, <<h, a>> \in job'[t].known
               PROVE  h < height - cachedBlocks
    BY <1>1 DEF KeepOld
  <2>1. CASE t # s \/ a \in job[s].keep
    BY <2>1, <1>1, <1>4, <1>6, <1>7 DEF IInv, KeepOld
  <2>2. CASE t = s /\ a \notin job[s].keep
    <3>1. a = b /\ ~CheckRecentBlocks(job[s].item, b) /\ <<h, a>> \in job[s].known
      BY <2>2, <1>4, <1>6, <1>7
    <3> QED BY <3>1, <1>1 DEF IInv, KnownStays, CheckRecentBlocks
  <2> QED BY <2>1, <2>2
<1>12. JobAlive'
  BY <1>1, <1>6, <1>7 DEF IInv, JobAlive
<1>13. OneEntryPerItem' /\ RecentPast' /\ WindowClean'
  BY <1>1 DEF IInv, OneEntryPerItem, RecentPast, WindowClean
<1> QED BY <1>8, <1>9, <1>10, <1>11, <1>12, <1>13 DEF IInv

\* MergeWithExisting: one entry is renewed, or one is appended that has no equal.
LEMMA MergeStep ==
    ASSUME IInv, NEW s \in Sender, MergeWithExisting(s)
    PROVE  IInv'
<1> DEFINE i == job[s].item  as == job[s].keep
<1>1. /\ job[s] # None /\ job[s].todo = {} /\ job' = [job EXCEPT ![s] = None]
      /\ UNCHANGED <<recent, height, commit, sends>>
      /\ IF Equal(i) = {} THEN AppendItem(i, as) ELSE MergeItem(Min(Equal(i)), as)
  BY DEF MergeWithExisting
<1>2. job \in [Sender -> Job \cup {None}] /\ job[s] \in Job
  BY <1>1 DEF IInv, CacheType
<1>3. i \in Item /\ as \in Atts /\ as # {}
  BY <1>1, <1>2 DEF Job, IInv, JobAlive
<1> HIDE DEF i, as
<1>4. /\ job' \in [Sender -> Job \cup {None}] /\ job'[s] = None
      /\ \A t \in Sender : t # s => job'[t] = job[t]
  BY <1>1, <1>2
<1>5. /\ Cardinality(Busy') = Cardinality(Busy) - 1
      /\ Cardinality(Busy) \in Nat /\ Cardinality(Busy') \in Nat
  <2>1. Cardinality(Busy') = Cardinality(Busy) - 1
    BY <1>1, BusyStep DEF IInv
  <2>2. IsFiniteSet(Busy) /\ IsFiniteSet(Busy')
    BY CacheAssumption, FS_Subset DEF Busy
  <2> QED BY <2>1, <2>2, FS_CardinalityType
<1>6. KnownStays' /\ KeepOld' /\ JobAlive' /\ RecentPast' /\ WindowClean'
  BY <1>1, <1>4 DEF IInv, KnownStays, KeepOld, JobAlive, RecentPast, WindowClean
<1>7. obj \in [Pointer -> Obj] /\ last \in Nat /\ items \subseteq 1..last /\ items \subseteq Pointer
  BY ItemsArePointers DEF IInv, CacheType
<1>8. CASE Equal(i) = {}
  <2>1. /\ last' = last + 1 /\ items' = items \cup {last + 1}
        /\ obj' = [obj EXCEPT ![last + 1] = [item |-> i, atts |-> as]]
    BY <1>1, <1>8 DEF AppendItem
  <2>2. last + 1 \in Pointer /\ last + 1 \notin items /\ PointersLast'
    BY <1>1, <1>5, <1>7, <2>1, CacheAssumption DEF IInv, PointersLast, Pointer
  <2>3. [item |-> i, atts |-> as] \in Obj
    BY <1>3 DEF Obj
  <2>4. /\ obj' \in [Pointer -> Obj] /\ obj'[last + 1].item = i /\ obj'[last + 1].atts = as
        /\ \A k \in items : obj'[k] = obj[k]
    BY <1>7, <2>1, <2>2, <2>3
  <2>5. CacheType'
    BY <1>1, <1>4, <1>7, <2>1, <2>4 DEF IInv, CacheType
  <2>6. \A k \in items : obj[k].item # i
    BY <1>8 DEF Equal
  <2>7. OneEntryPerItem'
    <3>1. \A k \in items' : obj'[k].atts # {}
      BY <1>3, <2>1, <2>4 DEF IInv, OneEntryPerItem
    <3>2. ASSUME NEW k \in items', NEW n \in items', obj'[k].item = obj'[n].item PROVE k = n
      BY <2>1, <2>4, <2>6, <3>2 DEF IInv, OneEntryPerItem
    <3> QED BY <3>1, <3>2 DEF OneEntryPerItem
  <2> QED BY <1>6, <2>2, <2>5, <2>7 DEF IInv
<1>9. CASE Equal(i) # {}
  <2> DEFINE k == Min(Equal(i))
  <2>1. k \in items /\ obj[k].item = i
    BY <1>9, OneEqual DEF IInv
  <2>2. /\ obj' = [obj EXCEPT ![k] = [obj[k] EXCEPT !.atts = @ \cup as]]
        /\ last' = last /\ items' = items
    BY <1>1, <1>9 DEF MergeItem, Merged
  <2> HIDE DEF k
  <2>3. /\ [obj[k] EXCEPT !.atts = @ \cup as] \in Obj
        /\ [obj[k] EXCEPT !.atts = @ \cup as].item = i
        /\ [obj[k] EXCEPT !.atts = @ \cup as].atts # {}
    BY <1>3, <1>7, <2>1 DEF Obj, Atts
  <2>4. /\ obj' \in [Pointer -> Obj] /\ obj'[k].item = i /\ obj'[k].atts # {}
        /\ \A m \in items : m # k => obj'[m] = obj[m]
    BY <1>7, <2>1, <2>2, <2>3
  <2>5. CacheType'
    BY <1>1, <1>4, <1>7, <2>2, <2>4 DEF IInv, CacheType
  <2>6. PointersLast'
    BY <1>1, <1>5, <1>7, <2>2, CacheAssumption DEF IInv, PointersLast
  <2>7. OneEntryPerItem'
    <3>1. \A m \in items' : obj'[m].atts # {} /\ obj'[m].item = obj[m].item
      BY <2>1, <2>2, <2>4 DEF IInv, OneEntryPerItem
    <3>2. items' = items
      BY <2>2
    <3>3. \A m, n \in items : obj[m].item = obj[n].item => m = n
      BY DEF IInv, OneEntryPerItem
    <3>4. \A m, n \in items' : obj'[m].item = obj'[n].item => m = n
      BY <3>1, <3>2, <3>3
    <3> QED BY <3>1, <3>4 DEF OneEntryPerItem
  <2> QED BY <1>6, <2>5, <2>6, <2>7 DEF IInv
<1> QED BY <1>8, <1>9

\* MarkAttestationsConfirmed: an item left without attestations leaves the list.
LEMMA MarkStep ==
    ASSUME IInv, MarkAttestationsConfirmed
    PROVE  IInv'
<1>1. /\ commit # None /\ commit.step = "mark" /\ commit' = [commit EXCEPT !.step = "record"]
      /\ UNCHANGED <<last, recent, height, job, sends>>
  BY DEF MarkAttestationsConfirmed
<1>2. commit \in Commit
  BY <1>1 DEF IInv, CacheType
<1>3. commit' \in Commit /\ commit'.step = "record"
  BY <1>1, <1>2 DEF Commit
<1>4. PointersLast' /\ KnownStays' /\ KeepOld' /\ JobAlive' /\ RecentPast'
  BY <1>1 DEF IInv, KnownStays, KeepOld, JobAlive, RecentPast, PointersLast, Busy
<1>5. WindowClean'
  BY <1>1 DEF IInv, WindowClean
<1>6. CASE Equal(commit.item) = {}
  <2>1. UNCHANGED <<obj, items>>
    BY <1>6 DEF MarkAttestationsConfirmed
  <2> QED BY <1>1, <1>3, <1>4, <1>5, <2>1 DEF IInv, CacheType, OneEntryPerItem
<1>7. CASE Equal(commit.item) # {}
  <2> DEFINE k == Min(Equal(commit.item))
             left == obj[k].atts \ commit.atts
  <2>1. k \in items
    BY <1>7, OneEqual DEF IInv
  <2>2. /\ obj' = [obj EXCEPT ![k].atts = left]
        /\ items' = IF left = {} THEN items \ {k} ELSE items
    BY <1>7 DEF MarkAttestationsConfirmed
  <2> HIDE DEF k
  <2>3. obj \in [Pointer -> Obj] /\ k \in Pointer /\ items \subseteq Pointer
    BY <2>1, ItemsArePointers DEF IInv, CacheType
  <2>4. obj[k] \in Obj /\ left \in Atts
    BY <2>3 DEF Obj, Atts
  <2> HIDE DEF left
  <2>5. /\ [obj[k] EXCEPT !.atts = left] \in Obj
        /\ [obj[k] EXCEPT !.atts = left].item = obj[k].item
        /\ [obj[k] EXCEPT !.atts = left].atts = left
    BY <2>4 DEF Obj
  <2>6. /\ obj' \in [Pointer -> Obj] /\ obj'[k].item = obj[k].item /\ obj'[k].atts = left
        /\ \A m \in items : m # k => obj'[m] = obj[m]
    BY <2>2, <2>3, <2>5
  <2>7. CacheType'
    BY <1>1, <1>3, <2>2, <2>6 DEF IInv, CacheType
  <2>8. OneEntryPerItem'
    BY <2>1, <2>2, <2>6 DEF IInv, OneEntryPerItem
  <2> QED BY <1>4, <1>5, <2>7, <2>8 DEF IInv
<1> QED BY <1>6, <1>7

\* AddToBlock, CleanOldBlocks and the next block: what moves the window.
LEMMA WindowStep ==
    ASSUME IInv, AddToBlock \/ CleanOldBlocks \/ NextBlock
    PROVE  IInv'
<1>1. UNCHANGED <<obj, last, items, job, sends>>
  BY DEF AddToBlock, CleanOldBlocks, NextBlock
<1>2. PointersLast' /\ JobAlive' /\ OneEntryPerItem'
  BY <1>1 DEF IInv, PointersLast, Busy, JobAlive, OneEntryPerItem
<1>3. height \in Nat /\ cachedBlocks \in Nat /\ \A r \in recent : r.height \in Nat
  BY CacheAssumption DEF IInv, CacheType
<1>4. CASE AddToBlock
  <2> DEFINE n == [height |-> height, item |-> commit.item, atts |-> commit.atts]
  <2>1. /\ commit # None /\ commit' = [commit EXCEPT !.step = "clean"]
        /\ recent' = recent \cup {n} /\ height' = height
    BY <1>4 DEF AddToBlock
  <2>2. commit \in Commit
    BY <2>1 DEF IInv, CacheType
  <2>3. /\ commit' \in Commit /\ commit'.step = "clean" /\ n.height = height
        /\ n \in [height : Nat, item : Item, atts : Atts]
    BY <1>3, <2>1, <2>2 DEF Commit
  <2> HIDE DEF n
  <2>4. CacheType' /\ RecentPast'
    BY <1>1, <1>3, <2>1, <2>3 DEF IInv, CacheType, RecentPast
  <2>5. KnownStays' /\ KeepOld'
    BY <1>1, <2>1 DEF IInv, KnownStays, KeepOld
  <2>6. WindowClean'
    BY <2>3, CacheAssumption DEF WindowClean
  <2> QED BY <1>2, <2>4, <2>5, <2>6 DEF IInv
<1>5. CASE CleanOldBlocks
  <2>1. commit' = None /\ recent' = {r \in recent : ~(r.height < height - cachedBlocks)} /\ height' = height
    BY <1>5 DEF CleanOldBlocks, Kept
  <2>2. CacheType' /\ RecentPast' /\ KeepOld'
    BY <1>1, <2>1 DEF IInv, CacheType, RecentPast, KeepOld
  <2>3. KnownStays'
    BY <1>1, <1>3, <2>1 DEF IInv, KnownStays
  <2>4. WindowClean'
    BY <1>3, <2>1 DEF IInv, RecentPast, WindowClean
  <2> QED BY <1>2, <2>2, <2>3, <2>4 DEF IInv
<1>6. CASE NextBlock
  <2>1. commit' = commit /\ recent' = recent /\ height' = height + 1
    BY <1>6 DEF NextBlock
  <2>2. CacheType' /\ RecentPast' /\ WindowClean'
    BY <1>1, <1>3, <2>1 DEF IInv, CacheType, RecentPast, WindowClean
  <2>3. KnownStays' /\ KeepOld'
    BY <1>1, <1>3, <2>1 DEF IInv, KnownStays, KeepOld
  <2> QED BY <1>2, <2>2, <2>3 DEF IInv
<1> QED BY <1>4, <1>5, <1>6

\* The steps that take items out of the list, read them, or let time pass, and
\* the arrival of a block's message.
LEMMA OtherStep ==
    ASSUME IInv,
           \/ \E m \in BlockInputs : BlockMessage(m[1], m[2])
           \/ \E x \in TxIDs : SendQuorumErrataTx(x)
           \/ Tick \/ PruneExpiredItems \/ ProposeGet \/ ProposeSize \/ ProposeWrite
           \/ UNCHANGED vars
    PROVE  IInv'
<1>1. UNCHANGED <<obj, last, recent, height, job, sends>> /\ items' \subseteq items
  BY DEF BlockMessage, SendQuorumErrataTx, Tick, PruneExpiredItems, ProposeGet,
         ProposeSize, ProposeWrite, vars
<1>2. commit' = commit \/ (commit' \in Commit /\ commit'.step = "mark" /\ commit = None)
  <2>1. CASE \E m \in BlockInputs : BlockMessage(m[1], m[2])
    <3>1. PICK m \in BlockInputs : BlockMessage(m[1], m[2])
      BY <2>1
    <3>2. m \in Item \X (Atts \ {{}})
      BY CacheAssumption
    <3> QED BY <3>1, <3>2 DEF BlockMessage, Commit
  <2>2. CASE ~\E m \in BlockInputs : BlockMessage(m[1], m[2])
    BY <2>2 DEF SendQuorumErrataTx, Tick, PruneExpiredItems, ProposeGet,
                ProposeSize, ProposeWrite, vars
  <2> QED BY <2>1, <2>2
<1>3. CacheType'
  BY <1>1, <1>2 DEF IInv, CacheType
<1>4. PointersLast' /\ KnownStays' /\ KeepOld' /\ JobAlive' /\ RecentPast' /\ OneEntryPerItem'
  BY <1>1 DEF IInv, PointersLast, Busy, KnownStays, KeepOld, JobAlive, RecentPast, OneEntryPerItem
<1>5. WindowClean'
  BY <1>1, <1>2 DEF IInv, WindowClean
<1> QED BY <1>3, <1>4, <1>5 DEF IInv

\* Every step of every goroutine keeps the inductive invariant.
LEMMA NextIInv == IInv /\ [Next]_vars => IInv'
BY SendStep, FilterStep, MergeStep, MarkStep, WindowStep, OtherStep DEF Next

-----------------------------------------------------------------------------
\* However many gRPC calls overlap, the cache holds one entry per observation.
THEOREM OneEntry == Spec => []OneEntryPerItem
<1>1. IInv => OneEntryPerItem
  BY DEF IInv
<1> QED BY <1>1, InitIInv, NextIInv, PTL DEF Spec

\* The filter of AddItem, though it takes the lock once per attestation, lets
\* through nothing that was recorded when the call began and still is.
THEOREM FilterIsSound == Spec => []FilterHolds
<1>1. IInv => FilterHolds
  <2> SUFFICES ASSUME IInv, NEW s \in Sender, job[s] # None,
                      NEW h \in 1..height, NEW a \in job[s].keep, <<h, a>> \in job[s].known
               PROVE  h < height - cachedBlocks
    BY DEF FilterHolds
  <2>1. job[s] \in Job /\ height \in Nat
    BY DEF IInv, CacheType
  <2>2. a \in Attestation /\ h \in Nat
    BY <2>1 DEF Job, Atts
  <2> QED BY <2>2 DEF IInv, KeepOld
<1> QED BY <1>1, InitIInv, NextIInv, PTL DEF Spec

\* The recent blocks never span more than cachedBlocks between confirmations.
THEOREM WindowIsBounded == Spec => []WindowBounded
<1>1. IInv => WindowBounded
  BY DEF IInv, WindowClean, WindowBounded
<1> QED BY <1>1, InitIInv, NextIInv, PTL DEF Spec

-----------------------------------------------------------------------------
(* The types of all the state *)

\* What IInv does not say of the types.
RestType ==
    /\ age \in [Pointer -> 0..TTL]
    /\ height # 0
    /\ proposal = None \/ proposal \in [rest : (SUBSET (1..last)) \ {{}}, sized : {None} \cup {{as} : as \in Atts}]
    /\ torn \in BOOLEAN
    /\ commits \in 0..MaxCommits

(* The invariant and the types it does not mention are the type invariant. *)
LEMMA IInvType == IInv /\ RestType => TypeOK
<1> SUFFICES ASSUME IInv, RestType PROVE TypeOK
  OBVIOUS
<1>1. last \in Nat /\ sends \in Nat /\ sends <= MaxSends /\ MaxSends \in Nat /\ last + Cardinality(Busy) <= sends
  BY CacheAssumption DEF IInv, CacheType, PointersLast
<1>2. Cardinality(Busy) \in Nat
  BY CacheAssumption, FS_Subset, FS_CardinalityType DEF Busy
<1>3. last \in 0..sends /\ sends \in 0..MaxSends
  BY <1>1, <1>2
<1> QED BY <1>3 DEF IInv, CacheType, RestType, TypeOK

\* The first of a set of pointers is one of them.
LEMMA MinPointer ==
    ASSUME NEW S, S \subseteq Nat, S # {}
    PROVE  Min(S) \in S
<1>1. IsWellFoundedOn(OpToRel(<, Nat), Nat)
  BY NatLessThanWellFounded
<1>2. PICK x \in S : \A y \in S : ~(<<y, x>> \in OpToRel(<, Nat))
  BY <1>1, WFMin
<1>3. \A y \in S : y < x => <<y, x>> \in OpToRel(<, Nat)
  BY DEF OpToRel
<1>4. \A y \in S : ~(y < x)
  BY <1>2, <1>3
<1>5. \A y \in S : x <= y
  BY <1>4
<1> QED BY <1>5 DEF Min

(* Each step keeps the types of what the invariant does not mention.       *)
LEMMA NextRestType == IInv /\ RestType /\ IInv' /\ [Next]_vars => RestType'
<1> SUFFICES ASSUME IInv, RestType, IInv', [Next]_vars PROVE RestType'
  OBVIOUS
<1>1. /\ last \in Nat /\ TTL \in Nat /\ TTL > 0 /\ MaxCommits \in Nat /\ obj \in [Pointer -> Obj]
      /\ items \subseteq 1..last /\ height \in Nat
  BY CacheAssumption DEF IInv, CacheType
<1>2. last <= MaxSends /\ MaxSends \in Nat
  <2>1. Cardinality(Busy) \in Nat
    BY CacheAssumption, FS_Subset, FS_CardinalityType DEF Busy
  <2> QED BY <1>1, <2>1, CacheAssumption DEF IInv, PointersLast
<1>3. age' \in [Pointer -> 0..TTL]
  <2>1. age \in [Pointer -> 0..TTL] /\ 0 \in 0..TTL
    BY <1>1 DEF RestType
  <2>2. \A k : [age EXCEPT ![k] = 0] \in [Pointer -> 0..TTL]
    BY <2>1
  <2>3. ASSUME NEW s \in Sender, MergeWithExisting(s) PROVE age' \in [Pointer -> 0..TTL]
    <3>1. \E k : age' = [age EXCEPT ![k] = 0]
      BY <2>3 DEF MergeWithExisting, AppendItem, MergeItem
    <3> QED BY <2>2, <3>1
  <2>4. CASE MarkAttestationsConfirmed
    <3>1. age' = age \/ \E k : age' = [age EXCEPT ![k] = 0]
      BY <2>4 DEF MarkAttestationsConfirmed
    <3> QED BY <2>1, <2>2, <3>1
  <2>5. CASE Tick
    <3>1. age' = [k \in Pointer |-> IF k \in items /\ age[k] < TTL THEN age[k] + 1 ELSE age[k]]
      BY <2>5 DEF Tick
    <3>2. \A k \in Pointer : age[k] \in 0..TTL /\ (age[k] < TTL => age[k] + 1 \in 0..TTL)
      BY <1>1, <2>1
    <3> QED BY <3>1, <3>2
  <2>6. CASE UNCHANGED age
    BY <2>1, <2>6
  <2> QED
    BY <2>3, <2>4, <2>5, <2>6 DEF Next, SendQuorumTx, FilterAttestation, BlockMessage, AddToBlock,
       CleanOldBlocks, NextBlock, SendQuorumErrataTx, PruneExpiredItems, ProposeGet, ProposeSize, ProposeWrite, vars
<1>4. height' # 0
  <2>1. CASE NextBlock
    BY <1>1, <2>1 DEF NextBlock
  <2>2. CASE UNCHANGED height
    BY <2>2 DEF RestType
  <2> QED
    BY <2>1, <2>2 DEF Next, SendQuorumTx, FilterAttestation, MergeWithExisting, BlockMessage,
       MarkAttestationsConfirmed, AddToBlock, CleanOldBlocks, SendQuorumErrataTx, Tick, PruneExpiredItems,
       ProposeGet, ProposeSize, ProposeWrite, vars
<1>5. commits' \in 0..MaxCommits
  <2>1. ASSUME NEW m \in BlockInputs, BlockMessage(m[1], m[2]) PROVE commits' \in 0..MaxCommits
    BY <1>1, <2>1 DEF BlockMessage, RestType
  <2>2. CASE UNCHANGED commits
    BY <2>2 DEF RestType
  <2> QED
    BY <2>1, <2>2 DEF Next, SendQuorumTx, FilterAttestation, MergeWithExisting,
       MarkAttestationsConfirmed, AddToBlock, CleanOldBlocks, NextBlock, SendQuorumErrataTx, Tick,
       PruneExpiredItems, ProposeGet, ProposeSize, ProposeWrite, vars
<1>7. torn' \in BOOLEAN
  <2>1. CASE ProposeWrite
    BY <2>1 DEF ProposeWrite
  <2>2. CASE UNCHANGED torn
    BY <2>2 DEF RestType
  <2> QED
    BY <2>1, <2>2 DEF Next, SendQuorumTx, FilterAttestation, MergeWithExisting, BlockMessage,
       MarkAttestationsConfirmed, AddToBlock, CleanOldBlocks, NextBlock, SendQuorumErrataTx, Tick,
       PruneExpiredItems, ProposeGet, ProposeSize, vars
<1> DEFINE Proposal(l) == [rest : (SUBSET (1..l)) \ {{}}, sized : {None} \cup {{as} : as \in Atts}]
<1>6. proposal' = None \/ proposal' \in Proposal(last')
  <2>1. CASE UNCHANGED <<proposal, last>>
    BY <2>1 DEF RestType
  <2>2. ASSUME NEW s \in Sender, MergeWithExisting(s) PROVE proposal' = None \/ proposal' \in Proposal(last')
    <3>1. proposal' = proposal /\ (last' = last \/ last' = last + 1)
      BY <2>2 DEF MergeWithExisting, AppendItem, MergeItem
    <3>2. 1..last \subseteq 1..last'
      BY <1>1, <3>1
    <3> QED BY <3>1, <3>2 DEF RestType
  <2>3. CASE ProposeGet
    <3>1. proposal' = [rest |-> items, sized |-> None] /\ items # {} /\ last' = last
      BY <2>3 DEF ProposeGet
    <3>2. items \in (SUBSET (1..last)) \ {{}}
      BY <1>1, <3>1
    <3> QED BY <3>1, <3>2
  <2>4. CASE ProposeSize
    <3>1. proposal \in Proposal(last) /\ last' = last
      BY <2>4 DEF ProposeSize, RestType
    <3> proposal.rest \in SUBSET (1..last) /\ proposal.rest # {}
      BY <3>1
    <3> proposal.rest \subseteq Nat
      BY <1>1
    <3>2. Min(proposal.rest) \in proposal.rest
      BY MinPointer
    <3>3. Min(proposal.rest) \in Pointer
      BY <1>1, <1>2, <3>1, <3>2 DEF Pointer
    <3>4. obj[Min(proposal.rest)].atts \in Atts
      BY <1>1, <3>3 DEF Obj
    <3> QED BY <2>4, <3>1, <3>4 DEF ProposeSize
  <2>5. CASE ProposeWrite
    <3>1. proposal \in Proposal(last) /\ last' = last
      BY <2>5 DEF ProposeWrite, RestType
    <3>2. \/ proposal' = None
          \/ proposal' = [rest |-> proposal.rest \ {Min(proposal.rest)}, sized |-> None] /\ proposal.rest # {Min(proposal.rest)}
      BY <2>5 DEF ProposeWrite
    <3> proposal.rest \in SUBSET (1..last) /\ proposal.rest # {}
      BY <3>1
    <3> proposal.rest \subseteq Nat
      BY <1>1
    <3>3. Min(proposal.rest) \in proposal.rest
      BY MinPointer
    <3> QED BY <3>1, <3>2, <3>3
  <2> QED
    BY <2>1, <2>2, <2>3, <2>4, <2>5 DEF Next, SendQuorumTx, FilterAttestation,
       BlockMessage, MarkAttestationsConfirmed, AddToBlock, CleanOldBlocks, NextBlock, SendQuorumErrataTx,
       Tick, PruneExpiredItems, vars
<1> QED BY <1>3, <1>4, <1>5, <1>6, <1>7 DEF RestType

\* The whole state has its type: in particular pointers never run out (each call
\* allocates at most one), and a proposer never works on an empty copy.
THEOREM CacheTypeCorrect == Spec => []TypeOK
<1>1. Init => RestType
  <2> SUFFICES ASSUME Init PROVE RestType
    OBVIOUS
  <2>1. TTL \in Nat /\ MaxCommits \in Nat
    BY CacheAssumption
  <2>2. 0 \in 0..TTL /\ 0 \in 0..MaxCommits
    BY <2>1
  <2>3. age \in [Pointer -> 0..TTL]
    BY <2>2 DEF Init
  <2>4. height # 0
    BY DEF Init
  <2> QED BY <2>2, <2>3, <2>4 DEF Init, RestType
<1> QED BY <1>1, InitIInv, NextIInv, NextRestType, IInvType, PTL DEF Spec

-----------------------------------------------------------------------------
(* Nothing is lost *)

\* A gathered attestation leaves the cache for one of the three reasons only.
THEOREM NothingIsLost == Spec => LeavesForAReason
<1> DEFINE Lost(i, a) == Cached(i, a) /\ ~Cached(i, a)'
           Reason(i, a) == \/ commit # None /\ commit.item = i /\ a \in commit.atts
                           \/ \E k \in items : obj[k].item = i /\ age[k] >= TTL
                           \/ \E x \in TxIDs : TxOf[i] = x /\ SendQuorumErrataTx(x)
<1>1. ASSUME IInv, [Next]_vars, NEW i \in Item, NEW a \in Attestation, Cached(i, a), ~Cached(i, a)'
      PROVE  Reason(i, a)
  <2>1. PICK k \in items : obj[k].item = i /\ a \in obj[k].atts
    BY <1>1 DEF Cached
  <2>2. obj \in [Pointer -> Obj] /\ k \in Pointer /\ obj[k] \in Obj /\ last \in Nat /\ last < MaxSends + 1
    <3>1. Cardinality(Busy) \in Nat
      BY CacheAssumption, FS_Subset, FS_CardinalityType DEF Busy
    <3>2. last \in Nat /\ last <= MaxSends /\ MaxSends \in Nat /\ items \subseteq 1..last
      BY <1>1, <3>1, CacheAssumption DEF IInv, CacheType, PointersLast
    <3>3. obj \in [Pointer -> Obj] /\ k \in Pointer
      BY <1>1, <3>2 DEF IInv, CacheType, Pointer
    <3> QED BY <3>2, <3>3
  <2>3. ~(k \in items' /\ obj'[k].item = i /\ a \in obj'[k].atts)
    BY <1>1 DEF Cached
  <2>4. ASSUME NEW s \in Sender, MergeWithExisting(s) PROVE FALSE
    <3>1. CASE Equal(job[s].item) = {}
      <4>1. AppendItem(job[s].item, job[s].keep)
        BY <2>4, <3>1 DEF MergeWithExisting
      <4>2. k # last' /\ k \in items'
        BY <1>1, <2>1, <4>1 DEF AppendItem, IInv, CacheType
      <4>3. obj'[k] = obj[k]
        BY <2>2, <4>1, <4>2 DEF AppendItem
      <4> QED BY <2>1, <2>3, <4>2, <4>3
    <3>2. CASE Equal(job[s].item) # {}
      <4>1. PICK m : m = Min(Equal(job[s].item))
        OBVIOUS
      <4>2. obj' = [obj EXCEPT ![m] = Merged(m, job[s].keep)] /\ items' = items
        BY <2>4, <3>2, <4>1 DEF MergeWithExisting, MergeItem
      <4>3. obj'[k].item = obj[k].item /\ obj[k].atts \subseteq obj'[k].atts
        <5>1. CASE k = m
          BY <2>2, <4>2, <5>1 DEF Merged, Obj
        <5>2. CASE k # m
          BY <2>2, <4>2, <5>2
        <5> QED BY <5>1, <5>2
      <4> QED BY <2>1, <2>3, <4>2, <4>3
    <3> QED BY <3>1, <3>2
  <2>5. CASE MarkAttestationsConfirmed
    <3>1. Equal(commit.item) # {}
      BY <2>1, <2>3, <2>5 DEF MarkAttestationsConfirmed
    <3>2. PICK m : m = Min(Equal(commit.item))
      OBVIOUS
    <3>3. m \in items /\ obj[m].item = commit.item
      BY <1>1, <3>1, <3>2, OneEqual DEF IInv
    <3>4. /\ obj' = [obj EXCEPT ![m].atts = obj[m].atts \ commit.atts]
          /\ items' = IF obj[m].atts \ commit.atts = {} THEN items \ {m} ELSE items
      BY <2>5, <3>1, <3>2 DEF MarkAttestationsConfirmed
    <3>5. k = m
      BY <2>1, <2>2, <2>3, <3>4
    <3>6. a \in commit.atts
      <4> SUFFICES ASSUME a \notin commit.atts PROVE FALSE
        OBVIOUS
      <4>1. items' = items
        BY <2>1, <3>4, <3>5
      <4>2. obj'[k].item = i /\ a \in obj'[k].atts
        BY <2>1, <2>2, <3>4, <3>5 DEF Obj
      <4> QED BY <2>1, <2>3, <4>1, <4>2
    <3>7. commit # None
      BY <2>5 DEF MarkAttestationsConfirmed
    <3> QED BY <2>1, <3>3, <3>5, <3>6, <3>7
  <2>6. ASSUME NEW x \in TxIDs, SendQuorumErrataTx(x) PROVE Reason(i, a)
    <3>1. items' = items \ {Min(OfTx(x))} /\ obj' = obj /\ OfTx(x) # {}
      BY <2>6 DEF SendQuorumErrataTx
    <3>2. k = Min(OfTx(x))
      BY <2>1, <2>3, <3>1
    <3>3. OfTx(x) \subseteq Nat
      <4>1. items \subseteq 1..last
        BY <1>1 DEF IInv, CacheType
      <4>2. OfTx(x) \subseteq items
        BY DEF OfTx
      <4>3. last \in Nat
        BY <2>2
      <4>4. 1..last \subseteq Nat
        BY <4>3
      <4> QED BY <4>1, <4>2, <4>4
    <3>4. k \in OfTx(x)
      <4>1. OfTx(x) # {}
        BY <3>1
      <4>2. Min(OfTx(x)) \in OfTx(x)
        BY <3>3, <4>1, MinPointer
      <4> QED BY <3>2, <4>2
    <3>5. TxOf[i] = x
      BY <2>1, <3>4 DEF OfTx
    <3> QED BY <2>6, <3>5
  <2>7. CASE PruneExpiredItems
    BY <2>1, <2>3, <2>7 DEF PruneExpiredItems, Expired
  <2>8. CASE UNCHANGED <<obj, items>>
    BY <2>1, <2>3, <2>8
  <2> QED
    BY <1>1, <2>4, <2>5, <2>6, <2>7, <2>8 DEF Next, SendQuorumTx, FilterAttestation,
       BlockMessage, AddToBlock, CleanOldBlocks, NextBlock, Tick, ProposeGet, ProposeSize, ProposeWrite, vars
<1>2. IInv /\ [Next]_vars =>
        [\A i \in Item, a \in Attestation : Cached(i, a) /\ ~Cached(i, a)' => Reason(i, a)]_vars
  BY <1>1
<1> QED BY <1>2, InitIInv, NextIInv, PTL DEF Spec, LeavesForAReason
=============================================================================
