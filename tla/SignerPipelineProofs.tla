------------------------ MODULE SignerPipelineProofs ------------------------
(***************************************************************************)
(* For any items, vaults, routines, concurrency, periods and faults: the   *)
(* signer's semaphores and vault locks are conserved, and a vault piles up *)
(* retries only after one of the three exposures that SignerPipeline       *)
(* names.                                                                  *)
(***************************************************************************)
EXTENDS SignerPipeline, FiniteSetTheorems, WellFoundedInduction, TLAPS

-----------------------------------------------------------------------------
(* The inductive invariant *)

Locals == [pc : {"idle", "acquire", "loop"}, list : Listing,
           todo : SUBSET Items, locked : SUBSET Vaults, held : [Statuses -> Nat]]

\* A routine knows its item until both goroutines have ended, and its copy of the
\* entry while one of them may use it.
RoutineOK(x) ==
    /\ x.outer # "idle" \/ x.inner # "done" => x.item \in Items
    /\ x.outer = "run" \/ x.inner # "done" => x.entry \in Entry

\* SpawnSignings holds capacity only in its loop; what is left of the list has
\* entries, and no vault's other item is a retry.
LoopOK ==
    /\ sp.pc # "loop" => \A s \in Statuses : sp.held[s] = 0
    /\ \A i \in sp.todo : sp.list[i] \in Entry /\ Retries(sp.list, VaultOf[i]) \subseteq {i}

\* The routines that a vault's lock may stand for: one at most, and one if it is taken.
LockOfOne ==
    /\ \A v \in Vaults : v \in lock <=> Locking(v) # {}
    /\ \A v \in Vaults : \A r, q \in Locking(v) : r = q

\* While a vault is not exposed a goroutine that signs for it has not been
\* abandoned, and the only retry of the vault is the item of that goroutine.
NoPileUp ==
    /\ \A r \in Routines :
         rt[r].inner # "done" /\ VaultOf[rt[r].item] \notin exposed => rt[r].outer = "run"
    /\ \A r \in Routines :
         rt[r].outer = "run" /\ VaultOf[rt[r].item] \notin exposed =>
             Retries(store, VaultOf[rt[r].item]) \subseteq {rt[r].item}
    /\ \A v \in Vaults \ exposed : \A i, j \in Retries(store, v) : i = j

PipeInv ==
    /\ TypeOK
    /\ \A r \in Routines : RoutineOK(rt[r])
    /\ LoopOK
    /\ CapacityConserved
    /\ Locks => LockOfOne /\ NoPileUp

-----------------------------------------------------------------------------
(* Records and sets *)

\* What the store holds of an item.
LEMMA EntryType ==
    /\ None \notin Entry /\ None \notin Items /\ Fresh \in Entry /\ ~IsRetry(Fresh) /\ ~IsRetry(None)
    /\ \A i \in Items : VaultOf[i] \in Vaults
BY SignerAssumption DEF Entry, Fresh, IsRetry

\* A routine slot that is not in use.
LEMMA BlankType ==
    /\ Blank \in Routine /\ Blank.outer = "idle" /\ Blank.inner = "done" /\ Blank.item = None
    /\ RoutineOK(Blank)
BY DEF Blank, Routine, Statuses, RoutineOK

\* The capacities of the semaphores are numbers.
LEMMA CapacityType == \A s \in Statuses : Capacity(s) \in Nat
BY SignerAssumption DEF Capacity

\* Min of routine names is one of them.
LEMMA MinIsMember ==
    ASSUME NEW S, S \subseteq Nat, S # {}
    PROVE  Min(S) \in S
<1>1. IsWellFoundedOn(OpToRel(<, Nat), Nat)
    BY NatLessThanWellFounded
<1>2. PICK x \in S : \A y \in S : ~(<<y, x>> \in OpToRel(<, Nat))
    BY <1>1, WFMin
<1>3. \A y \in S : y < x => <<y, x>> \in OpToRel(<, Nat)
    BY DEF OpToRel
<1>4. \A y \in S : ~(y < x)
    BY <1>2, <1>3
<1>5. \A y \in S : x <= y
    BY <1>4
<1> QED
    BY <1>5 DEF Min

\* What SetRoutine leaves of x: all of it, but for what nobody reads any more.
LEMMA SetRoutineEffect ==
    ASSUME rt \in [Routines -> Routine], NEW r \in Routines, NEW x \in Routine, SetRoutine(r, x)
    PROVE  /\ rt' \in [Routines -> Routine]
           /\ \A q \in Routines : q # r => rt'[q] = rt[q]
           /\ rt'[r].outer = x.outer /\ rt'[r].inner = x.inner
           /\ x.outer # "idle" \/ x.inner # "done" => rt'[r].item = x.item /\ rt'[r].status = x.status
           /\ x.outer = "run" \/ x.inner # "done" => rt'[r] = x
<1>1. CASE x.inner # "done" \/ x.outer = "run"
    BY <1>1 DEF SetRoutine
<1>2. CASE ~(x.inner # "done" \/ x.outer = "run") /\ x.outer = "idle"
    BY <1>2, BlankType DEF SetRoutine
<1>3. CASE ~(x.inner # "done" \/ x.outer = "run") /\ x.outer # "idle"
    <2> DEFINE y == [Blank EXCEPT !.outer = x.outer, !.item = x.item, !.status = x.status]
    <2>1. rt' = [rt EXCEPT ![r] = y]
        BY <1>3 DEF SetRoutine
    <2>2. y \in Routine /\ y.outer = x.outer /\ y.inner = "done" /\ y.item = x.item /\ y.status = x.status
        BY BlankType DEF Blank, Routine
    <2> QED
        BY <1>3, <2>1, <2>2
<1> QED
    BY <1>1, <1>2, <1>3

-----------------------------------------------------------------------------
(* What a step of a routine leaves as it was *)

\* The capacity, if the routines that have not released theirs are the same.
LEMMA CapacityStays ==
    ASSUME CapacityConserved, sem' = sem, sp'.held = sp.held,
           \A q \in Routines :
               /\ rt'[q].outer # "idle" <=> rt[q].outer # "idle"
               /\ rt[q].outer # "idle" => rt'[q].status = rt[q].status
    PROVE  CapacityConserved'
<1>1. \A s \in Statuses : Holding(s)' = Holding(s)
    BY DEF Holding
<1> QED
    BY <1>1 DEF CapacityConserved, Capacity

\* The locks, if the routines that answer for them are the same.
LEMMA LocksStay ==
    ASSUME LockOfOne, lock' = lock,
           \A q \in Routines :
               /\ rt'[q].outer \in {"run", "unlock"} <=> rt[q].outer \in {"run", "unlock"}
               /\ rt[q].outer \in {"run", "unlock"} => rt'[q].item = rt[q].item
    PROVE  LockOfOne'
<1>1. \A v \in Vaults : Locking(v)' = Locking(v)
    BY DEF Locking
<1> QED
    BY <1>1 DEF LockOfOne

\* The retries of the other vaults, when an item is stored or removed.
LEMMA StoreSetEffect ==
    ASSUME store \in Listing, NEW i \in Items, NEW e \in Entry \cup {None}, StoreSet(i, e)
    PROVE  /\ store' \in Listing
           /\ \A v \in Vaults : v # VaultOf[i] => Retries(store', v) = Retries(store, v)
           /\ \A v \in Vaults : Retries(store', v) \subseteq Retries(store, v) \cup {i}
BY DEF StoreSet, Listing, Retries, ItemsOf

-----------------------------------------------------------------------------
(* The inner goroutine *)

\* A step of the inner goroutine of r may store its item and change its own copy.
LEMMA InnerKeepsInv ==
    ASSUME PipeInv, NEW r \in Routines, rt[r].inner # "done", UNCHANGED unSign,
           NEW x \in Routine, SetRoutine(r, x), x.entry \in Entry,
           x.outer = rt[r].outer, x.item = rt[r].item, x.status = rt[r].status,
           mutex' \subseteq Vaults,
           store' = store \/ \E e \in Entry : StoreSet(rt[r].item, e)
    PROVE  PipeInv'
<1> USE EntryType
<1>1. rt \in [Routines -> Routine] /\ store \in Listing
    BY DEF PipeInv, TypeOK
<1>2. /\ rt' \in [Routines -> Routine]
      /\ \A q \in Routines : q # r => rt'[q] = rt[q]
      /\ rt'[r].outer = x.outer /\ rt'[r].inner = x.inner
      /\ x.outer # "idle" \/ x.inner # "done" => rt'[r].item = x.item /\ rt'[r].status = x.status
      /\ x.outer = "run" \/ x.inner # "done" => rt'[r] = x
    BY <1>1, SetRoutineEffect
<1>3. rt[r].item \in Items /\ rt[r].entry \in Entry
    BY DEF PipeInv, RoutineOK
<1>4. /\ store' \in Listing
      /\ \A v \in Vaults : v # VaultOf[rt[r].item] => Retries(store', v) = Retries(store, v)
      /\ \A v \in Vaults : Retries(store', v) \subseteq Retries(store, v) \cup {rt[r].item}
    <2>1. CASE store' = store
        BY <1>1, <2>1
    <2>2. ASSUME NEW e \in Entry, StoreSet(rt[r].item, e)
          PROVE  /\ store' \in Listing
                 /\ \A v \in Vaults : v # VaultOf[rt[r].item] => Retries(store', v) = Retries(store, v)
                 /\ \A v \in Vaults : Retries(store', v) \subseteq Retries(store, v) \cup {rt[r].item}
        BY <1>1, <1>3, <2>2, StoreSetEffect
    <2> QED
        BY <2>1, <2>2
<1>5. TypeOK'
    BY <1>2, <1>4 DEF PipeInv, TypeOK, unSign
<1>6. \A q \in Routines : RoutineOK(rt[q])'
    BY <1>2, <1>3 DEF PipeInv, RoutineOK
<1>7. LoopOK'
    BY DEF PipeInv, LoopOK, unSign
<1>8. CapacityConserved'
    BY <1>2, CapacityStays DEF PipeInv, unSign
<1>9. ASSUME Locks PROVE LockOfOne' /\ NoPileUp'
    <2>1. LockOfOne /\ NoPileUp
        BY <1>9 DEF PipeInv
    <2>2. LockOfOne'
        BY <1>2, <2>1, LocksStay DEF unSign
    <2>3. \A q \in Routines : rt[q].outer = "run" => rt[q].item \in Items
        BY DEF PipeInv, RoutineOK
    <2>4. \A q \in Routines : rt[q].outer = "run" /\ rt[r].outer = "run"
                              /\ VaultOf[rt[q].item] = VaultOf[rt[r].item] => q = r
        BY <1>3, <2>1 DEF LockOfOne, Locking
    <2>5. \A q \in Routines :
              /\ rt'[q].outer = rt[q].outer
              /\ rt[q].outer = "run" \/ rt'[q].inner # "done" => rt'[q].item = rt[q].item
              /\ rt'[q].inner # "done" => rt[q].inner # "done"
        BY <1>2
    <2>6. exposed' = exposed
        BY DEF unSign
    <2>7. VaultOf[rt[r].item] \notin exposed => rt[r].outer = "run" /\ Retries(store, VaultOf[rt[r].item]) \subseteq {rt[r].item}
        BY <2>1 DEF NoPileUp
    <2>8. NoPileUp'
        <3>1. ASSUME NEW q \in Routines, rt'[q].inner # "done", VaultOf[rt'[q].item] \notin exposed
              PROVE  rt'[q].outer = "run"
            BY <2>1, <2>5, <3>1 DEF NoPileUp
        <3>2. ASSUME NEW q \in Routines, rt'[q].outer = "run", VaultOf[rt'[q].item] \notin exposed
              PROVE  Retries(store', VaultOf[rt'[q].item]) \subseteq {rt'[q].item}
            <4>1. rt[q].outer = "run" /\ rt'[q].item = rt[q].item /\ rt[q].item \in Items
                BY <2>3, <2>5, <3>2
            <4>2. Retries(store, VaultOf[rt[q].item]) \subseteq {rt[q].item}
                BY <2>1, <3>2, <4>1 DEF NoPileUp
            <4> QED
                BY <1>4, <2>4, <2>7, <3>2, <4>1, <4>2
        <3>3. ASSUME NEW v \in Vaults \ exposed, NEW i \in Retries(store', v), NEW j \in Retries(store', v)
              PROVE  i = j
            BY <1>3, <1>4, <2>1, <2>7 DEF NoPileUp
        <3> QED
            BY <2>6, <3>1, <3>2, <3>3 DEF NoPileUp, Retries
    <2> QED
        BY <2>2, <2>8
<1> QED
    BY <1>5, <1>6, <1>7, <1>8, <1>9 DEF PipeInv, Locks

\* The function returns, with or without something stored.
LEMMA ReturnsKeepsInv ==
    ASSUME PipeInv, NEW r \in Routines, rt[r].inner # "done", UNCHANGED unSign,
           NEW res \in {"ok", "err", "round7"}, Returns(r, res),
           store' = store \/ \E e \in Entry : StoreSet(rt[r].item, e)
    PROVE  PipeInv'
<1>1. rt[r] \in Routine /\ rt[r].entry \in Entry /\ mutex \subseteq Vaults
    BY DEF PipeInv, TypeOK, RoutineOK
<1>2. PICK x : x = [rt[r] EXCEPT !.inner = "done", !.res = res]
    OBVIOUS
<1>3. x \in Routine
    BY <1>1, <1>2 DEF Routine
<1>4. x.entry = rt[r].entry /\ x.outer = rt[r].outer /\ x.item = rt[r].item /\ x.status = rt[r].status
    BY <1>1, <1>2 DEF Routine
<1>5. SetRoutine(r, x) /\ mutex' \subseteq Vaults
    BY <1>1, <1>2 DEF Returns
<1> QED
    BY <1>1, <1>3, <1>4, <1>5, InnerKeepsInv

\* The goroutine goes on, perhaps with another copy of the entry.
LEMMA GoesOnKeepsInv ==
    ASSUME PipeInv, NEW r \in Routines, rt[r].inner # "done", UNCHANGED unSign,
           NEW pc \in {"check", "mutex", "sign", "send"}, NEW e \in Entry,
           SetRoutine(r, [rt[r] EXCEPT !.inner = pc, !.entry = e]), mutex' \subseteq Vaults,
           store' = store \/ \E f \in Entry : StoreSet(rt[r].item, f)
    PROVE  PipeInv'
<1>1. rt[r] \in Routine
    BY DEF PipeInv, TypeOK
<1>2. PICK x : x = [rt[r] EXCEPT !.inner = pc, !.entry = e]
    OBVIOUS
<1>3. x \in Routine
    BY <1>1, <1>2 DEF Routine
<1>4. x.entry = e /\ x.outer = rt[r].outer /\ x.item = rt[r].item /\ x.status = rt[r].status
    BY <1>1, <1>2 DEF Routine
<1>5. SetRoutine(r, x)
    BY <1>2
<1> QED
    BY <1>3, <1>4, <1>5, InnerKeepsInv

\* Each step of the signing itself.
LEMMA InnerStepKeepsInv ==
    ASSUME PipeInv, NEW r \in Routines, InnerStep(r)
    PROVE  PipeInv'
<1>1. rt[r] \in Routine /\ mutex \subseteq Vaults
    BY DEF PipeInv, TypeOK
<1>2. rt[r].inner # "done" => rt[r].item \in Items /\ rt[r].entry \in Entry /\ VaultOf[rt[r].item] \in Vaults
    BY EntryType DEF PipeInv, RoutineOK
<1>3. \A b \in BOOLEAN : rt[r].inner # "done" => [rt[r].entry EXCEPT !.signed = b] \in Entry
    BY <1>2 DEF Entry
<1>4. CASE CheckFails(r)
    BY <1>4, ReturnsKeepsInv DEF CheckFails
<1>5. CASE Discard(r)
    BY <1>5, ReturnsKeepsInv DEF Discard
<1>6. CASE NotNeeded(r)
    BY <1>6, ReturnsKeepsInv DEF NotNeeded
<1>7. CASE CheckPasses(r)
    <2>1. PICK pc \in {"mutex", "sign", "send"} : Goto(r, pc)
        BY <1>7 DEF CheckPasses
    <2>2. [rt[r] EXCEPT !.inner = pc] = [rt[r] EXCEPT !.inner = pc, !.entry = rt[r].entry]
        BY <1>1 DEF Routine
    <2> QED
        BY <1>1, <1>2, <1>7, <2>1, <2>2, GoesOnKeepsInv DEF CheckPasses, Goto
<1>8. CASE VaultLock(r)
    <2>1. PICK pc \in {"sign", "send"} : Goto(r, pc)
        BY <1>8 DEF VaultLock
    <2>2. [rt[r] EXCEPT !.inner = pc] = [rt[r] EXCEPT !.inner = pc, !.entry = rt[r].entry]
        BY <1>1 DEF Routine
    <2> QED
        BY <1>1, <1>2, <1>8, <2>1, <2>2, GoesOnKeepsInv, ZenonT(60) DEF VaultLock, Goto
<1>9. CASE SignFails(r)
    BY <1>9, ReturnsKeepsInv DEF SignFails
<1>10. CASE Sign(r)
    <2>1. PICK e \in Entry : /\ StoreSet(rt[r].item, e)
                             /\ SetRoutine(r, [rt[r] EXCEPT !.inner = "send", !.entry = e])
        BY <1>2, <1>3, <1>10 DEF Sign
    <2> QED
        BY <1>1, <1>10, <2>1, GoesOnKeepsInv DEF Sign
<1>11. CASE Send(r)
    BY <1>11, ReturnsKeepsInv DEF Send
<1>12. CASE SendFails(r)
    <2>1. \E e \in Entry : StoreSet(rt[r].item, e)
        BY <1>3, <1>12 DEF SendFails
    <2> QED
        BY <1>12, <2>1, ReturnsKeepsInv DEF SendFails
<1> QED
    BY <1>4, <1>5, <1>6, <1>7, <1>8, <1>9, <1>10, <1>11, <1>12 DEF InnerStep

-----------------------------------------------------------------------------
(* The outer goroutine *)

\* The outer goroutine stops waiting: the inner one has ended, or the vault is exposed.
LEMMA OuterEndsKeepsInv ==
    ASSUME PipeInv, NEW r \in Routines, rt[r].outer = "run", UNCHANGED <<unOuter, sem, lock>>,
           SetRoutine(r, [rt[r] EXCEPT !.outer = "unlock"]),
           faults' \in 0..MaxFaults,
           (exposed' = exposed /\ rt[r].inner = "done") \/ exposed' = exposed \cup {VaultOf[rt[r].item]},
           store' = store \/ \E e \in Entry \cup {None} : StoreSet(rt[r].item, e)
    PROVE  PipeInv'
<1> USE EntryType
<1>1. rt \in [Routines -> Routine] /\ store \in Listing /\ rt[r] \in Routine
    BY DEF PipeInv, TypeOK
<1>2. PICK x : x = [rt[r] EXCEPT !.outer = "unlock"]
    OBVIOUS
<1>3. x \in Routine /\ x.outer = "unlock" /\ x.inner = rt[r].inner /\ x.item = rt[r].item
      /\ x.status = rt[r].status /\ x.entry = rt[r].entry
    BY <1>1, <1>2 DEF Routine
<1>4. SetRoutine(r, x)
    BY <1>2
<1>5. /\ rt' \in [Routines -> Routine]
      /\ \A q \in Routines : q # r => rt'[q] = rt[q]
      /\ rt'[r].outer = "unlock" /\ rt'[r].inner = rt[r].inner
      /\ rt'[r].item = rt[r].item /\ rt'[r].status = rt[r].status
      /\ rt[r].inner # "done" => rt'[r].entry = rt[r].entry
    BY <1>1, <1>3, <1>4, SetRoutineEffect
<1>6. rt[r].item \in Items /\ VaultOf[rt[r].item] \in Vaults
    BY DEF PipeInv, RoutineOK
<1>7. /\ store' \in Listing
      /\ \A v \in Vaults : v # VaultOf[rt[r].item] => Retries(store', v) = Retries(store, v)
      /\ \A v \in Vaults : Retries(store', v) \subseteq Retries(store, v) \cup {rt[r].item}
    <2>1. CASE store' = store
        BY <1>1, <2>1
    <2>2. ASSUME NEW e \in Entry \cup {None}, StoreSet(rt[r].item, e)
          PROVE  /\ store' \in Listing
                 /\ \A v \in Vaults : v # VaultOf[rt[r].item] => Retries(store', v) = Retries(store, v)
                 /\ \A v \in Vaults : Retries(store', v) \subseteq Retries(store, v) \cup {rt[r].item}
        BY <1>1, <1>6, <2>2, StoreSetEffect
    <2> QED
        BY <2>1, <2>2
<1>8. TypeOK'
    BY <1>5, <1>6, <1>7 DEF PipeInv, TypeOK, unOuter
<1>9. \A q \in Routines : RoutineOK(rt[q])'
    BY <1>5, <1>6 DEF PipeInv, RoutineOK
<1>10. LoopOK'
    BY DEF PipeInv, LoopOK, unOuter
<1>11. CapacityConserved'
    BY <1>5, CapacityStays DEF PipeInv, unOuter
<1>12. ASSUME Locks PROVE LockOfOne' /\ NoPileUp'
    <2>1. LockOfOne /\ NoPileUp
        BY <1>12 DEF PipeInv
    <2>2. LockOfOne'
        BY <1>5, <2>1, LocksStay
    <2>3. \A q \in Routines : rt'[q].outer = "run" => q # r /\ rt[q].outer = "run" /\ rt[q].item \in Items
        BY <1>5 DEF PipeInv, RoutineOK
    <2>4. \A q \in Routines : rt[q].outer = "run" /\ VaultOf[rt[q].item] = VaultOf[rt[r].item] => q = r
        BY <1>6, <2>1 DEF LockOfOne, Locking
    <2>5. exposed \subseteq exposed'
        OBVIOUS
    <2>6. VaultOf[rt[r].item] \notin exposed => Retries(store, VaultOf[rt[r].item]) \subseteq {rt[r].item}
        BY <2>1 DEF NoPileUp
    <2>7. ASSUME NEW q \in Routines, rt'[q].inner # "done", VaultOf[rt'[q].item] \notin exposed'
          PROVE  rt'[q].outer = "run"
        BY <1>5, <2>1, <2>5, <2>7 DEF NoPileUp
    <2>8. ASSUME NEW q \in Routines, rt'[q].outer = "run", VaultOf[rt'[q].item] \notin exposed'
          PROVE  Retries(store', VaultOf[rt'[q].item]) \subseteq {rt'[q].item}
        <3>1. q # r /\ rt'[q] = rt[q] /\ rt[q].outer = "run" /\ rt[q].item \in Items
            BY <1>5, <2>3, <2>8
        <3>2. Retries(store, VaultOf[rt[q].item]) \subseteq {rt[q].item}
            BY <2>1, <2>5, <2>8, <3>1 DEF NoPileUp
        <3> QED
            BY <1>7, <2>4, <3>1, <3>2
    <2>9. ASSUME NEW v \in Vaults \ exposed', NEW i \in Retries(store', v), NEW j \in Retries(store', v)
          PROVE  i = j
        BY <1>6, <1>7, <2>1, <2>5, <2>6 DEF NoPileUp
    <2> QED
        BY <2>2, <2>7, <2>8, <2>9 DEF NoPileUp, Retries
<1> QED
    BY <1>8, <1>9, <1>10, <1>11, <1>12 DEF PipeInv, Locks

\* The outer routine gives up while the inner one runs on.
LEMMA TimeoutKeepsInv ==
    ASSUME PipeInv, NEW r \in Routines, Timeout(r)
    PROVE  PipeInv'
<1>1. faults' \in 0..MaxFaults
    BY SignerAssumption DEF PipeInv, TypeOK, Timeout
<1> QED
    BY <1>1, OuterEndsKeepsInv DEF Timeout

\* The outer routine takes the result and updates the store.
LEMMA SettleKeepsInv ==
    ASSUME PipeInv, NEW r \in Routines, Settle(r)
    PROVE  PipeInv'
<1>1. faults' \in 0..MaxFaults /\ rt[r].outer = "run" /\ rt[r].inner = "done"
    BY DEF PipeInv, TypeOK, Settle
<1>2. rt[r].res \in {"ok", "err", "round7"} /\ [rt[r].entry EXCEPT !.round7 = TRUE] \in Entry
    BY <1>1 DEF PipeInv, TypeOK, Routine, RoutineOK, Entry
<1>3. store' = store \/ \E e \in Entry \cup {None} : StoreSet(rt[r].item, e)
    BY <1>2 DEF Settle
<1> QED
    BY <1>1, <1>3, OuterEndsKeepsInv DEF Settle

\* The retries of no vault have changed, and no routine has begun.
LEMMA PileUpStays ==
    ASSUME NoPileUp, UNCHANGED <<store, exposed>>,
           \A q \in Routines :
               /\ rt'[q].inner # "done" => rt[q].inner # "done" /\ rt'[q].item = rt[q].item
               /\ rt'[q].outer = "run" => rt[q].outer = "run" /\ rt'[q].item = rt[q].item
               /\ rt[q].outer = "run" => rt'[q].outer = "run"
    PROVE  NoPileUp'
BY DEF NoPileUp, Retries

\* The deferred unlock frees the lock its own routine took.
LEMMA UnlockKeepsInv ==
    ASSUME PipeInv, NEW r \in Routines, Unlock(r)
    PROVE  PipeInv'
<1>1. rt \in [Routines -> Routine] /\ rt[r] \in Routine /\ rt[r].outer = "unlock" /\ rt[r].item \in Items
    BY DEF PipeInv, TypeOK, Unlock, RoutineOK
<1>2. PICK x : x = [rt[r] EXCEPT !.outer = "release"]
    OBVIOUS
<1>3. x \in Routine /\ x.outer = "release" /\ x.inner = rt[r].inner /\ x.item = rt[r].item
      /\ x.status = rt[r].status /\ x.entry = rt[r].entry
    BY <1>1, <1>2 DEF Routine
<1>4. SetRoutine(r, x)
    BY <1>2 DEF Unlock
<1>5. /\ rt' \in [Routines -> Routine]
      /\ \A q \in Routines : q # r => rt'[q] = rt[q]
      /\ rt'[r].outer = "release" /\ rt'[r].inner = rt[r].inner
      /\ rt'[r].item = rt[r].item /\ rt'[r].status = rt[r].status
      /\ rt[r].inner # "done" => rt'[r].entry = rt[r].entry
    BY <1>1, <1>3, <1>4, SetRoutineEffect
<1>6. TypeOK'
    BY <1>5 DEF PipeInv, TypeOK, Unlock, unOuter
<1>7. \A q \in Routines : RoutineOK(rt[q])'
    BY <1>1, <1>5 DEF PipeInv, RoutineOK
<1>8. LoopOK'
    BY DEF PipeInv, LoopOK, Unlock, unOuter
<1>9. CapacityConserved'
    BY <1>1, <1>5, CapacityStays DEF PipeInv, Unlock, unOuter
<1>10. ASSUME Locks PROVE LockOfOne' /\ NoPileUp'
    <2>1. LockOfOne /\ NoPileUp
        BY <1>10 DEF PipeInv
    <2>2. \A v \in Vaults : Locking(v)' = Locking(v) \ {r}
        BY <1>5 DEF Locking
    <2>3. \A v \in Vaults : r \in Locking(v) <=> v = VaultOf[rt[r].item]
        BY <1>1 DEF Locking
    <2>4. LockOfOne'
        BY <2>1, <2>2, <2>3 DEF LockOfOne, Unlock
    <2>5. NoPileUp'
        BY <1>1, <1>5, <2>1, PileUpStays DEF Unlock
    <2> QED
        BY <2>4, <2>5
<1> QED
    BY <1>6, <1>7, <1>8, <1>9, <1>10 DEF PipeInv, Locks

\* Finitely many routines hold a semaphore.
LEMMA HoldingFinite == \A s \in Statuses : IsFiniteSet(Holding(s))
BY SignerAssumption, FS_Subset DEF Holding

\* The deferred release gives back the one unit its routine took.
LEMMA ReleaseKeepsInv ==
    ASSUME PipeInv, NEW r \in Routines, Release(r)
    PROVE  PipeInv'
<1>1. /\ rt \in [Routines -> Routine] /\ rt[r] \in Routine /\ rt[r].outer = "release"
      /\ rt[r].status \in Statuses /\ sem \in [Statuses -> Nat] /\ sp \in Locals
    BY DEF PipeInv, TypeOK, Release, Routine, Locals
<1>2. PICK x : x = [rt[r] EXCEPT !.outer = "idle"]
    OBVIOUS
<1>3. x \in Routine /\ x.outer = "idle" /\ x.inner = rt[r].inner /\ x.item = rt[r].item
      /\ x.status = rt[r].status /\ x.entry = rt[r].entry
    BY <1>1, <1>2 DEF Routine
<1>4. SetRoutine(r, x)
    BY <1>2 DEF Release
<1>5. /\ rt' \in [Routines -> Routine]
      /\ \A q \in Routines : q # r => rt'[q] = rt[q]
      /\ rt'[r].outer = "idle" /\ rt'[r].inner = rt[r].inner
      /\ rt[r].inner # "done" => rt'[r].item = rt[r].item /\ rt'[r].entry = rt[r].entry
    BY <1>1, <1>3, <1>4, SetRoutineEffect
<1>6. \A s \in Statuses : Holding(s)' = IF s = rt[r].status THEN Holding(s) \ {r} ELSE Holding(s)
    BY <1>1, <1>5 DEF Holding
<1>7. r \in Holding(rt[r].status)
    BY <1>1 DEF Holding
<1>8. \A s \in Statuses : Cardinality(Holding(s)) \in Nat
    BY HoldingFinite, FS_CardinalityType
<1>9. Cardinality(Holding(rt[r].status) \ {r}) = Cardinality(Holding(rt[r].status)) - 1
    BY <1>1, <1>7, HoldingFinite, FS_RemoveElement
<1>10. \A s \in Statuses : sem[s] = sp.held[s] + Cardinality(Holding(s)) /\ sp.held[s] \in Nat
                           /\ sem[s] <= Capacity(s) /\ Capacity(s) \in Nat
    BY <1>1, CapacityType DEF PipeInv, CapacityConserved, Locals
<1>11. Cardinality(Holding(rt[r].status)) # 0
    BY <1>1, <1>7, HoldingFinite, FS_EmptySet
<1>12. sem' \in [Statuses -> Nat] /\ sem' = [sem EXCEPT ![rt[r].status] = @ - 1]
    BY <1>1, <1>8, <1>10, <1>11 DEF Release
<1>13. sp' = sp
    BY DEF Release, unOuter
<1>14. CapacityConserved'
    <2>1. SUFFICES ASSUME NEW s \in Statuses
                   PROVE  sem'[s] = sp.held[s] + Cardinality(Holding(s)') /\ sem'[s] <= Capacity(s)
        BY <1>13 DEF CapacityConserved, Capacity
    <2>2. CASE s = rt[r].status
        <3>1. sem'[s] = sem[s] - 1 /\ Holding(s)' = Holding(s) \ {r}
            BY <1>1, <1>6, <1>12, <2>2
        <3>2. Cardinality(Holding(s)') = Cardinality(Holding(s)) - 1
            BY <1>9, <2>2, <3>1
        <3> HIDE <2>2
        <3> QED
            BY <1>8, <1>10, <3>1, <3>2
    <2>3. CASE s # rt[r].status
        <3>1. sem'[s] = sem[s] /\ Holding(s)' = Holding(s)
            BY <1>1, <1>6, <1>12, <2>3
        <3> QED
            BY <1>10, <3>1
    <2> QED
        BY <2>2, <2>3
<1>15. TypeOK'
    BY <1>5, <1>12 DEF PipeInv, TypeOK, Release, unOuter
<1>16. \A q \in Routines : RoutineOK(rt[q])'
    BY <1>1, <1>5 DEF PipeInv, RoutineOK
<1>17. LoopOK'
    BY DEF PipeInv, LoopOK, Release, unOuter
<1>18. ASSUME Locks PROVE LockOfOne' /\ NoPileUp'
    <2>1. LockOfOne /\ NoPileUp
        BY <1>18 DEF PipeInv
    <2>2. LockOfOne'
        BY <1>1, <1>5, <2>1, LocksStay DEF Release
    <2>3. NoPileUp'
        BY <1>1, <1>5, <2>1, PileUpStays DEF Release
    <2> QED
        BY <2>2, <2>3
<1> QED
    BY <1>14, <1>15, <1>16, <1>17, <1>18 DEF PipeInv, Locks

\* Each step of the outer routine.
LEMMA OuterStepKeepsInv ==
    ASSUME PipeInv, NEW r \in Routines, OuterStep(r)
    PROVE  PipeInv'
BY SettleKeepsInv, UnlockKeepsInv, ReleaseKeepsInv DEF OuterStep

-----------------------------------------------------------------------------
(* SpawnSignings *)

\* A step of the loop that starts no routine.
LEMMA LoopKeepsInv ==
    ASSUME PipeInv, UNCHANGED <<unSpawn, lock, rt, exposed>>, sp' \in Locals,
           sem' \in [Statuses -> Nat], LoopOK', CapacityConserved'
    PROVE  PipeInv'
<1>1. TypeOK'
    BY DEF PipeInv, TypeOK, unSpawn, Locals
<1>2. \A r \in Routines : RoutineOK(rt[r])'
    BY DEF PipeInv, RoutineOK
<1>3. ASSUME Locks PROVE LockOfOne' /\ NoPileUp'
    <2>1. LockOfOne /\ NoPileUp
        BY <1>3 DEF PipeInv
    <2> QED
        BY <2>1, LocksStay, PileUpStays DEF unSpawn
<1> QED
    BY <1>1, <1>2, <1>3 DEF PipeInv, Locks

\* The loop lists the items of the store.
LEMMA ListKeepsInv ==
    ASSUME PipeInv, List
    PROVE  PipeInv'
<1>1. sp \in Locals /\ store \in Listing /\ sem \in [Statuses -> Nat]
    BY DEF PipeInv, TypeOK, Locals
<1>2. ItemsToSign(store) \subseteq Items
    BY DEF ItemsToSign
<1>3. /\ sp' \in Locals /\ sp'.pc = "acquire" /\ sp'.held = sp.held
      /\ sp'.list = store /\ sp'.todo = ItemsToSign(store)
    BY <1>1, <1>2 DEF List, Locals
<1>4. LoopOK'
    <2>1. \A s \in Statuses : sp.held[s] = 0
        BY DEF PipeInv, LoopOK, List
    <2>2. \A i \in ItemsToSign(store) : store[i] \in Entry /\ Retries(store, VaultOf[i]) \subseteq {i}
        BY <1>1 DEF ItemsToSign, Listing
    <2>3. \A i \in sp'.todo : sp'.list[i] \in Entry /\ Retries(sp'.list, VaultOf[i]) \subseteq {i}
        BY <1>3, <2>2
    <2> QED
        BY <1>3, <2>1, <2>3 DEF LoopOK, Retries
<1>5. CapacityConserved'
    BY <1>3, CapacityStays DEF PipeInv, List
<1> QED
    BY <1>1, <1>3, <1>4, <1>5, LoopKeepsInv DEF List

\* The loop takes a unit of a semaphore.
LEMMA AcquireKeepsInv ==
    ASSUME PipeInv, Acquire
    PROVE  PipeInv'
<1>1. sp \in Locals /\ sem \in [Statuses -> Nat] /\ lock \subseteq Vaults
    BY DEF PipeInv, TypeOK, Locals
<1>2. \A s \in Statuses : /\ sem[s] = Cardinality(Holding(s)) /\ sem[s] <= Capacity(s)
                          /\ Capacity(s) \in Nat /\ sem[s] \in Nat
    <2>1. \A s \in Statuses : sp.held[s] = 0
        BY DEF PipeInv, LoopOK, Acquire
    <2>2. \A s \in Statuses : Cardinality(Holding(s)) \in Nat
        BY HoldingFinite, FS_CardinalityType
    <2> QED
        BY <1>1, <2>1, <2>2, CapacityType DEF PipeInv, CapacityConserved
<1>3. [s \in Statuses |-> Capacity(s) - sem[s]] \in [Statuses -> Nat]
    BY <1>2
<1>4. /\ sp' \in Locals /\ sp'.pc = "loop" /\ sp'.list = sp.list /\ sp'.todo = sp.todo
      /\ sp'.held = [s \in Statuses |-> Capacity(s) - sem[s]]
    BY <1>1, <1>3 DEF Acquire, Locals
<1>5. sem' \in [Statuses -> Nat]
    BY <1>2 DEF Acquire
<1>6. LoopOK'
    BY <1>4 DEF PipeInv, LoopOK, Retries
<1>7. CapacityConserved'
    <2>1. \A s \in Statuses : Holding(s)' = Holding(s)
        BY DEF Holding, Acquire
    <2>2. \A s \in Statuses : sem'[s] = Capacity(s) /\ sp'.held[s] = Capacity(s) - sem[s]
        BY <1>4 DEF Acquire
    <2>3. \A s \in Statuses : /\ sem'[s] = sp'.held[s] + Cardinality(Holding(s))
                              /\ sem'[s] <= Capacity(s)
        BY <1>2, <2>2
    <2> QED
        BY <2>1, <2>3 DEF CapacityConserved, Capacity
<1> QED
    BY <1>4, <1>5, <1>6, <1>7, LoopKeepsInv DEF Acquire

\* Done leaves of the list what the items still to do need.
LEMMA DoneEffect ==
    ASSUME sp \in Locals, LoopOK, NEW i \in sp.todo, NEW d, d = Done(i)
    PROVE  /\ d \in Locals /\ d.pc = sp.pc /\ d.held = sp.held /\ d.locked = sp.locked
           /\ \A j \in d.todo : d.list[j] \in Entry /\ Retries(d.list, VaultOf[j]) \subseteq {j}
<1> DEFINE todo == sp.todo \ {i}
           left == {VaultOf[j] : j \in todo}
           list == [j \in Items |-> IF VaultOf[j] \in left THEN sp.list[j] ELSE None]
<1>1. d = [sp EXCEPT !.todo = todo, !.list = list]
    BY DEF Done, Locals
<1>2. list \in Listing
    BY DEF Locals, Listing
<1>3. /\ d \in Locals /\ d.pc = sp.pc /\ d.held = sp.held /\ d.locked = sp.locked
      /\ d.todo = todo /\ d.list = list
    BY <1>1, <1>2 DEF Locals
<1>4. \A j \in todo : j \in Items /\ list[j] = sp.list[j] /\ Retries(list, VaultOf[j]) = Retries(sp.list, VaultOf[j])
    BY DEF Retries, ItemsOf, Locals
<1>5. \A j \in todo : list[j] \in Entry /\ Retries(list, VaultOf[j]) \subseteq {j}
    BY <1>4 DEF LoopOK
<1> QED
    BY <1>3, <1>5

\* The loop passes over an item that is locked or not due.
LEMMA SkipKeepsInv ==
    ASSUME PipeInv, NEW i \in Items, Skip(i)
    PROVE  PipeInv'
<1>1. sp \in Locals /\ sem \in [Statuses -> Nat] /\ LoopOK
    BY DEF PipeInv, TypeOK, Locals
<1>2. i \in sp.todo /\ sp.pc = "loop"
    BY DEF Skip, IsNext
<1>3. PICK d : d = Done(i)
    OBVIOUS
<1>4. /\ d \in Locals /\ d.pc = sp.pc /\ d.held = sp.held
      /\ \A j \in d.todo : d.list[j] \in Entry /\ Retries(d.list, VaultOf[j]) \subseteq {j}
    BY <1>1, <1>2, <1>3, DoneEffect
<1>5. sp' = d
    BY <1>3 DEF Skip
<1>6. LoopOK'
    BY <1>2, <1>4, <1>5 DEF LoopOK, Retries
<1>7. CapacityConserved'
    BY <1>4, <1>5, CapacityStays DEF PipeInv, Skip
<1> QED
    BY <1>1, <1>4, <1>5, <1>6, <1>7, LoopKeepsInv DEF Skip

\* Return gives back what the loop still holds.
LEMMA ReturnKeepsInv ==
    ASSUME PipeInv, Return, UNCHANGED <<unSpawn, lock, rt, exposed>>
    PROVE  PipeInv'
<1>1. sp \in Locals /\ sem \in [Statuses -> Nat]
    BY DEF PipeInv, TypeOK, Locals
<1>2. Idle \in Locals /\ Idle.pc = "idle" /\ Idle.todo = {} /\ Idle.held = [s \in Statuses |-> 0]
    BY DEF Idle, Locals, Listing
<1>3. \A s \in Statuses : /\ sem[s] - sp.held[s] = Cardinality(Holding(s))
                          /\ Cardinality(Holding(s)) \in Nat /\ sem[s] - sp.held[s] <= Capacity(s)
    <2>1. \A s \in Statuses : Cardinality(Holding(s)) \in Nat /\ sp.held[s] \in Nat /\ Capacity(s) \in Nat
        BY <1>1, HoldingFinite, FS_CardinalityType, CapacityType DEF Locals
    <2> QED
        BY <1>1, <2>1 DEF PipeInv, CapacityConserved
<1>4. sem' \in [Statuses -> Nat] /\ \A s \in Statuses : sem'[s] = Cardinality(Holding(s)) /\ sem'[s] <= Capacity(s)
    BY <1>3 DEF Return
<1>5. LoopOK'
    BY <1>2 DEF LoopOK, Return
<1>6. CapacityConserved'
    <2>1. \A s \in Statuses : Holding(s)' = Holding(s)
        BY DEF Holding
    <2>2. \A s \in Statuses : sp'.held[s] = 0
        BY <1>2 DEF Return
    <2> QED
        BY <1>3, <1>4, <2>1, <2>2 DEF CapacityConserved, Capacity
<1> QED
    BY <1>2, <1>4, <1>5, <1>6, LoopKeepsInv DEF Return

\* The loop locks and spawns a routine for an item.
LEMMA SpawnKeepsInv ==
    ASSUME PipeInv, NEW i \in Items, NEW s \in VaultStatus, Spawn(i, s)
    PROVE  PipeInv'
<1> USE EntryType
<1>1. /\ sp \in Locals /\ sem \in [Statuses -> Nat] /\ store \in Listing /\ LoopOK /\ CapacityConserved
      /\ rt \in [Routines -> Routine] /\ s \in Statuses /\ VaultOf[i] \in Vaults
    BY SignerAssumption DEF PipeInv, TypeOK, Locals
<1>2. i \in sp.todo /\ sp.pc = "loop" /\ sp.list[i] \in Entry /\ Retries(sp.list, VaultOf[i]) \subseteq {i}
    BY DEF Spawn, IsNext, PipeInv, LoopOK
<1>3. PICK r : r = Min({q \in Routines : rt[q] = Blank})
    OBVIOUS
<1>4. r \in Routines /\ rt[r] = Blank
    <2>1. {q \in Routines : rt[q] = Blank} \subseteq Nat /\ {q \in Routines : rt[q] = Blank} # {}
        BY SignerAssumption DEF Spawn
    <2> QED
        BY <1>3, <2>1, MinIsMember
<1>5. PICK y : y = [Blank EXCEPT !.outer = "run", !.inner = "check", !.item = i,
                                 !.entry = sp.list[i], !.status = s]
    OBVIOUS
<1>6. /\ y \in Routine /\ y.outer = "run" /\ y.inner = "check" /\ y.item = i
      /\ y.entry \in Entry /\ y.status = s
    BY <1>1, <1>2, <1>5, BlankType DEF Blank, Routine
<1>7. rt' = [rt EXCEPT ![r] = y]
    BY <1>3, <1>5 DEF Spawn
<1>8. rt' \in [Routines -> Routine] /\ rt'[r] = y /\ \A q \in Routines : q # r => rt'[q] = rt[q]
    BY <1>1, <1>4, <1>6, <1>7
<1>9. PICK d : d = Done(i)
    OBVIOUS
<1>10. /\ d \in Locals /\ d.pc = sp.pc /\ d.held = sp.held /\ d.locked = sp.locked
       /\ \A j \in d.todo : d.list[j] \in Entry /\ Retries(d.list, VaultOf[j]) \subseteq {j}
    BY <1>1, <1>2, <1>9, DoneEffect
<1>11. sp' = [d EXCEPT !.held[s] = @ - 1, !.locked = IF Locks THEN @ \cup {VaultOf[i]} ELSE @]
    BY <1>9 DEF Spawn
<1>12. sp.held[s] \in Nat /\ sp.held[s] > 0 /\ sp.held \in [Statuses -> Nat]
    BY <1>1 DEF Spawn, Locals
<1>13. [sp.held EXCEPT ![s] = @ - 1] \in [Statuses -> Nat]
    BY <1>1, <1>12
<1>14. /\ sp' \in Locals /\ sp'.pc = "loop" /\ sp'.list = d.list /\ sp'.todo = d.todo
       /\ sp'.held = [sp.held EXCEPT ![s] = @ - 1]
    BY <1>1, <1>2, <1>10, <1>11, <1>13 DEF Locals
<1>15. lock' \subseteq Vaults /\ exposed' \subseteq Vaults /\ exposed \subseteq exposed'
    BY <1>1 DEF PipeInv, TypeOK, Spawn
<1>16. TypeOK'
    BY <1>8, <1>14, <1>15 DEF PipeInv, TypeOK, Spawn, unSpawn, Locals
<1>17. \A q \in Routines : RoutineOK(rt[q])'
    BY <1>6, <1>8 DEF PipeInv, RoutineOK
<1>18. LoopOK'
    BY <1>10, <1>14 DEF LoopOK, Retries
<1>19. CapacityConserved'
    <2>1. Holding(s)' = Holding(s) \cup {r} /\ r \notin Holding(s)
        BY <1>1, <1>4, <1>6, <1>8, BlankType DEF Holding
    <2>2. \A t \in Statuses : t # s => Holding(t)' = Holding(t)
        BY <1>4, <1>6, <1>8, BlankType DEF Holding
    <2>3. Cardinality(Holding(s) \cup {r}) = Cardinality(Holding(s)) + 1 /\ Cardinality(Holding(s)) \in Nat
        BY <1>1, <2>1, HoldingFinite, FS_AddElement, FS_CardinalityType
    <2>4. sem' = sem
        BY DEF Spawn
    <2>5. sem[s] = sp.held[s] + Cardinality(Holding(s))
        BY <1>1 DEF CapacityConserved
    <2>6. sp'.held[s] = sp.held[s] - 1 /\ \A t \in Statuses : t # s => sp'.held[t] = sp.held[t]
        BY <1>1, <1>12, <1>14
    <2>7. sem[s] = sp'.held[s] + Cardinality(Holding(s)')
        BY <1>12, <2>1, <2>3, <2>5, <2>6
    <2>8. \A t \in Statuses : sem[t] = sp'.held[t] + Cardinality(Holding(t)')
        BY <1>1, <2>2, <2>6, <2>7 DEF CapacityConserved
    <2> QED
        BY <1>1, <2>4, <2>8 DEF CapacityConserved, Capacity
<1>20. ASSUME Locks PROVE LockOfOne' /\ NoPileUp'
    <2>1. LockOfOne /\ NoPileUp
        BY <1>20 DEF PipeInv
    <2>2. VaultOf[i] \notin lock /\ lock' = lock \cup {VaultOf[i]} /\ store' = store
        BY <1>20 DEF Spawn, unSpawn
    <2>3. Locking(VaultOf[i])' = Locking(VaultOf[i]) \cup {r}
        BY <1>4, <1>6, <1>8, BlankType DEF Locking
    <2>4. \A v \in Vaults : v # VaultOf[i] => Locking(v)' = Locking(v)
        BY <1>4, <1>6, <1>8, BlankType DEF Locking
    <2>5. Locking(VaultOf[i]) = {}
        BY <1>1, <2>1, <2>2 DEF LockOfOne
    <2>6. \A v \in Vaults : v \in lock' <=> Locking(v)' # {}
        BY <2>1, <2>2, <2>3, <2>4 DEF LockOfOne
    <2>7. \A v \in Vaults : \A p, q \in Locking(v)' : p = q
        BY <2>1, <2>3, <2>4, <2>5 DEF LockOfOne
    <2>8. LockOfOne'
        BY <2>6, <2>7 DEF LockOfOne
    <2>9. VaultOf[i] \notin exposed' => Retries(store, VaultOf[i]) \subseteq {i}
        <3>1. VaultOf[i] \notin exposed' => \A j \in ItemsOf(VaultOf[i]) : store[j] = sp.list[j]
            BY DEF Spawn
        <3> QED
            BY <1>2, <3>1 DEF Retries
    <2>10. ASSUME NEW q \in Routines, rt'[q].inner # "done", VaultOf[rt'[q].item] \notin exposed'
           PROVE  rt'[q].outer = "run"
        BY <1>6, <1>8, <1>15, <2>1, <2>10 DEF NoPileUp
    <2>11. ASSUME NEW q \in Routines, rt'[q].outer = "run", VaultOf[rt'[q].item] \notin exposed'
           PROVE  Retries(store, VaultOf[rt'[q].item]) \subseteq {rt'[q].item}
        <3>1. CASE q = r
            BY <1>6, <1>8, <2>9, <2>11, <3>1
        <3>2. CASE q # r
            BY <1>8, <1>15, <2>1, <2>11, <3>2 DEF NoPileUp
        <3> QED
            BY <3>1, <3>2
    <2>12. \A v \in Vaults \ exposed' : \A j, k \in Retries(store, v) : j = k
        BY <1>15, <2>1 DEF NoPileUp
    <2>13. NoPileUp'
        BY <2>2, <2>10, <2>11, <2>12 DEF NoPileUp, Retries
    <2> QED
        BY <2>8, <2>13
<1> QED
    BY <1>16, <1>17, <1>18, <1>19, <1>20 DEF PipeInv, Locks

-----------------------------------------------------------------------------
(* The block, the chain and the process *)

\* The block brings a batch of items to sign.
LEMMA BatchKeepsInv ==
    ASSUME PipeInv, NEW v \in Vaults, Batch(v)
    PROVE  PipeInv'
<1> USE EntryType
<1>1. store \in Listing /\ exposed \subseteq exposed'
    BY DEF PipeInv, TypeOK, Batch
<1>2. store' \in Listing /\ store' = [i \in Items |-> IF VaultOf[i] = v THEN Fresh ELSE store[i]]
    BY <1>1 DEF Batch, Listing
<1>3. Retries(store', v) = {}
    BY <1>2 DEF Retries, ItemsOf
<1>4. \A w \in Vaults : w # v => Retries(store', w) = Retries(store, w)
    BY <1>2 DEF Retries, ItemsOf
<1>5. TypeOK'
    BY <1>2 DEF PipeInv, TypeOK, Batch
<1>6. \A r \in Routines : RoutineOK(rt[r])'
    BY DEF PipeInv, RoutineOK, Batch
<1>7. LoopOK'
    BY DEF PipeInv, LoopOK, Batch
<1>8. CapacityConserved'
    BY CapacityStays DEF PipeInv, Batch
<1>9. ASSUME Locks PROVE LockOfOne' /\ NoPileUp'
    <2>1. LockOfOne /\ NoPileUp /\ rt' = rt
        BY <1>9 DEF PipeInv, Batch
    <2>2. LockOfOne'
        BY <2>1, LocksStay DEF Batch
    <2>3. \A r \in Routines :
            rt[r].inner # "done" /\ VaultOf[rt[r].item] \notin exposed' => rt[r].outer = "run"
        BY <1>1, <2>1 DEF NoPileUp
    <2>4. ASSUME NEW r \in Routines, rt[r].outer = "run", VaultOf[rt[r].item] \notin exposed'
          PROVE  Retries(store', VaultOf[rt[r].item]) \subseteq {rt[r].item}
        <3>1. VaultOf[rt[r].item] \in Vaults
            BY <2>4 DEF PipeInv, RoutineOK
        <3> QED
            BY <1>1, <1>3, <1>4, <2>1, <2>4, <3>1 DEF NoPileUp
    <2>5. \A w \in Vaults \ exposed' : \A i, j \in Retries(store', w) : i = j
        BY <1>1, <1>3, <1>4, <2>1 DEF NoPileUp
    <2> QED
        BY <2>1, <2>2, <2>3, <2>4, <2>5 DEF NoPileUp, Retries
<1> QED
    BY <1>5, <1>6, <1>7, <1>8, <1>9 DEF PipeInv, Locks

\* A state with no routine and a loop that holds nothing.
Quiet == sp = Idle /\ rt = [r \in Routines |-> Blank] /\ sem = [s \in Statuses |-> 0]

QuietOK ==
    /\ \A r \in Routines : RoutineOK(rt[r])
    /\ LoopOK /\ CapacityConserved
    /\ \A v \in Vaults : Locking(v) = {}

\* A quiet process holds neither lock nor unit.
LEMMA QuietState == Quiet => QuietOK
<1> SUFFICES ASSUME Quiet PROVE QuietOK
    OBVIOUS
<1>1. Idle.pc = "idle" /\ Idle.todo = {} /\ Idle.held = [s \in Statuses |-> 0]
    BY DEF Idle
<1>2. \A s \in Statuses : Holding(s) = {}
    BY BlankType DEF Holding, Quiet
<1>3. CapacityConserved
    BY <1>1, <1>2, FS_EmptySet, CapacityType DEF CapacityConserved, Quiet
<1> QED
    BY <1>1, <1>3, BlankType DEF LoopOK, Locking, Quiet, QuietOK

\* The loop starts idle.
LEMMA IdleType == Idle \in Locals
BY DEF Idle, Locals, Listing

\* A crash frees every lock and semaphore and keeps the store.
LEMMA CrashKeepsInv ==
    ASSUME PipeInv, Crash
    PROVE  PipeInv'
<1>1. faults' \in 0..MaxFaults
    BY SignerAssumption DEF PipeInv, TypeOK, Crash
<1>2. TypeOK'
    BY <1>1, BlankType, IdleType DEF PipeInv, TypeOK, Crash, Locals
<1>3. Quiet'
    BY DEF Crash, Quiet
<1>4. QuietOK'
    BY <1>3, QuietState, PTL
<1>5. ASSUME Locks PROVE LockOfOne' /\ NoPileUp'
    <2>1. NoPileUp
        BY <1>5 DEF PipeInv
    <2>2. LockOfOne'
        BY <1>4 DEF LockOfOne, Crash, QuietOK
    <2>3. NoPileUp'
        BY <2>1, BlankType, PileUpStays DEF Crash, NoPileUp, Retries
    <2> QED
        BY <2>2, <2>3
<1> QED
    BY <1>2, <1>4, <1>5 DEF PipeInv, Locks, QuietOK

\* A block passes.
LEMMA NewBlockKeepsInv ==
    ASSUME PipeInv, NewBlock
    PROVE  PipeInv'
<1>1. clock' \in 0..MaxClock
    BY SignerAssumption DEF PipeInv, TypeOK, NewBlock
<1>2. TypeOK'
    BY <1>1 DEF PipeInv, TypeOK, NewBlock
<1>3. \A r \in Routines : RoutineOK(rt[r])'
    BY DEF PipeInv, RoutineOK, NewBlock
<1>4. LoopOK'
    BY DEF PipeInv, LoopOK, NewBlock
<1>5. CapacityConserved'
    BY CapacityStays DEF PipeInv, NewBlock
<1>6. ASSUME Locks PROVE LockOfOne' /\ NoPileUp'
    <2>1. LockOfOne /\ NoPileUp
        BY <1>6 DEF PipeInv
    <2> QED
        BY <2>1, LocksStay, PileUpStays DEF NewBlock
<1> QED
    BY <1>2, <1>3, <1>4, <1>5, <1>6 DEF PipeInv, Locks

\* Nothing changes.
LEMMA StutterKeepsInv ==
    ASSUME PipeInv, UNCHANGED vars
    PROVE  PipeInv'
<1>1. TypeOK'
    BY DEF PipeInv, TypeOK, vars
<1>2. \A r \in Routines : RoutineOK(rt[r])'
    BY DEF PipeInv, RoutineOK, vars
<1>3. LoopOK'
    BY DEF PipeInv, LoopOK, vars
<1>4. CapacityConserved'
    BY CapacityStays DEF PipeInv, vars
<1>5. ASSUME Locks PROVE LockOfOne' /\ NoPileUp'
    <2>1. LockOfOne /\ NoPileUp
        BY <1>5 DEF PipeInv
    <2> QED
        BY <2>1, LocksStay, PileUpStays DEF vars
<1> QED
    BY <1>1, <1>2, <1>3, <1>4, <1>5 DEF PipeInv, Locks

\* The process starts with all locks and semaphores free.
LEMMA PipeInvInit == Init => PipeInv
<1> SUFFICES ASSUME Init PROVE PipeInv
    OBVIOUS
<1>1. QuietOK
    BY QuietState DEF Init, Quiet
<1>2. 0 \in 0..MaxClock /\ 0 \in 0..MaxFaults
    BY SignerAssumption
<1>3. TypeOK
    BY <1>2, BlankType, IdleType DEF Init, TypeOK, Locals, Listing
<1>4. LockOfOne
    BY <1>1 DEF Init, LockOfOne, QuietOK
<1>5. NoPileUp
    BY BlankType, EntryType DEF Init, NoPileUp, Retries, ItemsOf
<1> QED
    BY <1>1, <1>3, <1>4, <1>5 DEF PipeInv, QuietOK

\* Each step keeps the invariant.
LEMMA PipeInvNext == PipeInv /\ [Next]_vars => PipeInv'
<1> SUFFICES ASSUME PipeInv, [Next]_vars PROVE PipeInv'
    OBVIOUS
<1>1. ASSUME NEW v \in Vaults, Batch(v) PROVE PipeInv'
    BY <1>1, BatchKeepsInv
<1>2. CASE SpawnStep
    BY <1>2, ListKeepsInv, AcquireKeepsInv, ReturnKeepsInv DEF SpawnStep, SpawnDone
<1>3. CASE NewBlock
    BY <1>3, NewBlockKeepsInv
<1>4. CASE Crash
    BY <1>4, CrashKeepsInv
<1>5. ASSUME NEW i \in Items, ItemStep(i) PROVE PipeInv'
    <2>1. CASE Skip(i)
        BY <2>1, SkipKeepsInv
    <2>2. CASE GetVaultFails(i)
        BY <2>2, ReturnKeepsInv DEF GetVaultFails
    <2>3. ASSUME NEW s \in VaultStatus, Spawn(i, s) PROVE PipeInv'
        BY <2>3, SpawnKeepsInv
    <2> QED
        BY <1>5, <2>1, <2>2, <2>3 DEF ItemStep
<1>6. ASSUME NEW r \in Routines, InnerStep(r) \/ OuterStep(r) \/ Timeout(r) PROVE PipeInv'
    BY <1>6, InnerStepKeepsInv, OuterStepKeepsInv, TimeoutKeepsInv
<1>7. CASE UNCHANGED vars
    BY <1>7, StutterKeepsInv
<1> QED
    BY <1>1, <1>2, <1>3, <1>4, <1>5, <1>6, <1>7 DEF Next

\* The invariant holds throughout.
LEMMA PipeInvariant == Spec => []PipeInv
BY PipeInvInit, PipeInvNext, PTL DEF Spec

-----------------------------------------------------------------------------
(* Theorems *)

\* The store, the locals of SpawnSignings and the routines have their types, whatever
\* the interleaving of the loop, the two goroutines of each routine and crashes.
THEOREM PipelineTypeCorrect == Spec => []TypeOK
<1>1. PipeInv => TypeOK
    BY DEF PipeInv
<1> QED
    BY <1>1, PipeInvariant, PTL

\* The tokens of each semaphore are those SpawnSignings holds and one for each routine
\* that has not released its own, and never more than its capacity.
THEOREM SemaphoresConserved == Spec => []CapacityConserved
<1>1. PipeInv => CapacityConserved
    BY DEF PipeInv
<1> QED
    BY <1>1, PipeInvariant, PTL

\* The channel of a vault/chain is full exactly while one routine, and only one, has
\* still to drain it: no two routines of a vault answer for its lock.
THEOREM OneRoutinePerLock == Spec => []LockIsOneRoutine
<1>1. PipeInv => LockIsOneRoutine
    <2> SUFFICES ASSUME PipeInv, Locks, NEW v \in Vaults
                 PROVE  Cardinality(Locking(v)) = IF v \in lock THEN 1 ELSE 0
        BY DEF LockIsOneRoutine
    <2>1. LockOfOne
        BY DEF PipeInv
    <2>2. CASE v \notin lock
        BY <2>1, <2>2, FS_EmptySet DEF LockOfOne
    <2>3. CASE v \in lock
        <3>1. PICK r : r \in Locking(v)
            BY <2>1, <2>3 DEF LockOfOne
        <3>2. Locking(v) = {r}
            BY <2>1, <3>1 DEF LockOfOne
        <3> QED
            BY <2>3, <3>2, FS_Singleton
    <2> QED
        BY <2>2, <2>3
<1> QED
    BY <1>1, PipeInvariant, PTL

\* On a chain whose vaults the pipeline locks, a vault has two items in retry only after a
\* time-out, a spawn from an outdated list or a second store of the block's items.
THEOREM RetriesPileUpOnlyExposed == Spec => []PileUpExposed
<1>1. PipeInv => PileUpExposed
    <2> SUFFICES ASSUME PipeInv, Locks, NEW v \in Vaults, v \notin exposed
                 PROVE  ~(Cardinality(Retries(store, v)) > 1)
        BY DEF PileUpExposed
    <2>1. \A i, j \in Retries(store, v) : i = j
        BY DEF PipeInv, NoPileUp
    <2>2. CASE Retries(store, v) = {}
        BY <2>2, FS_EmptySet
    <2>3. CASE Retries(store, v) # {}
        <3>1. PICK i : i \in Retries(store, v)
            BY <2>3
        <3>2. Retries(store, v) = {i}
            BY <2>1, <3>1
        <3>3. Cardinality({i}) = 1
            BY FS_Singleton
        <3> QED
            BY <3>2, <3>3
    <2> QED
        BY <2>2, <2>3
<1> QED
    BY <1>1, PipeInvariant, PTL
=============================================================================
