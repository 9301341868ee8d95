--------------------------- MODULE PriorityRWLock ---------------------------
(***************************************************************************)
(* The lock that guards every inject cache of the enshrined bifrost        *)
(* (x/switchly/ebifrost/priority_lock.go): one writer or many readers,     *)
(* where the block proposer's read (RLockPriority) passes the writers that *)
(* wait.  A thread runs under the mutex mu from its entry into a method,   *)
(* or from its return from Cond.Wait, to the next Wait or to the end of    *)
(* the method; each such stretch is one step here.  A thread that waits is *)
(* asleep until a Signal or Broadcast makes it woken, and a woken thread   *)
(* tests its condition again whenever it gets mu back, which may be after  *)
(* others have come and gone.                                              *)
(***************************************************************************)
EXTENDS Integers, FiniteSets

CONSTANTS
    Thread,     \* the goroutines that use the lock
    MaxOps      \* bound: how often each of them takes it

ASSUME LockAssumption == IsFiniteSet(Thread) /\ MaxOps \in Nat

VARIABLES
    pc,                   \* where each thread is
    ops,                  \* thread -> times it may still take the lock
    readerCount, writerActive, writersWaiting, highPriorityReaders

vars == <<pc, ops, readerCount, writerActive, writersWaiting, highPriorityReaders>>

PC == {"idle", "wAsleep", "wWoken", "wHeld", "pAsleep", "pWoken", "rAsleep", "rWoken", "rHeld"}

At(states) == {t \in Thread : pc[t] \in states}

Init ==
    /\ pc = [t \in Thread |-> "idle"]
    /\ ops = [t \in Thread |-> MaxOps]
    /\ readerCount = 0
    /\ writerActive = 0
    /\ writersWaiting = 0
    /\ highPriorityReaders = 0

-----------------------------------------------------------------------------
(* sync.Cond: Signal wakes one sleeper if there is one, Broadcast all.     *)

Signal(p, asleep, woken) ==
    LET sleepers == {u \in Thread : p[u] = asleep}
    IN  IF sleepers = {} THEN {p} ELSE {[p EXCEPT ![u] = woken] : u \in sleepers}

Broadcast(p, asleep, woken) == [u \in Thread |-> IF p[u] = asleep THEN woken ELSE p[u]]

-----------------------------------------------------------------------------
(* Lock *)

\* Mutant: only writers exclude a writer
WriterBlockedByWriter == writerActive = 1

WriterBlocked == readerCount > 0 \/ writerActive = 1

LockWait(t) ==
    /\ WriterBlocked
    /\ pc' = [pc EXCEPT ![t] = "wAsleep"]
    /\ UNCHANGED <<readerCount, writerActive, highPriorityReaders>>

LockTake(t) ==
    /\ ~WriterBlocked
    /\ pc' = [pc EXCEPT ![t] = "wHeld"]
    /\ writerActive' = 1
    /\ UNCHANGED <<readerCount, highPriorityReaders>>

Enter(t) ==
    /\ pc[t] = "idle"
    /\ ops[t] > 0
    /\ ops' = [ops EXCEPT ![t] = @ - 1]

Lock(t) ==
    /\ Enter(t)
    /\ \/ LockWait(t) /\ writersWaiting' = writersWaiting + 1
       \/ LockTake(t) /\ writersWaiting' = writersWaiting

LockRetry(t) ==
    /\ pc[t] = "wWoken"
    /\ ops' = ops
    /\ \/ LockWait(t) /\ writersWaiting' = writersWaiting
       \/ LockTake(t) /\ writersWaiting' = writersWaiting - 1

-----------------------------------------------------------------------------
(* Unlock *)

\* Mutant: one priority reader is woken instead of all
UnlockWakesSignal(p) ==
    IF highPriorityReaders > 0 THEN Signal(p, "pAsleep", "pWoken")
    ELSE IF writersWaiting > 0 THEN Signal(p, "wAsleep", "wWoken")
    ELSE {Broadcast(p, "rAsleep", "rWoken")}

UnlockWakes(p) ==
    IF highPriorityReaders > 0 THEN {Broadcast(p, "pAsleep", "pWoken")}
    ELSE IF writersWaiting > 0 THEN Signal(p, "wAsleep", "wWoken")
    ELSE {Broadcast(p, "rAsleep", "rWoken")}

Unlock(t) ==
    /\ pc[t] = "wHeld"
    /\ writerActive' = 0
    /\ pc' \in UnlockWakes([pc EXCEPT ![t] = "idle"])
    /\ UNCHANGED <<ops, readerCount, writersWaiting, highPriorityReaders>>

-----------------------------------------------------------------------------
(* RLock and RLockPriority *)

\* Mutant: a reader passes the writer that is in
ReaderBlockedByWaiting == writersWaiting > 0

ReaderBlocked == writerActive = 1 \/ writersWaiting > 0

RLockWait(t) ==
    /\ ReaderBlocked
    /\ pc' = [pc EXCEPT ![t] = "rAsleep"]
    /\ UNCHANGED readerCount

RLockTake(t) ==
    /\ ~ReaderBlocked
    /\ pc' = [pc EXCEPT ![t] = "rHeld"]
    /\ readerCount' = readerCount + 1

RLock(t) ==
    /\ Enter(t)
    /\ RLockWait(t) \/ RLockTake(t)
    /\ UNCHANGED <<writerActive, writersWaiting, highPriorityReaders>>

RLockRetry(t) ==
    /\ pc[t] = "rWoken"
    /\ RLockWait(t) \/ RLockTake(t)
    /\ UNCHANGED <<ops, writerActive, writersWaiting, highPriorityReaders>>

RLockPriorityWait(t) ==
    /\ writerActive = 1
    /\ pc' = [pc EXCEPT ![t] = "pAsleep"]
    /\ UNCHANGED <<readerCount, writerActive, writersWaiting>>

RLockPriorityTake(t) ==
    /\ writerActive # 1
    /\ pc' = [pc EXCEPT ![t] = "rHeld"]
    /\ readerCount' = readerCount + 1
    /\ UNCHANGED <<writerActive, writersWaiting>>

\* Mutant: counted only when it has to wait, uncounted always
RLockPriorityMiscounted(t) ==
    /\ Enter(t)
    /\ \/ RLockPriorityWait(t) /\ highPriorityReaders' = highPriorityReaders + 1
       \/ RLockPriorityTake(t) /\ highPriorityReaders' = highPriorityReaders - 1

RLockPriority(t) ==
    /\ Enter(t)
    /\ \/ RLockPriorityWait(t) /\ highPriorityReaders' = highPriorityReaders + 1
       \/ RLockPriorityTake(t) /\ highPriorityReaders' = highPriorityReaders

RLockPriorityRetry(t) ==
    /\ pc[t] = "pWoken"
    /\ ops' = ops
    /\ \/ RLockPriorityWait(t) /\ highPriorityReaders' = highPriorityReaders
       \/ RLockPriorityTake(t) /\ highPriorityReaders' = highPriorityReaders - 1

-----------------------------------------------------------------------------
(* RUnlock *)

\* Mutant: the readers are woken and the writer is not
RUnlockWakesReaders(p) ==
    LET q == IF highPriorityReaders > 0 THEN Broadcast(p, "pAsleep", "pWoken") ELSE p
    IN  {Broadcast(q, "rAsleep", "rWoken")}

RUnlockWakes(p) ==
    LET q == IF highPriorityReaders > 0 THEN Broadcast(p, "pAsleep", "pWoken") ELSE p
    IN  Signal(Broadcast(q, "rAsleep", "rWoken"), "wAsleep", "wWoken")

RUnlock(t) ==
    /\ pc[t] = "rHeld"
    /\ readerCount' = readerCount - 1
    /\ LET p == [pc EXCEPT ![t] = "idle"]
       IN  pc' \in IF readerCount' = 0 THEN RUnlockWakes(p) ELSE {p}
    /\ UNCHANGED <<ops, writerActive, writersWaiting, highPriorityReaders>>

-----------------------------------------------------------------------------
Retry(t) == LockRetry(t) \/ RLockRetry(t) \/ RLockPriorityRetry(t)

Release(t) == Unlock(t) \/ RUnlock(t)

\* Every thread has made its MaxOps calls and returned from them.
Done == (\A t \in Thread : pc[t] = "idle" /\ ops[t] = 0) /\ UNCHANGED vars

Next ==
    \/ \E t \in Thread : Lock(t) \/ RLock(t) \/ RLockPriority(t) \/ Retry(t) \/ Release(t)
    \/ Done

(* Every critical section of inject_cache.go and ebifrost.go ends (its     *)
(* Unlock is deferred, and nothing in it waits), and a goroutine that      *)
(* waits for mu gets it.                                                   *)
Fairness == \A t \in Thread : WF_vars(Retry(t)) /\ WF_vars(Release(t))

Spec == Init /\ [][Next]_vars /\ Fairness

-----------------------------------------------------------------------------
(* Properties *)

Writers == At({"wHeld"})
Readers == At({"rHeld"})
Holders == At({"wHeld", "rHeld"})

TypeOK ==
    /\ pc \in [Thread -> PC]
    /\ ops \in [Thread -> Nat]
    /\ readerCount \in Nat
    /\ writerActive \in {0, 1}
    /\ writersWaiting \in Nat
    /\ highPriorityReaders \in Nat

\* A thread that has returned from Lock and not called Unlock is alone: no
\* second writer and no reader, normal or priority, is between its lock and
\* its unlock, whatever barged in between a wake-up and the retry.
MutualExclusion ==
    \A t, u \in Holders : t # u => {t, u} \subseteq Readers

\* No wake-up is lost: whoever is asleep has someone who will still wake it.
\* A priority reader only ever sleeps while a writer is in ("High priority
\* readers only wait for active writers", priority_lock.go:76); a sleeping
\* writer or normal reader has a holder, or a woken thread that will hold.
NoLostWakeup ==
    /\ At({"pAsleep"}) # {} => Writers # {}
    /\ At({"wAsleep", "rAsleep"}) # {} => At({"wHeld", "rHeld", "wWoken", "pWoken"}) # {}

\* As long as the callers stop coming (each makes at most MaxOps calls, of any
\* kind, at any time), every call of Lock, RLock and RLockPriority returns.
EveryCallReturns ==
    \A t \in Thread : pc[t] # "idle" ~> pc[t] = "idle"
-----------------------------------------------------------------------------
(* Refinement of the abstract lock                                         *)

RoleOf(p) ==
    IF p = "idle" THEN "out"
    ELSE IF p = "rHeld" THEN "reading"
    ELSE IF p = "wHeld" THEN "writing"
    ELSE IF p \in {"wAsleep", "wWoken"} THEN "wantsWrite"
    ELSE "wantsRead"

Abstract == INSTANCE RWLock WITH role <- [t \in Thread |-> RoleOf(pc[t])]

\* priority_lock.go is a read-write lock: however the waiters are counted, woken,
\* overtaken by the proposer's priority read and woken again, its callers see
\* steps of RWLock and none of them is passed over for ever.
Refines == Abstract!Spec
=============================================================================
