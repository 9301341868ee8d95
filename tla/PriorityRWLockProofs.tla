------------------------ MODULE PriorityRWLockProofs ------------------------
(***************************************************************************)
(* For any finite number of goroutines and any number of calls: the lock   *)
(* excludes, and no wake-up is lost.  The four integers of the lock are    *)
(* tied to how many threads are where (Counts); from that the conditions   *)
(* the code tests on integers are conditions on threads.                   *)
(***************************************************************************)
EXTENDS PriorityRWLock, FiniteSetTheorems, TLAPS

Num(p, C) == Cardinality({u \in Thread : p[u] \in C})

WWait == {"wAsleep", "wWoken"}
PWait == {"pAsleep", "pWoken"}

Wakings == {<<"wAsleep", "wWoken">>, <<"pAsleep", "pWoken">>, <<"rAsleep", "rWoken">>}

\* q is p with some sleepers woken.
WakeOnly(p, q) ==
    /\ q \in [Thread -> PC]
    /\ \A u \in Thread : q[u] = p[u] \/ <<p[u], q[u]>> \in Wakings

Counts ==
    /\ readerCount = Num(pc, {"rHeld"})
    /\ writersWaiting = Num(pc, WWait)
    /\ highPriorityReaders = Num(pc, PWait)

WriterKnown == writerActive = 1 <=> \E t \in Thread : pc[t] = "wHeld"

WriterAlone ==
    \A t, u \in Thread : pc[t] = "wHeld" /\ pc[u] \in {"wHeld", "rHeld"} => t = u

PrioritySafe ==
    (\E t \in Thread : pc[t] = "pAsleep") => \E t \in Thread : pc[t] = "wHeld"

SleepersSafe ==
    (\E t \in Thread : pc[t] \in {"wAsleep", "rAsleep"})
        => \E t \in Thread : pc[t] \in {"wHeld", "rHeld", "wWoken", "pWoken"}

IInv == TypeOK /\ Counts /\ WriterKnown /\ WriterAlone /\ PrioritySafe /\ SleepersSafe

-----------------------------------------------------------------------------
\* What the counters mean: a count is zero when no thread is there.
LEMMA NumZero ==
    ASSUME NEW p \in [Thread -> PC], NEW C
    PROVE  /\ Num(p, C) \in Nat
           /\ Num(p, C) = 0 <=> \A u \in Thread : p[u] \notin C
<1> DEFINE S == {u \in Thread : p[u] \in C}
<1>1. IsFiniteSet(S)
  BY LockAssumption, FS_Subset
<1>2. Cardinality(S) \in Nat /\ (Cardinality(S) = 0 <=> S = {})
  BY <1>1, FS_CardinalityType, FS_EmptySet
<1> QED
  BY <1>2 DEF Num

\* A step that moves t, and moves no other thread into or out of C, changes the
\* count of C by what t does: the ++ and -- of priority_lock.go.
LEMMA NumStep ==
    ASSUME NEW p \in [Thread -> PC], NEW q \in [Thread -> PC], NEW C, NEW t \in Thread,
           \A u \in Thread : u # t => (q[u] \in C <=> p[u] \in C)
    PROVE  /\ p[t] \in C /\ q[t] \notin C => Num(q, C) = Num(p, C) - 1
           /\ p[t] \notin C /\ q[t] \in C => Num(q, C) = Num(p, C) + 1
           /\ (p[t] \in C <=> q[t] \in C) => Num(q, C) = Num(p, C)
<1> DEFINE S == {u \in Thread : p[u] \in C}
           T == {u \in Thread : q[u] \in C}
<1>1. IsFiniteSet(S) /\ IsFiniteSet(T)
  BY LockAssumption, FS_Subset
<1>2. ASSUME p[t] \in C, q[t] \notin C PROVE Cardinality(T) = Cardinality(S) - 1
  <2>1. T = S \ {t} /\ t \in S
    BY <1>2
  <2> HIDE DEF S, T
  <2> QED BY <1>1, <2>1, FS_RemoveElement
<1>3. ASSUME p[t] \notin C, q[t] \in C PROVE Cardinality(T) = Cardinality(S) + 1
  <2>1. T = S \cup {t} /\ t \notin S
    BY <1>3
  <2> HIDE DEF S, T
  <2> QED BY <1>1, <2>1, FS_AddElement
<1>4. ASSUME p[t] \in C <=> q[t] \in C PROVE S = T
  BY <1>4
<1> QED
  BY <1>2, <1>3, <1>4 DEF Num

\* Signal and Broadcast of sync.Cond only wake threads; a Signal wakes one if
\* there is one, a Broadcast leaves none asleep on that condition.
LEMMA WakeFacts ==
    ASSUME NEW p \in [Thread -> PC], NEW asleep, NEW woken, <<asleep, woken>> \in Wakings
    PROVE  /\ \A q \in Signal(p, asleep, woken) :
                 /\ WakeOnly(p, q)
                 /\ (\E u \in Thread : p[u] = asleep) => \E u \in Thread : q[u] = woken
           /\ WakeOnly(p, Broadcast(p, asleep, woken))
           /\ \A u \in Thread : Broadcast(p, asleep, woken)[u] # asleep
<1>1. asleep \in PC /\ woken \in PC /\ asleep # woken
  BY DEF Wakings, PC
<1>2. WakeOnly(p, Broadcast(p, asleep, woken))
      /\ \A u \in Thread : Broadcast(p, asleep, woken)[u] # asleep
  BY <1>1 DEF WakeOnly, Broadcast
<1>3. ASSUME NEW q \in Signal(p, asleep, woken)
      PROVE  /\ WakeOnly(p, q)
             /\ (\E u \in Thread : p[u] = asleep) => \E u \in Thread : q[u] = woken
  <2>1. CASE \A u \in Thread : p[u] # asleep
    BY <2>1, <1>3 DEF Signal, WakeOnly
  <2>2. CASE \E u \in Thread : p[u] = asleep
    <3>1. PICK v \in Thread : p[v] = asleep /\ q = [p EXCEPT ![v] = woken]
      BY <2>2, <1>3 DEF Signal
    <3> QED BY <3>1, <1>1 DEF WakeOnly
  <2> QED BY <2>1, <2>2
<1> QED BY <1>2, <1>3

\* Waking sleepers composes.
LEMMA WakeTwice ==
    ASSUME NEW p, NEW q, NEW r, WakeOnly(p, q), WakeOnly(q, r)
    PROVE  WakeOnly(p, r)
BY DEF WakeOnly, Wakings

\* What Unlock wakes (priority_lock.go:47-54): all waiting priority readers, or
\* else a waiting writer, or else all waiting readers.
LEMMA UnlockWakesFacts ==
    ASSUME NEW p \in [Thread -> PC], NEW q \in UnlockWakes(p),
           highPriorityReaders \in Nat, writersWaiting \in Nat
    PROVE  /\ WakeOnly(p, q)
           /\ highPriorityReaders > 0 => \A u \in Thread : q[u] # "pAsleep"
           /\ highPriorityReaders = 0 /\ writersWaiting > 0
                => ((\E u \in Thread : p[u] = "wAsleep") => \E u \in Thread : q[u] = "wWoken")
           /\ highPriorityReaders = 0 /\ writersWaiting = 0
                => \A u \in Thread : q[u] # "rAsleep"
<1>1. CASE highPriorityReaders > 0
  BY <1>1, WakeFacts DEF UnlockWakes, Wakings
<1>2. CASE highPriorityReaders = 0 /\ writersWaiting > 0
  <2>1. q \in Signal(p, "wAsleep", "wWoken")
    BY <1>2 DEF UnlockWakes
  <2> QED BY <1>2, <2>1, WakeFacts DEF Wakings
<1>3. CASE highPriorityReaders = 0 /\ writersWaiting = 0
  <2>1. q = Broadcast(p, "rAsleep", "rWoken")
    BY <1>3 DEF UnlockWakes
  <2> QED BY <1>3, <2>1, WakeFacts DEF Wakings
<1> QED BY <1>1, <1>2, <1>3

\* What the last RUnlock wakes (priority_lock.go:93-100): a waiting writer, and
\* all waiting readers.
LEMMA RUnlockWakesFacts ==
    ASSUME NEW p \in [Thread -> PC], NEW q \in RUnlockWakes(p)
    PROVE  /\ WakeOnly(p, q)
           /\ (\E u \in Thread : p[u] = "wAsleep") => \E u \in Thread : q[u] = "wWoken"
           /\ \A u \in Thread : q[u] # "rAsleep"
<1> DEFINE a == IF highPriorityReaders > 0 THEN Broadcast(p, "pAsleep", "pWoken") ELSE p
           b == Broadcast(a, "rAsleep", "rWoken")
<1>1. a \in [Thread -> PC] /\ WakeOnly(p, a) /\ \A u \in Thread : p[u] = "wAsleep" => a[u] = "wAsleep"
  BY WakeFacts DEF WakeOnly, Wakings, Broadcast, PC
<1>2. q \in Signal(b, "wAsleep", "wWoken")
  BY DEF RUnlockWakes
<1> HIDE DEF a
<1>3. /\ b \in [Thread -> PC] /\ WakeOnly(a, b)
      /\ \A u \in Thread : b[u] # "rAsleep" /\ (a[u] = "wAsleep" => b[u] = "wAsleep")
  BY <1>1, WakeFacts DEF WakeOnly, Wakings, Broadcast, PC
<1> HIDE DEF b
<1>4. /\ WakeOnly(b, q)
      /\ (\E u \in Thread : b[u] = "wAsleep") => \E u \in Thread : q[u] = "wWoken"
  BY <1>2, <1>3, WakeFacts DEF Wakings
<1>5. WakeOnly(p, q)
  BY <1>1, <1>3, <1>4, WakeTwice
<1>6. \A u \in Thread : q[u] # "rAsleep"
  BY <1>3, <1>4 DEF WakeOnly, Wakings
<1> QED BY <1>1, <1>3, <1>4, <1>5, <1>6

-----------------------------------------------------------------------------
\* The three counters, read as facts about threads.
LEMMA CountsMean ==
    ASSUME TypeOK, Counts
    PROVE  /\ readerCount = 0 <=> \A u \in Thread : pc[u] # "rHeld"
           /\ writersWaiting = 0 <=> \A u \in Thread : pc[u] \notin WWait
           /\ highPriorityReaders = 0 <=> \A u \in Thread : pc[u] \notin PWait
<1>1. pc \in [Thread -> PC]
  BY DEF TypeOK
<1> QED BY <1>1, NumZero DEF Counts

\* What a step that moves t and wakes sleepers does to the three counts: the
\* frame that every action of the lock shares.
LEMMA CountsMove ==
    ASSUME TypeOK, pc' \in [Thread -> PC], NEW t \in Thread,
           \A u \in Thread : u # t => pc'[u] = pc[u] \/ <<pc[u], pc'[u]>> \in Wakings,
           NEW C \in {{"rHeld"}, WWait, PWait}
    PROVE  /\ pc[t] \in C /\ pc'[t] \notin C => Num(pc', C) = Num(pc, C) - 1
           /\ pc[t] \notin C /\ pc'[t] \in C => Num(pc', C) = Num(pc, C) + 1
           /\ (pc[t] \in C <=> pc'[t] \in C) => Num(pc', C) = Num(pc, C)
<1>1. \A u \in Thread : u # t => (pc'[u] \in C <=> pc[u] \in C)
  BY DEF Wakings, WWait, PWait
<1>2. pc \in [Thread -> PC]
  BY DEF TypeOK
<1> QED BY <1>1, <1>2, NumStep

\* The initial lock: nobody holds, waits or sleeps.
LEMMA InitIInv == Init => IInv
<1> SUFFICES ASSUME Init PROVE IInv
  OBVIOUS
<1>1. TypeOK
  BY LockAssumption DEF Init, TypeOK, PC
<1>2. Counts
  BY <1>1, NumZero DEF Init, Counts, TypeOK, WWait, PWait
<1> QED BY <1>1, <1>2 DEF Init, IInv, WriterKnown, WriterAlone, PrioritySafe, SleepersSafe

\* Lock and its retry (priority_lock.go:30-40).
LEMMA LockStep ==
    ASSUME IInv, NEW t \in Thread, Lock(t) \/ LockRetry(t)
    PROVE  IInv'
<1>0. pc \in [Thread -> PC] /\ readerCount \in Nat /\ writersWaiting \in Nat
  BY DEF IInv, TypeOK
<1>1. ops' \in [Thread -> Nat]
  BY DEF IInv, TypeOK, Lock, LockRetry, Enter
<1>2. CASE LockWait(t)
  <2>1. /\ pc' = [pc EXCEPT ![t] = "wAsleep"]
        /\ readerCount > 0 \/ writerActive = 1
        /\ UNCHANGED <<readerCount, writerActive, highPriorityReaders>>
        /\ pc[t] \in {"idle", "wWoken"}
    BY <1>2 DEF LockWait, WriterBlocked, Lock, LockRetry, Enter
  <2>2. pc' \in [Thread -> PC] /\ pc'[t] = "wAsleep" /\ \A u \in Thread : u # t => pc'[u] = pc[u]
    BY <1>0, <2>1 DEF PC
  <2>3. writersWaiting' = IF pc[t] = "idle" THEN writersWaiting + 1 ELSE writersWaiting
    BY <1>2 DEF Lock, LockRetry, Enter, LockWait, LockTake
  <2>4. Counts'
    BY <2>1, <2>2, <2>3, CountsMove DEF IInv, Counts, WWait, PWait
  <2>5. \E u \in Thread : pc[u] \in {"wHeld", "rHeld"}
    BY <2>1, CountsMean DEF IInv, WriterKnown, TypeOK
  <2> QED BY <1>0, <1>1, <2>1, <2>2, <2>3, <2>4, <2>5
        DEF IInv, TypeOK, WriterKnown, WriterAlone, PrioritySafe, SleepersSafe
<1>3. CASE LockTake(t)
  <2>1. /\ pc' = [pc EXCEPT ![t] = "wHeld"]
        /\ readerCount = 0 /\ writerActive # 1 /\ writerActive' = 1
        /\ UNCHANGED <<readerCount, highPriorityReaders>>
        /\ pc[t] \in {"idle", "wWoken"}
    BY <1>0, <1>3 DEF LockTake, WriterBlocked, Lock, LockRetry, Enter
  <2>2. pc' \in [Thread -> PC] /\ pc'[t] = "wHeld" /\ \A u \in Thread : u # t => pc'[u] = pc[u]
    BY <1>0, <2>1 DEF PC
  <2>3. writersWaiting' = IF pc[t] = "idle" THEN writersWaiting ELSE writersWaiting - 1
    BY <1>3, <2>1 DEF Lock, LockRetry, Enter, LockWait, WriterBlocked
  <2>4. Counts'
    BY <2>1, <2>2, <2>3, CountsMove DEF IInv, Counts, WWait, PWait
  <2>5. writersWaiting' \in Nat
    BY <2>2, <2>4, NumZero DEF Counts
  <2>6. \A u \in Thread : pc[u] \notin {"wHeld", "rHeld"}
    BY <2>1, CountsMean DEF IInv, WriterKnown
  <2> QED BY <1>0, <1>1, <2>1, <2>2, <2>4, <2>5, <2>6
        DEF IInv, TypeOK, WriterKnown, WriterAlone, PrioritySafe, SleepersSafe
<1> QED BY <1>2, <1>3 DEF Lock, LockRetry

\* Unlock (priority_lock.go:43-57).
LEMMA UnlockStep ==
    ASSUME IInv, NEW t \in Thread, Unlock(t)
    PROVE  IInv'
<1> DEFINE p == [pc EXCEPT ![t] = "idle"]
<1>1. /\ pc[t] = "wHeld" /\ writerActive' = 0 /\ pc' \in UnlockWakes(p)
      /\ UNCHANGED <<ops, readerCount, writersWaiting, highPriorityReaders>>
  BY DEF Unlock
<1>2. TypeOK /\ p \in [Thread -> PC] /\ p[t] = "idle" /\ \A u \in Thread : u # t => p[u] = pc[u]
  BY DEF IInv, TypeOK, PC
<1>3. \A u \in Thread : u # t => pc[u] \notin {"wHeld", "rHeld"}
  BY <1>1 DEF IInv, WriterAlone
<1> HIDE DEF p
<1>4. /\ WakeOnly(p, pc')
      /\ highPriorityReaders > 0 => \A u \in Thread : pc'[u] # "pAsleep"
      /\ highPriorityReaders = 0 /\ writersWaiting > 0
           => ((\E u \in Thread : p[u] = "wAsleep") => \E u \in Thread : pc'[u] = "wWoken")
      /\ highPriorityReaders = 0 /\ writersWaiting = 0 => \A u \in Thread : pc'[u] # "rAsleep"
  BY <1>1, <1>2, UnlockWakesFacts DEF TypeOK
<1>5. /\ pc' \in [Thread -> PC] /\ pc'[t] = "idle"
      /\ \A u \in Thread : u # t => pc'[u] = pc[u] \/ <<pc[u], pc'[u]>> \in Wakings
  BY <1>2, <1>4 DEF WakeOnly, Wakings
<1>6. Counts'
  BY <1>1, <1>2, <1>5, CountsMove DEF IInv, Counts, WWait, PWait
<1>7. TypeOK'
  BY <1>1, <1>2, <1>5 DEF TypeOK
<1>8. \A u \in Thread : pc'[u] \notin {"wHeld", "rHeld"}
  BY <1>3, <1>5 DEF Wakings
<1>9. \A u \in Thread : pc'[u] # "pAsleep"
  <2>1. CASE highPriorityReaders > 0
    BY <2>1, <1>4
  <2>2. CASE highPriorityReaders = 0
    BY <2>2, <1>1, <1>6, <1>7, NumZero DEF Counts, TypeOK, PWait
  <2> QED BY <2>1, <2>2, <1>2 DEF TypeOK
<1>10. SleepersSafe'
  <2>1. CASE highPriorityReaders > 0
    <3>1. \E u \in Thread : pc'[u] \in PWait
      BY <2>1, <1>1, <1>6, <1>7, NumZero DEF Counts, TypeOK
    <3> QED BY <3>1, <1>9 DEF SleepersSafe, PWait
  <2>2. CASE highPriorityReaders = 0 /\ writersWaiting > 0
    <3>1. \E u \in Thread : pc'[u] \in WWait
      BY <2>2, <1>1, <1>6, <1>7, NumZero DEF Counts, TypeOK
    <3>2. CASE \E u \in Thread : pc'[u] = "wWoken"
      BY <3>2 DEF SleepersSafe
    <3>3. CASE \A u \in Thread : pc'[u] # "wWoken"
      <4>1. PICK v \in Thread : pc'[v] = "wAsleep"
        BY <3>1, <3>3 DEF WWait
      <4>2. p[v] = "wAsleep"
        BY <4>1, <1>4 DEF WakeOnly, Wakings
      <4> QED BY <4>2, <3>3, <2>2, <1>4
    <3> QED BY <3>2, <3>3
  <2>3. CASE highPriorityReaders = 0 /\ writersWaiting = 0
    <3>1. \A u \in Thread : pc'[u] \notin WWait
      BY <2>3, <1>1, <1>6, <1>7, NumZero DEF Counts, TypeOK
    <3>2. \A u \in Thread : pc'[u] # "rAsleep"
      BY <2>3, <1>4
    <3> QED BY <3>1, <3>2 DEF SleepersSafe, WWait
  <2> QED BY <2>1, <2>2, <2>3, <1>2 DEF TypeOK
<1> QED BY <1>1, <1>6, <1>7, <1>8, <1>9, <1>10 DEF IInv, WriterKnown, WriterAlone, PrioritySafe

\* RLock and its retry (priority_lock.go:60-70).
LEMMA RLockStep ==
    ASSUME IInv, NEW t \in Thread, RLock(t) \/ RLockRetry(t)
    PROVE  IInv'
<1>0. pc \in [Thread -> PC] /\ readerCount \in Nat /\ writersWaiting \in Nat
  BY DEF IInv, TypeOK
<1>1. /\ ops' \in [Thread -> Nat] /\ pc[t] \in {"idle", "rWoken"}
      /\ UNCHANGED <<writerActive, writersWaiting, highPriorityReaders>>
  BY DEF IInv, TypeOK, RLock, RLockRetry, Enter
<1>2. CASE RLockWait(t)
  <2>1. /\ pc' = [pc EXCEPT ![t] = "rAsleep"] /\ readerCount' = readerCount
        /\ writerActive = 1 \/ writersWaiting > 0
    BY <1>2 DEF RLockWait, ReaderBlocked
  <2>2. pc' \in [Thread -> PC] /\ pc'[t] = "rAsleep" /\ \A u \in Thread : u # t => pc'[u] = pc[u]
    BY <1>0, <2>1 DEF PC
  <2>3. Counts'
    BY <1>1, <2>1, <2>2, CountsMove DEF IInv, Counts, WWait, PWait
  <2>4. (\E u \in Thread : pc[u] = "wHeld") \/ (\E u \in Thread : pc[u] \in WWait)
    BY <2>1, CountsMean DEF IInv, WriterKnown, TypeOK
  <2>5. \E u \in Thread : pc[u] \in {"wHeld", "rHeld", "wWoken", "pWoken"}
    BY <2>4 DEF IInv, SleepersSafe, WWait
  <2> QED BY <1>0, <1>1, <2>1, <2>2, <2>3, <2>5
        DEF IInv, TypeOK, WriterKnown, WriterAlone, PrioritySafe, SleepersSafe
<1>3. CASE RLockTake(t)
  <2>1. /\ pc' = [pc EXCEPT ![t] = "rHeld"] /\ readerCount' = readerCount + 1
        /\ writerActive # 1
    BY <1>3 DEF RLockTake, ReaderBlocked
  <2>2. pc' \in [Thread -> PC] /\ pc'[t] = "rHeld" /\ \A u \in Thread : u # t => pc'[u] = pc[u]
    BY <1>0, <2>1 DEF PC
  <2>3. Counts'
    BY <1>1, <2>1, <2>2, CountsMove DEF IInv, Counts, WWait, PWait
  <2>4. \A u \in Thread : pc[u] # "wHeld"
    BY <2>1 DEF IInv, WriterKnown
  <2> QED BY <1>0, <1>1, <2>1, <2>2, <2>3, <2>4
        DEF IInv, TypeOK, WriterKnown, WriterAlone, PrioritySafe, SleepersSafe
<1> QED BY <1>2, <1>3 DEF RLock, RLockRetry

\* RLockPriority and its retry (priority_lock.go:74-85).
LEMMA RLockPriorityStep ==
    ASSUME IInv, NEW t \in Thread, RLockPriority(t) \/ RLockPriorityRetry(t)
    PROVE  IInv'
<1>0. pc \in [Thread -> PC] /\ readerCount \in Nat /\ highPriorityReaders \in Nat
  BY DEF IInv, TypeOK
<1>1. ops' \in [Thread -> Nat] /\ pc[t] \in {"idle", "pWoken"}
  BY DEF IInv, TypeOK, RLockPriority, RLockPriorityRetry, Enter
<1>2. CASE RLockPriorityWait(t)
  <2>1. /\ pc' = [pc EXCEPT ![t] = "pAsleep"] /\ writerActive = 1
        /\ UNCHANGED <<readerCount, writerActive, writersWaiting>>
    BY <1>2 DEF RLockPriorityWait
  <2>2. pc' \in [Thread -> PC] /\ pc'[t] = "pAsleep" /\ \A u \in Thread : u # t => pc'[u] = pc[u]
    BY <1>0, <2>1 DEF PC
  <2>3. highPriorityReaders' = IF pc[t] = "idle" THEN highPriorityReaders + 1 ELSE highPriorityReaders
    BY <1>2 DEF RLockPriority, RLockPriorityRetry, Enter, RLockPriorityWait, RLockPriorityTake
  <2>4. Counts'
    BY <1>1, <2>1, <2>2, <2>3, CountsMove DEF IInv, Counts, WWait, PWait
  <2>5. PICK w \in Thread : pc[w] = "wHeld"
    BY <2>1 DEF IInv, WriterKnown
  <2>6. pc'[w] = "wHeld"
    BY <2>5, <2>2, <1>1
  <2> QED BY <1>0, <1>1, <2>1, <2>2, <2>3, <2>4, <2>6
        DEF IInv, TypeOK, WriterKnown, WriterAlone, PrioritySafe, SleepersSafe
<1>3. CASE RLockPriorityTake(t)
  <2>1. /\ pc' = [pc EXCEPT ![t] = "rHeld"] /\ readerCount' = readerCount + 1
        /\ writerActive # 1 /\ UNCHANGED <<writerActive, writersWaiting>>
    BY <1>3 DEF RLockPriorityTake
  <2>2. pc' \in [Thread -> PC] /\ pc'[t] = "rHeld" /\ \A u \in Thread : u # t => pc'[u] = pc[u]
    BY <1>0, <2>1 DEF PC
  <2>3. highPriorityReaders' = IF pc[t] = "idle" THEN highPriorityReaders ELSE highPriorityReaders - 1
    BY <1>3, <2>1 DEF RLockPriority, RLockPriorityRetry, Enter, RLockPriorityWait
  <2>4. Counts'
    BY <1>1, <2>1, <2>2, <2>3, CountsMove DEF IInv, Counts, WWait, PWait
  <2>5. highPriorityReaders' \in Nat
    BY <2>2, <2>4, NumZero DEF Counts
  <2>6. \A u \in Thread : pc[u] # "wHeld"
    BY <2>1 DEF IInv, WriterKnown
  <2> QED BY <1>0, <1>1, <2>1, <2>2, <2>4, <2>5, <2>6
        DEF IInv, TypeOK, WriterKnown, WriterAlone, PrioritySafe, SleepersSafe
<1> QED BY <1>2, <1>3 DEF RLockPriority, RLockPriorityRetry

\* RUnlock (priority_lock.go:88-102), the last reader's and the others'.
LEMMA RUnlockStep ==
    ASSUME IInv, NEW t \in Thread, RUnlock(t)
    PROVE  IInv'
<1> DEFINE p == [pc EXCEPT ![t] = "idle"]
<1>1. /\ pc[t] = "rHeld" /\ readerCount' = readerCount - 1
      /\ pc' \in IF readerCount' = 0 THEN RUnlockWakes(p) ELSE {p}
      /\ UNCHANGED <<ops, writerActive, writersWaiting, highPriorityReaders>>
  BY DEF RUnlock
<1>2. TypeOK /\ p \in [Thread -> PC] /\ p[t] = "idle" /\ \A u \in Thread : u # t => p[u] = pc[u]
  BY DEF IInv, TypeOK, PC
<1>3. /\ \A u \in Thread : pc[u] # "wHeld"
      /\ writerActive # 1
  BY <1>1 DEF IInv, WriterAlone, WriterKnown
<1>4. \A u \in Thread : pc[u] # "pAsleep"
  BY <1>3 DEF IInv, PrioritySafe
<1> HIDE DEF p
<1>5. WakeOnly(p, pc')
  <2>1. WakeOnly(p, p)
    BY <1>2 DEF WakeOnly
  <2> QED BY <2>1, <1>1, <1>2, RUnlockWakesFacts
<1>6. /\ pc' \in [Thread -> PC] /\ pc'[t] = "idle"
      /\ \A u \in Thread : u # t => pc'[u] = pc[u] \/ <<pc[u], pc'[u]>> \in Wakings
  BY <1>2, <1>5 DEF WakeOnly, Wakings
<1>7. Counts'
  BY <1>1, <1>2, <1>6, CountsMove DEF IInv, Counts, WWait, PWait
<1>8. TypeOK'
  BY <1>1, <1>2, <1>6, <1>7, NumZero DEF TypeOK, Counts
<1>9. \A u \in Thread : pc'[u] \notin {"wHeld", "pAsleep"}
  BY <1>3, <1>4, <1>6 DEF Wakings
<1>10. SleepersSafe'
  <2>1. CASE readerCount' = 0
    <3>1. /\ (\E u \in Thread : p[u] = "wAsleep") => \E u \in Thread : pc'[u] = "wWoken"
          /\ \A u \in Thread : pc'[u] # "rAsleep"
      BY <2>1, <1>1, <1>2, RUnlockWakesFacts
    <3>2. \A u \in Thread : pc'[u] = "wAsleep" => p[u] = "wAsleep"
      BY <1>5 DEF WakeOnly, Wakings
    <3> QED BY <3>1, <3>2 DEF SleepersSafe
  <2>2. CASE readerCount' # 0
    <3>1. \E u \in Thread : pc'[u] = "rHeld"
      BY <2>2, <1>6, <1>7, NumZero DEF Counts
    <3> QED BY <3>1 DEF SleepersSafe
  <2> QED BY <2>1, <2>2
<1> QED BY <1>1, <1>3, <1>7, <1>8, <1>9, <1>10 DEF IInv, WriterKnown, WriterAlone, PrioritySafe

\* Every step of every goroutine keeps the inductive invariant.
LEMMA NextIInv == IInv /\ [Next]_vars => IInv'
<1> SUFFICES ASSUME IInv, [Next]_vars PROVE IInv'
  OBVIOUS
<1>1. CASE UNCHANGED vars
  BY <1>1 DEF vars, IInv, TypeOK, Counts, WriterKnown, WriterAlone, PrioritySafe, SleepersSafe, Num
<1>2. CASE Next
  BY <1>1, <1>2, LockStep, UnlockStep, RLockStep, RLockPriorityStep, RUnlockStep
     DEF Next, Retry, Release, Done
<1> QED BY <1>1, <1>2

-----------------------------------------------------------------------------
\* The integers that the code decrements never go below zero: no Unlock, RUnlock or
\* return from a wait finds its counter at zero, for any number of goroutines.
THEOREM LockTypeCorrect == Spec => []TypeOK
<1>1. IInv => TypeOK
  BY DEF IInv
<1> QED BY <1>1, InitIInv, NextIInv, PTL DEF Spec

\* The lock excludes, for any number of goroutines: a holder of the write lock
\* is the only holder, whatever the order of wake-ups, retries and newcomers.
THEOREM LockExcludes == Spec => []MutualExclusion
<1>1. IInv => MutualExclusion
  BY DEF IInv, TypeOK, WriterAlone, MutualExclusion, Holders, Readers, At
<1> QED BY <1>1, InitIInv, NextIInv, PTL DEF Spec

\* No wake-up of the three condition variables is ever lost, for any number of
\* goroutines: no sleeper is left with nobody to wake it.
THEOREM WakeupsReach == Spec => []NoLostWakeup
<1>1. IInv => NoLostWakeup
  BY DEF IInv, PrioritySafe, SleepersSafe, NoLostWakeup, Writers, At
<1> QED BY <1>1, InitIInv, NextIInv, PTL DEF Spec

-----------------------------------------------------------------------------
Roles == [t \in Thread |-> RoleOf(pc[t])]

\* Waking a sleeper changes nothing its caller can see.
LEMMA WakeKeepsRole ==
    ASSUME NEW a, NEW b, a = b \/ <<a, b>> \in Wakings
    PROVE  RoleOf(a) = RoleOf(b)
BY DEF Wakings, RoleOf

\* A thread that moves while the others are at most woken is a step of the
\* abstract lock's role function.
LEMMA RolesMove ==
    ASSUME NEW t \in Thread, pc' \in [Thread -> PC], pc \in [Thread -> PC],
           \A u \in Thread : u # t => pc'[u] = pc[u] \/ <<pc[u], pc'[u]>> \in Wakings
    PROVE  Roles' = [Roles EXCEPT ![t] = RoleOf(pc'[t])]
<1>1. \A u \in Thread : u # t => RoleOf(pc'[u]) = RoleOf(pc[u])
  BY WakeKeepsRole
<1> QED BY <1>1 DEF Roles

\* The roles that matter to the abstract guards, as the program counters say.
LEMMA RoleFacts ==
    ASSUME NEW p \in PC
    PROVE  /\ RoleOf(p) = "writing" <=> p = "wHeld"
           /\ RoleOf(p) = "reading" <=> p = "rHeld"
           /\ RoleOf(p) = "out" <=> p = "idle"
           /\ RoleOf(p) = "wantsWrite" <=> p \in WWait
           /\ RoleOf(p) = "wantsRead" <=> p \in {"pAsleep", "pWoken", "rAsleep", "rWoken"}
BY DEF PC, RoleOf, WWait

\* The calls that take the lock or wait for it (priority_lock.go:24-40, 58-86).
LEMMA CallRefines ==
    ASSUME IInv, NEW t \in Thread,
           \/ Lock(t) \/ LockRetry(t) \/ RLock(t) \/ RLockRetry(t)
           \/ RLockPriority(t) \/ RLockPriorityRetry(t)
    PROVE  \/ Abstract!Ask(t, "wantsRead") \/ Abstract!Ask(t, "wantsWrite")
           \/ Abstract!StartRead(t) \/ Abstract!StartWrite(t) \/ UNCHANGED Roles
<1>1. /\ TypeOK /\ pc \in [Thread -> PC] /\ readerCount \in Nat /\ writerActive \in {0, 1}
  BY DEF IInv, TypeOK
<1>2. writerActive # 1 => \A u \in Thread : RoleOf(pc[u]) # "writing"
  BY <1>1, RoleFacts DEF IInv, WriterKnown
<1>3. readerCount = 0 => \A u \in Thread : RoleOf(pc[u]) # "reading"
  <2>1. readerCount = 0 => \A u \in Thread : pc[u] \notin {"rHeld"}
    BY <1>1, NumZero DEF IInv, Counts
  <2> QED BY <1>1, <2>1, RoleFacts
<1>4. \E a \in PC : pc' = [pc EXCEPT ![t] = a]
  BY DEF Lock, LockRetry, RLock, RLockRetry, RLockPriority, RLockPriorityRetry, LockWait, LockTake,
         RLockWait, RLockTake, RLockPriorityWait, RLockPriorityTake, PC
<1>5. pc' \in [Thread -> PC] /\ Roles' = [Roles EXCEPT ![t] = RoleOf(pc'[t])]
  BY <1>1, <1>4, RolesMove
<1>6. Roles[t] = RoleOf(pc[t]) /\ Roles \in [Thread -> {RoleOf(a) : a \in PC}]
  BY <1>1 DEF Roles
<1>7. CASE LockWait(t) /\ pc[t] \in {"idle", "wWoken"}
  <2>1. RoleOf(pc'[t]) = "wantsWrite"
    BY <1>1, <1>7, RoleFacts DEF LockWait, PC, WWait
  <2>2. CASE pc[t] = "idle"
    BY <2>1, <2>2, <1>1, <1>5, <1>6, RoleFacts DEF Abstract!Ask, Roles
  <2>3. CASE pc[t] = "wWoken"
    <3>1. RoleOf(pc[t]) = "wantsWrite"
      BY <2>3 DEF RoleOf
    <3> QED BY <2>1, <3>1, <1>5, <1>6
  <2> QED BY <1>7, <2>2, <2>3
<1>8. CASE LockTake(t) /\ pc[t] \in {"idle", "wWoken"}
  <2>1. RoleOf(pc'[t]) = "writing" /\ RoleOf(pc[t]) \in {"out", "wantsWrite"}
    BY <1>1, <1>8, RoleFacts DEF LockTake, PC, WWait
  <2>2. \A u \in Thread : RoleOf(pc[u]) \notin {"reading", "writing"}
    BY <1>1, <1>2, <1>3, <1>8 DEF LockTake, WriterBlocked
  <2> QED BY <2>1, <2>2, <1>5 DEF Abstract!StartWrite, Roles
<1>9. CASE (RLockWait(t) /\ pc[t] \in {"idle", "rWoken"}) \/ (RLockPriorityWait(t) /\ pc[t] \in {"idle", "pWoken"})
  <2>1. RoleOf(pc'[t]) = "wantsRead"
    BY <1>1, <1>9, RoleFacts DEF RLockWait, RLockPriorityWait, PC
  <2>2. CASE pc[t] = "idle"
    BY <2>1, <2>2, <1>1, <1>5, <1>6, RoleFacts DEF Abstract!Ask, Roles
  <2>3. CASE pc[t] \in {"rWoken", "pWoken"}
    <3>1. RoleOf(pc[t]) = "wantsRead"
      BY <2>3 DEF RoleOf
    <3> QED BY <2>1, <3>1, <1>5, <1>6
  <2> QED BY <1>9, <2>2, <2>3
<1>10. CASE (RLockTake(t) /\ pc[t] \in {"idle", "rWoken"}) \/ (RLockPriorityTake(t) /\ pc[t] \in {"idle", "pWoken"})
  <2>1. RoleOf(pc'[t]) = "reading" /\ RoleOf(pc[t]) \in {"out", "wantsRead"}
    BY <1>1, <1>10, RoleFacts DEF RLockTake, RLockPriorityTake, PC
  <2>2. \A u \in Thread : RoleOf(pc[u]) # "writing"
    BY <1>1, <1>2, <1>10 DEF RLockTake, RLockPriorityTake, ReaderBlocked
  <2> QED BY <2>1, <2>2, <1>5 DEF Abstract!StartRead, Roles
<1> QED
  BY <1>7, <1>8, <1>9, <1>10
     DEF Lock, LockRetry, RLock, RLockRetry, RLockPriority, RLockPriorityRetry, Enter

\* Unlock and RUnlock end the caller's turn; whom they wake does not show.
LEMMA ReleaseRefines ==
    ASSUME IInv, NEW t \in Thread, Release(t)
    PROVE  Abstract!Finish(t)
<1> DEFINE p == [pc EXCEPT ![t] = "idle"]
<1>1. /\ pc \in [Thread -> PC] /\ pc[t] \in {"rHeld", "wHeld"}
      /\ highPriorityReaders \in Nat /\ writersWaiting \in Nat
      /\ p \in [Thread -> PC] /\ p[t] = "idle" /\ \A u \in Thread : u # t => p[u] = pc[u]
  BY DEF IInv, TypeOK, PC, Release, Unlock, RUnlock
<1>2. pc' \in UnlockWakes(p) \/ pc' \in RUnlockWakes(p) \/ pc' = p
  BY DEF Release, Unlock, RUnlock
<1> HIDE DEF p
<1>3. WakeOnly(p, pc')
  <2>1. WakeOnly(p, p)
    BY <1>1 DEF WakeOnly
  <2> QED BY <2>1, <1>1, <1>2, UnlockWakesFacts, RUnlockWakesFacts
<1>4. /\ pc' \in [Thread -> PC] /\ pc'[t] = "idle"
      /\ \A u \in Thread : u # t => pc'[u] = pc[u] \/ <<pc[u], pc'[u]>> \in Wakings
  BY <1>1, <1>3 DEF WakeOnly, Wakings
<1>5. Roles' = [Roles EXCEPT ![t] = "out"] /\ RoleOf(pc[t]) \in {"reading", "writing"}
  <2>1. Roles' = [Roles EXCEPT ![t] = RoleOf(pc'[t])]
    BY <1>1, <1>4, RolesMove
  <2>2. RoleOf("idle") = "out"
    BY DEF RoleOf
  <2> QED BY <2>1, <2>2, <1>1, <1>4, RoleFacts
<1> QED BY <1>5 DEF Abstract!Finish, Roles

\* priority_lock.go implements the abstract read-write lock, for any number of
\* goroutines and calls: every step under the mutex is a step of RWLock or shows
\* nothing to the callers.
THEOREM LockImplementsRWLock == Spec => Abstract!Safety
<1>1. Init => Abstract!Init
  BY DEF Init, Abstract!Init, RoleOf
<1>2. IInv /\ [Next]_vars => [Abstract!Next]_Roles
  <2> SUFFICES ASSUME IInv, [Next]_vars PROVE Abstract!Next \/ UNCHANGED Roles
    BY DEF Roles
  <2>1. CASE UNCHANGED vars \/ Done
    BY <2>1 DEF vars, Done, Roles
  <2>2. CASE \E t \in Thread : Lock(t) \/ RLock(t) \/ RLockPriority(t) \/ Retry(t)
    BY <2>2, CallRefines DEF Abstract!Next, Retry
  <2>3. CASE \E t \in Thread : Release(t)
    BY <2>3, ReleaseRefines DEF Abstract!Next
  <2> QED BY <2>1, <2>2, <2>3 DEF Next
<1>3. IInv /\ [Next]_vars => [Abstract!Next]_([t \in Thread |-> RoleOf(pc[t])])
  BY <1>2 DEF Roles
<1> QED BY <1>1, <1>3, InitIInv, NextIInv, PTL DEF Spec, Abstract!Safety
=============================================================================
