------------------------------- MODULE RWLock -------------------------------
(***************************************************************************)
(* What a read-write lock promises its callers, with no word on counters,  *)
(* condition variables or who is woken: a call asks for a mode and holds   *)
(* the lock in it once it is compatible with the holders, and nobody who   *)
(* asks while others come and go is passed over for ever.  PriorityRWLock  *)
(* implements it (Refines there).                                          *)
(***************************************************************************)
CONSTANT Thread

VARIABLE role       \* what each thread asks of the lock, or holds

Role == {"out", "wantsRead", "wantsWrite", "reading", "writing"}

Init == role = [t \in Thread |-> "out"]

Ask(t, mode) ==
    /\ role[t] = "out"
    /\ role' = [role EXCEPT ![t] = mode]

\* A call that need not wait goes from "out" to the mode at once.
StartRead(t) ==
    /\ role[t] \in {"out", "wantsRead"}
    /\ \A u \in Thread : role[u] # "writing"
    /\ role' = [role EXCEPT ![t] = "reading"]

StartWrite(t) ==
    /\ role[t] \in {"out", "wantsWrite"}
    /\ \A u \in Thread : role[u] \notin {"reading", "writing"}
    /\ role' = [role EXCEPT ![t] = "writing"]

Finish(t) ==
    /\ role[t] \in {"reading", "writing"}
    /\ role' = [role EXCEPT ![t] = "out"]

Next ==
    \E t \in Thread :
        \/ \E mode \in {"wantsRead", "wantsWrite"} : Ask(t, mode)
        \/ StartRead(t) \/ StartWrite(t) \/ Finish(t)

Safety == Init /\ [][Next]_role

Grant(t) == role[t] # "out" /\ (StartRead(t) \/ StartWrite(t))

Spec ==
    /\ Safety
    /\ \A t \in Thread : SF_role(Grant(t)) /\ WF_role(Finish(t))
=============================================================================
