-------------------------- MODULE MCPriorityRWLock --------------------------
(* Four goroutines that call the lock up to MaxOps times, in any mix.      *)
EXTENDS PriorityRWLock, TLC

CONSTANTS t1, t2, t3, t4

MCThread == {t1, t2, t3, t4}
=============================================================================
