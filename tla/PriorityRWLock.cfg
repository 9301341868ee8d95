SPECIFICATION Spec
CONSTANTS
    t1 = t1
    t2 = t2
    t3 = t3
    t4 = t4
    Thread <- MCThread
    MaxOps = 2
INVARIANTS TypeOK MutualExclusion NoLostWakeup
PROPERTIES EveryCallReturns Refines
