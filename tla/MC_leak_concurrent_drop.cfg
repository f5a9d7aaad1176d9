\* Two threads, one group, no kernel call fails.
CONSTANTS
    t1 = t1
    t2 = t2
    t3 = t3
    g1 = g1
    g2 = g2
    NoGroup = NoGroup
    Threads = {t1, t2}
    GroupIds = {g1}
    Faults = {}
SPECIFICATION Spec
INVARIANT NoLeakWhenQuiescent
