\* Three threads, two groups; every kernel call on the lifecycle paths may fail.
CONSTANTS
    t1 = t1
    t2 = t2
    t3 = t3
    g1 = g1
    g2 = g2
    NoGroup = NoGroup
    Threads = {t1, t2, t3}
    GroupIds = {g1, g2}
    Faults <- AllFaults
SYMMETRY Symmetry
SPECIFICATION Spec
INVARIANT ContainerConsistent
