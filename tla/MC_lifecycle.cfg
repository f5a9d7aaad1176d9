\* Three threads, two groups; all faults but a failed unbind in put_group.
CONSTANTS
    t1 = t1
    t2 = t2
    t3 = t3
    g1 = g1
    g2 = g2
    NoGroup = NoGroup
    Threads = {t1, t2, t3}
    GroupIds = {g1, g2}
    Faults <- FaultsButUnset
SYMMETRY Symmetry
SPECIFICATION Spec
INVARIANT TypeOK
INVARIANT RefCountExact
INVARIANT ContainerConsistent
INVARIANT DeviceGroupAttached
PROPERTY ImplementsRegistry
