\* Eight regions; only the queries of BAR0 may fail.
CONSTANTS
    NumRegions = 8
    KRegion <- KTable
    AddrBits = 7
    MaxLen = 2
    Addrs <- RequestAddrs
    FaultyRegions = {0}
SPECIFICATION Spec
INVARIANT RegionIndexFaithful
