\* Eight regions of 7-bit arithmetic; no query fails.
CONSTANTS
    NumRegions = 8
    KRegion <- KTable
    AddrBits = 7
    MaxLen = 2
    Addrs <- RequestAddrs
    FaultyRegions = {}
SPECIFICATION Spec
INVARIANT AccessInRegion
