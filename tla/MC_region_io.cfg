\* Eight regions of 7-bit arithmetic; BAR0 and BAR1 queries may fail.
CONSTANTS
    NumRegions = 8
    KRegion <- KTable
    AddrBits = 7
    MaxLen = 2
    Addrs <- RequestAddrs
    FaultyRegions = {0, 1}
SPECIFICATION Spec
INVARIANT TypeOK
INVARIANT BoundaryServed
INVARIANT NoWrapAccessInRegion
