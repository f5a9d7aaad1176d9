\* Kernel-built chains of up to three capabilities; the re-query may fail. get_region_map returns, so the walk stops.
CONSTANTS
    Base <- BaseSlots
    Inputs <- KernelReplies
    Headers <- AnyHeader
    MaxIter = 4
    Faults <- CapFaults
SPECIFICATION Spec
CHECK_DEADLOCK FALSE
INVARIANT TypeOK
INVARIANT DecodedCaps
INVARIANT ReadsInBuffer
PROPERTY Terminates
PROPERTY ImplementsCapDecode
