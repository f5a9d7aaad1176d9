\* Malformed replies of two header slots. get_region_map returns, so the walk stops.
CONSTANTS
    Base <- BaseSlots
    Inputs <- MalformedReplies
    Headers <- AnyHeader
    MaxIter = 4
    Faults = {}
SPECIFICATION Spec
CHECK_DEADLOCK FALSE
INVARIANT ReadsInBuffer
