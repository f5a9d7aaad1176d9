CONSTANTS
    m1 = m1
    m2 = m2
    m3 = m3
    m4 = m4
    Memory <- GuestMemory
    Faults <- DmaFaults
SPECIFICATION Spec
INVARIANTS AllOrNothingOk
