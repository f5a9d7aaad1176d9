\* Three IRQ indices, counts 0..2, up to 3 fds; every query and request may fail.
CONSTANTS
    NumIrqs = 3
    MaxCount = 2
    MaxFds = 3
    Faults <- IrqFaults
SPECIFICATION Spec
INVARIANT TypeOK
INVARIANT SetIrqsInRange
INVARIANT MaxInterruptsCorrect
