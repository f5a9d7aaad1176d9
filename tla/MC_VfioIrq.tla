----------------------------- MODULE MC_VfioIrq -----------------------------
(* Model-checking instance of VfioIrq: the three PCI interrupt indices,    *)
(* counts up to 2 and up to 3 event fds, so that a caller can pass more    *)
(* fds than an index has vectors and a vector one past the count.         *)
EXTENDS VfioIrq

\* Both the IRQ-info queries and the SET_IRQS requests may fail.
IrqFaults == {"GetIrqInfo", "SetIrqs"}
=============================================================================
