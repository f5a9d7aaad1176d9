---------------------------- MODULE MC_VfioDma ----------------------------
EXTENDS VfioDma

CONSTANTS m1, m2, m3, m4

\* Four guest memory regions, in the order mem.iter() yields them.
GuestMemory == <<m1, m2, m3, m4>>

DmaFaults == {"MapDma", "UnmapDma"}

=============================================================================
