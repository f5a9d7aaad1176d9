---------------------------- MODULE MC_VfioRegion ----------------------------
(* Model-checking instance of VfioRegion: the eight PCI regions get_device *)
(* requires (BAR0..BAR5, ROM, CONFIG) and 7-bit arithmetic.  vfio-pci puts *)
(* region i at i << 40 in the device file, far below 2^64; here region i  *)
(* starts at 8 * i, so all regions lie in the lower half of 0..127 and     *)
(* only a request offset near 2^7 can wrap, as only one near 2^64 can.     *)
EXTENDS VfioRegion

\* BAR0 (mmap-able with a sparse-mmap capability) and BAR1 are writable
\* memory BARs, BAR2..BAR5 are absent (size 0), the ROM is read-only and
\* config space is writable.
RegionSizes == <<8, 4, 0, 0, 0, 0, 4, 8>>

KTable ==
    [i \in 0..7 |->
       [size |-> RegionSizes[i + 1],
        offset |-> i * 8,
        writable |-> i \in {0, 1, 7},
        caps |-> IF i = 0 THEN <<"SparseMmap">> ELSE << >>]]
\* Request offsets: every offset up to one past the largest region size
\* (so that offset + len meets and passes each region's end) and the
\* offsets within MaxLen of 2^7 (so that offset + len wraps).
RequestAddrs == (0..9) \cup (125..127)

\* The tables checked satisfy the layout the proofs assume.
ASSUME TableFits == KernelRegionsFit
=============================================================================
