------------------------------ MODULE VfioDma ------------------------------
(***************************************************************************)
(* IOMMU mappings of a VfioContainer (vfio_device.rs): vfio_dma_map and    *)
(* vfio_dma_unmap of one range, and vfio_map_guest_memory /                *)
(* vfio_unmap_guest_memory, which call them for every region of guest     *)
(* memory in order and stop at the first error (try_for_each).            *)
(*                                                                         *)
(* Guest memory regions are disjoint ranges, each a model value.  The     *)
(* kernel's type1 IOMMU refuses to map a range that overlaps a mapping     *)
(* (EEXIST), and VFIO_IOMMU_UNMAP_DMA of a range with nothing mapped       *)
(* succeeds and reports 0 bytes unmapped.                                  *)
(*                                                                         *)
(* The caller follows the recovery spec section 4.1 prescribes: after     *)
(* map_all fails it retries unmap_all until that returns Ok.              *)
(***************************************************************************)
EXTENDS Naturals, Sequences

CONSTANTS
    Memory,     \* the guest memory regions, in the order mem.iter() yields
    Faults      \* kernel calls that may fail: "MapDma", "UnmapDma"

ASSUME DmaConstants ==
    /\ Len(Memory) \in Nat
    /\ \A j, k \in 1..Len(Memory) : j # k => Memory[j] # Memory[k]
    /\ Faults \subseteq {"MapDma", "UnmapDma"}

Regions == {Memory[k] : k \in 1..Len(Memory)}

VARIABLES
    mapped,     \* ranges with an IOMMU translation in the container
    last,       \* the last call and whether it returned Ok
    recovering  \* map_all failed and unmap_all has not yet returned Ok

vars == <<mapped, last, recovering>>

Init ==
    /\ mapped = {}
    /\ last = [op |-> "none", ok |-> TRUE]
    /\ recovering = FALSE

\* vfio_dma_map: VFIO_IOMMU_MAP_DMA; a non-zero status is IommuDmaMap
\* (EEXIST over an existing mapping; "MapDma" also stands for the other
\* errors, and for get_host_address failing before the call).
MapOk(r) == r \notin mapped
MapFails(r) == r \in mapped \/ "MapDma" \in Faults

\* vfio_dma_unmap: VFIO_IOMMU_UNMAP_DMA; a non-zero status, or a size
\* reported back that differs from the size asked (0 when nothing was
\* mapped there), is IommuDmaUnmap.
UnmapOk(r) == r \in mapped
UnmapFails(r) == r \notin mapped \/ "UnmapDma" \in Faults

\* vfio_dma_map of one region, called directly.
DmaMap(r) ==
    /\ ~recovering
    /\ \/ /\ MapOk(r)
          /\ mapped' = mapped \cup {r}
          /\ last' = [op |-> "map", ok |-> TRUE]
       \/ /\ MapFails(r)
          /\ last' = [op |-> "map", ok |-> FALSE]
          /\ UNCHANGED mapped
    /\ UNCHANGED recovering

\* vfio_dma_unmap of one region, called directly.
DmaUnmap(r) ==
    /\ ~recovering
    /\ \/ /\ UnmapOk(r)
          /\ mapped' = mapped \ {r}
          /\ last' = [op |-> "unmap", ok |-> TRUE]
       \/ /\ UnmapFails(r)
          /\ last' = [op |-> "unmap", ok |-> FALSE]
          /\ UNCHANGED mapped
    /\ UNCHANGED recovering

\* Mutant: the prefix left mapped misses the last region before k.
PrefixShort(k) == {Memory[j] : j \in 1..(k - 2)}

\* The regions before position k.
Prefix(k) == {Memory[j] : j \in 1..(k - 1)}

\* vfio_map_guest_memory: map the regions in order; the call at position
\* k is the first to fail (k = Len(Memory) + 1 when none fails), and the
\* regions before it stay mapped.
MapAll ==
    /\ ~recovering
    /\ \E k \in 1..(Len(Memory) + 1) :
         /\ \A j \in 1..(k - 1) : MapOk(Memory[j])
         /\ k <= Len(Memory) => MapFails(Memory[k])
         /\ mapped' = mapped \cup Prefix(k)
         /\ last' = [op |-> "mapAll", ok |-> k > Len(Memory)]
         /\ recovering' = (k <= Len(Memory))

\* vfio_unmap_guest_memory: unmap the regions in order, stopping at the
\* first failure; the caller retries it while recovering.
UnmapAll ==
    /\ \E k \in 1..(Len(Memory) + 1) :
         /\ \A j \in 1..(k - 1) : UnmapOk(Memory[j])
         /\ k <= Len(Memory) => UnmapFails(Memory[k])
         /\ mapped' = mapped \ Prefix(k)
         /\ last' = [op |-> "unmapAll", ok |-> k > Len(Memory)]
         /\ recovering' = (recovering /\ k <= Len(Memory))

Next ==
    \/ MapAll
    \/ UnmapAll
    \/ \E r \in Regions : DmaMap(r) \/ DmaUnmap(r)

\* The caller keeps calling: a retry of unmap_all is not postponed forever.
Spec == Init /\ [][Next]_vars /\ WF_vars(UnmapAll)

-----------------------------------------------------------------------------
(* Properties *)

\* Every variable has its type.
TypeOK ==
    /\ mapped \subseteq Regions
    /\ last \in [op : {"none", "map", "unmap", "mapAll", "unmapAll"},
                 ok : BOOLEAN]
    /\ recovering \in BOOLEAN

\* Whatever mix of single maps, unmaps and failures came before, an Ok from
\* vfio_map_guest_memory means all guest memory is mapped, and an Ok from
\* vfio_unmap_guest_memory that none of it is.
AllOrNothingOk ==
    /\ last.op = "mapAll" /\ last.ok => mapped = Regions
    /\ last.op = "unmapAll" /\ last.ok => mapped = {}

\* After a failed map_all, the recovery spec section 4.1 prescribes
\* (retry unmap_all) eventually succeeds.
RecoveryEnds == [](recovering => <>~recovering)

=============================================================================
