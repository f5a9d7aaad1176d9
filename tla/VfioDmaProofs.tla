--------------------------- MODULE VfioDmaProofs ---------------------------
(***************************************************************************)
(* Proofs about the DMA mappings of VfioContainer, for every sequence of   *)
(* guest memory regions and every set of failing calls.  AllOrNothingOk    *)
(* is inductive together with TypeOK: the whole-memory calls return Ok     *)
(* only after a pass over every region, whose prefix is then all of        *)
(* Regions, and TypeOK bounds mapped within Regions.                       *)
(***************************************************************************)
EXTENDS VfioDma, TLAPS

\* The inductive invariant.
IInv == TypeOK /\ AllOrNothingOk

\* Every prefix of guest memory is a set of its regions, and the prefix
\* before the position past the last region is all of them.
LEMMA PrefixFacts ==
    ASSUME NEW k \in 1..(Len(Memory) + 1)
    PROVE  /\ Prefix(k) \subseteq Regions
           /\ k > Len(Memory) => Prefix(k) = Regions
    BY DmaConstants DEF Prefix, Regions

LEMMA InitIInv == Init => IInv
<1>. SUFFICES ASSUME Init PROVE IInv
    OBVIOUS
<1>1. mapped \subseteq Regions
    BY DEF Init
<1>2. last \in [op : {"none", "map", "unmap", "mapAll", "unmapAll"},
                ok : BOOLEAN]
    BY DEF Init
<1>3. AllOrNothingOk
    BY DEF Init, AllOrNothingOk
<1>. QED
    BY <1>1, <1>2, <1>3 DEF Init, IInv, TypeOK

\* The single calls set last to a map or unmap and keep mapped in Regions.
LEMMA SingleStep ==
    ASSUME IInv, NEW r \in Regions, DmaMap(r) \/ DmaUnmap(r)
    PROVE  IInv'
<1>1. /\ mapped' \subseteq Regions
      /\ last' \in [op : {"map", "unmap"}, ok : BOOLEAN]
      /\ recovering' = recovering
  <2>1. CASE DmaMap(r)
    <3>1. CASE MapOk(r) /\ mapped' = mapped \cup {r}
                 /\ last' = [op |-> "map", ok |-> TRUE]
      BY <2>1, <3>1 DEF IInv, TypeOK, DmaMap
    <3>2. CASE MapFails(r) /\ last' = [op |-> "map", ok |-> FALSE]
                 /\ UNCHANGED mapped
      BY <2>1, <3>2 DEF IInv, TypeOK, DmaMap
    <3>. QED
      BY <2>1, <3>1, <3>2 DEF DmaMap
  <2>2. CASE DmaUnmap(r)
    <3>1. CASE UnmapOk(r) /\ mapped' = mapped \ {r}
                 /\ last' = [op |-> "unmap", ok |-> TRUE]
      BY <2>2, <3>1 DEF IInv, TypeOK, DmaUnmap
    <3>2. CASE UnmapFails(r) /\ last' = [op |-> "unmap", ok |-> FALSE]
                 /\ UNCHANGED mapped
      BY <2>2, <3>2 DEF IInv, TypeOK, DmaUnmap
    <3>. QED
      BY <2>2, <3>1, <3>2 DEF DmaUnmap
  <2>. QED
    BY <2>1, <2>2
<1>. QED
    BY <1>1 DEF IInv, TypeOK, AllOrNothingOk

\* vfio_map_guest_memory returns Ok only after mapping every region.
LEMMA MapAllStep ==
    ASSUME IInv, MapAll
    PROVE  IInv'
<1>1. PICK k \in 1..(Len(Memory) + 1) :
          /\ mapped' = mapped \cup Prefix(k)
          /\ last' = [op |-> "mapAll", ok |-> k > Len(Memory)]
          /\ recovering' = (k <= Len(Memory))
    BY DEF MapAll
<1>2. TypeOK'
    BY <1>1, PrefixFacts DEF IInv, TypeOK
<1>3. last'.ok => mapped' = Regions
    BY <1>1, PrefixFacts DEF IInv, TypeOK
<1>. QED
    BY <1>1, <1>2, <1>3 DEF IInv, AllOrNothingOk

\* vfio_unmap_guest_memory returns Ok only after unmapping every region.
LEMMA UnmapAllStep ==
    ASSUME IInv, UnmapAll
    PROVE  IInv'
<1>1. PICK k \in 1..(Len(Memory) + 1) :
          /\ mapped' = mapped \ Prefix(k)
          /\ last' = [op |-> "unmapAll", ok |-> k > Len(Memory)]
          /\ recovering' = (recovering /\ k <= Len(Memory))
    BY DEF UnmapAll
<1>2. TypeOK'
    BY <1>1 DEF IInv, TypeOK
<1>3. last'.ok => mapped' = {}
    BY <1>1, PrefixFacts DEF IInv, TypeOK
<1>. QED
    BY <1>1, <1>2, <1>3 DEF IInv, AllOrNothingOk

LEMMA NextIInv == IInv /\ [Next]_vars => IInv'
<1>. SUFFICES ASSUME IInv, [Next]_vars PROVE IInv'
    OBVIOUS
<1>1. CASE MapAll
    BY <1>1, MapAllStep
<1>2. CASE UnmapAll
    BY <1>2, UnmapAllStep
<1>3. CASE \E r \in Regions : DmaMap(r) \/ DmaUnmap(r)
    BY <1>3, SingleStep
<1>4. CASE UNCHANGED vars
    BY <1>4 DEF IInv, TypeOK, AllOrNothingOk, vars
<1>. QED
    BY <1>1, <1>2, <1>3, <1>4 DEF Next

\* Every state of the DMA model is typed: mapped stays within guest memory.
THEOREM DmaTypeCorrect == Spec => []TypeOK
<1>1. IInv => TypeOK
    BY DEF IInv
<1>. QED
    BY <1>1, InitIInv, NextIInv, PTL DEF Spec

\* Whatever calls and failures came before, an Ok from
\* vfio_map_guest_memory leaves all guest memory mapped and an Ok from
\* vfio_unmap_guest_memory none of it.
THEOREM AllOrNothingOkThm == Spec => []AllOrNothingOk
<1>1. IInv => AllOrNothingOk
    BY DEF IInv
<1>. QED
    BY <1>1, InitIInv, NextIInv, PTL DEF Spec

=============================================================================
