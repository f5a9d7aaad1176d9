--------------------------- MODULE MC_VfioCapChain ---------------------------
(* Model-checking instance of VfioCapChain.  vfio_region_info is 32 bytes, *)
(* 4 slots.  Kernel replies lay out a chain of up to three capabilities    *)
(* consecutively after it, the last with next = 0; malformed replies have  *)
(* two slots of arbitrary headers whose next may point anywhere, itself or *)
(* past the buffer included.                                               *)
EXTENDS VfioCapChain

BaseSlots == 4

\* The capabilities a reply may carry; "Unknown" is an id this code does
\* not know (a newer kernel's).
CapKinds ==
    {[id |-> "SparseMmap", n |-> 0], [id |-> "SparseMmap", n |-> 1],
     [id |-> "Type", n |-> 0], [id |-> "MsixMappable", n |-> 0],
     [id |-> "Nvlink2Lnkspd", n |-> 0], [id |-> "Unknown", n |-> 0]}

\* The slots the kernel gives a capability: header and nr_areas, then two
\* u64 per area; header and one slot of payload; a bare header; and two
\* slots for the unknown one.
KernelSlots(c) ==
    CASE c.id = "SparseMmap" -> 2 + 2 * c.n
      [] c.id = "MsixMappable" -> 1
      [] OTHER -> 2

\* What a payload slot reads as when taken for a header.
Filler == [id |-> "Unknown", n |-> 0, next |-> 0]

\* The reply buffer the kernel builds for a chain of capabilities.
Layout(ch) ==
    LET off[k \in 1..(Len(ch) + 1)] ==
          IF k = 1 THEN BaseSlots ELSE off[k - 1] + KernelSlots(ch[k - 1])
        hdr(k) == [id |-> ch[k].id, n |-> ch[k].n,
                   next |-> IF k = Len(ch) THEN 0 ELSE off[k + 1]]
        size == off[Len(ch) + 1]
    IN  [argsz |-> size,
         capsFlag |-> Len(ch) > 0,
         capOffset |-> IF Len(ch) > 0 THEN BaseSlots ELSE 0,
         hdr |-> [s \in BaseSlots..(size - 1) |->
                    IF \E k \in 1..Len(ch) : off[k] = s
                    THEN hdr(CHOOSE k \in 1..Len(ch) : off[k] = s)
                    ELSE Filler],
         chain |-> [k \in 1..Len(ch) |-> hdr(k)]]

KernelReplies == {Layout(ch) : ch \in UNION {[1..k -> CapKinds] : k \in 0..3}}

\* The replies the kernel builds are well formed.
ASSUME KernelRepliesWellFormed == \A r \in KernelReplies : WellFormedReply(r)

\* The chain of a reply the kernel builds is the one its headers link.
ASSUME KernelRepliesChained == \A r \in KernelReplies : ChainLaid(r)

\* Arbitrary headers for two slots after the fixed structure.
AnyHeader == [id : {"MsixMappable", "SparseMmap", "Unknown"}, n : {0, 1},
              next : {0, 4, 5, 6}]

MalformedReplies ==
    {[argsz |-> 6, capsFlag |-> TRUE, capOffset |-> o,
      hdr |-> [s \in 4..5 |-> IF s = 4 THEN h4 ELSE h5], chain |-> << >>] :
        o \in {4, 5}, h4 \in AnyHeader, h5 \in AnyHeader}

\* The re-query may fail.
CapFaults == {"RegionInfoCaps"}
=============================================================================
