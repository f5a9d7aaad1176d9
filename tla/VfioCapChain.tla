---------------------------- MODULE VfioCapChain ----------------------------
(***************************************************************************)
(* The capability-chain decoder of VfioDeviceInfo::get_region_map          *)
(* (vfio_device.rs): decide whether the region has capabilities, re-query  *)
(* VFIO_DEVICE_GET_REGION_INFO with a buffer of argsz bytes, then walk     *)
(* the chain of vfio_info_cap_header records from cap_offset, decoding     *)
(* the known capability ids and following `next` until it falls below the *)
(* size of vfio_region_info.                                               *)
(*                                                                         *)
(* Offsets are counted in 8-byte slots: the kernel aligns capabilities to  *)
(* 8 bytes, a header is one slot, vfio_region_info is Base slots.  A reply *)
(* buffer is a record: its argsz, whether VFIO_REGION_INFO_FLAG_CAPS is    *)
(* set, the cap_offset of the re-query and the header found at each slot.  *)
(***************************************************************************)
EXTENDS Integers, Sequences

CONSTANTS
    Base,       \* size of vfio_region_info, in slots
    Inputs,     \* the reply buffers the kernel may return
    Headers,    \* every header a read may return
    MaxIter,    \* model bound on the iterations of the walk (none in code)
    Faults      \* {"RegionInfoCaps"} when the re-query may fail

\* A vfio_info_cap_header as the walk reads it: its id, the nr_areas of a
\* sparse-mmap capability, and the next offset.
HeaderRec == [id : STRING, n : Nat, next : Nat]

ASSUME CapChainConstants ==
    /\ Base \in Nat \ {0}
    /\ MaxIter \in Nat
    /\ Faults \subseteq {"RegionInfoCaps"}
    /\ Headers \subseteq HeaderRec
    /\ \A r \in Inputs :
          /\ r.argsz \in Nat /\ r.capsFlag \in BOOLEAN /\ r.capOffset \in Nat
          /\ r.hdr \in [Base..(r.argsz - 1) -> HeaderRec]

\* The capability ids get_region_map decodes (VFIO_REGION_INFO_CAP_*).
KnownIds == {"SparseMmap", "Type", "MsixMappable", "Nvlink2Ssatgt",
             "Nvlink2Lnkspd"}

\* Mutant: the sparse-mmap areas slice is taken one area too long.
ReadSlotsAreasPlusOne(h) ==
    CASE h.id = "SparseMmap" -> 2 + 2 * (h.n + 1)
      [] h.id \in {"Type", "Nvlink2Ssatgt", "Nvlink2Lnkspd"} -> 2
      [] OTHER -> 1

\* The slots the walk reads at a header: the header, plus the structure of
\* its id (vfio_region_info_cap_sparse_mmap carries nr_areas and then
\* nr_areas areas of two u64, the type and nvlink2 structures one slot
\* more).
ReadSlots(h) ==
    CASE h.id = "SparseMmap" -> 2 + 2 * h.n
      [] h.id \in {"Type", "Nvlink2Ssatgt", "Nvlink2Lnkspd"} -> 2
      [] OTHER -> 1

\* Mutant: the sparse-mmap areas are dropped.
DecodeNoAreas(h) == [id |-> h.id, areas |-> 0]

\* The VfioRegionInfoCap pushed for a known header.
Decode(h) == [id |-> h.id, areas |-> IF h.id = "SparseMmap" THEN h.n ELSE 0]

VARIABLES
    in,     \* the kernel's reply buffer
    pc,     \* "query", "walk", "done" (Ok) or "failed" (Err)
    next,   \* next_cap_offset
    caps,   \* region.caps
    iter,   \* iterations of the walk so far
    oob     \* some read went past the argsz bytes of the buffer

vars == <<in, pc, next, caps, iter, oob>>

Init ==
    /\ in \in Inputs
    /\ pc = "query"
    /\ next = 0
    /\ caps = << >>
    /\ iter = 0
    /\ oob = FALSE

\* Mutant: the walk starts only past cap_offset == size of
\* vfio_region_info (> for >=).
QueryOffsetStrict ==
    /\ pc = "query"
    /\ \/ /\ ~in.capsFlag \/ in.argsz <= Base
          /\ pc' = "done"
          /\ UNCHANGED next
       \/ /\ in.capsFlag /\ in.argsz > Base
          /\ "RegionInfoCaps" \in Faults
          /\ pc' = "failed"
          /\ UNCHANGED next
       \/ /\ in.capsFlag /\ in.argsz > Base
          /\ pc' = IF in.capOffset > Base THEN "walk" ELSE "done"
          /\ next' = in.capOffset
    /\ UNCHANGED <<in, caps, iter, oob>>

\* The start of get_region_map: no capabilities when the CAPS flag is
\* clear or argsz leaves no room; else the re-query, which may fail; then
\* a walk only when cap_offset >= size of vfio_region_info.
Query ==
    /\ pc = "query"
    /\ \/ /\ ~in.capsFlag \/ in.argsz <= Base
          /\ pc' = "done"
          /\ UNCHANGED next
       \/ /\ in.capsFlag /\ in.argsz > Base
          /\ "RegionInfoCaps" \in Faults
          /\ pc' = "failed"
          /\ UNCHANGED next
       \/ /\ in.capsFlag /\ in.argsz > Base
          /\ pc' = IF in.capOffset >= Base THEN "walk" ELSE "done"
          /\ next' = in.capOffset
    /\ UNCHANGED <<in, caps, iter, oob>>

\* The header at slot `off`: the buffer's below argsz; past it the read is
\* undefined behaviour and may return any header.
HeaderAt(off) == IF off < in.argsz THEN {in.hdr[off]} ELSE Headers

\* Mutant: the loop never advances next_cap_offset.
StepNoAdvance ==
    /\ pc = "walk"
    /\ iter < MaxIter
    /\ \E h \in HeaderAt(next) :
         /\ oob' = (oob \/ next + ReadSlots(h) > in.argsz)
         /\ caps' = IF h.id \in KnownIds THEN Append(caps, Decode(h)) ELSE caps
    /\ iter' = iter + 1
    /\ UNCHANGED <<in, pc, next>>

\* Mutant: unknown ids are decoded too.
StepPushUnknown ==
    /\ pc = "walk"
    /\ iter < MaxIter
    /\ \E h \in HeaderAt(next) :
         /\ oob' = (oob \/ next + ReadSlots(h) > in.argsz)
         /\ caps' = Append(caps, Decode(h))
         /\ next' = h.next
         /\ pc' = IF h.next >= Base THEN "walk" ELSE "done"
    /\ iter' = iter + 1
    /\ UNCHANGED in

\* One iteration of `while next_cap_offset >= region_info_size`: read the
\* header, decode a known id into region.caps (unknown ids are skipped),
\* follow `next`.  The code's loop has no bound: iter < MaxIter is the
\* model's, there only so that a malformed reply whose chain cycles gives
\* a finite run; on a kernel-laid chain the walk ends before it binds
\* (WalkWithinChainThm).
Step ==
    /\ pc = "walk"
    /\ iter < MaxIter
    /\ \E h \in HeaderAt(next) :
         /\ oob' = (oob \/ next + ReadSlots(h) > in.argsz)
         /\ caps' = IF h.id \in KnownIds THEN Append(caps, Decode(h)) ELSE caps
         /\ next' = h.next
         /\ pc' = IF h.next >= Base THEN "walk" ELSE "done"
    /\ iter' = iter + 1
    /\ UNCHANGED in

Next == Query \/ Step

\* get_region_map runs on one thread and never blocks between steps.
Spec == Init /\ [][Next]_vars /\ WF_vars(Next)

-----------------------------------------------------------------------------
(* Properties *)

\* Every variable has its type; region.caps holds only decoded known ids.
TypeOK ==
    /\ in \in Inputs
    /\ pc \in {"query", "walk", "done", "failed"}
    /\ next \in Nat
    /\ caps \in Seq([id : KnownIds, areas : Nat])
    /\ iter \in Nat
    /\ oob \in BOOLEAN

\* The positions of chain[1..j] whose capability id get_region_map knows.
KnownUpTo(chain, j) == {k \in 1..j : chain[k].id \in KnownIds}

\* The VfioRegionInfoCap the kernel's capability stands for.
CapRecord(h) == [id |-> h.id, areas |-> IF h.id = "SparseMmap" THEN h.n ELSE 0]

\* s is chain[1..j] decoded in order, unknown ids skipped: f enumerates
\* the known positions of chain[1..j] in increasing order, and entry i of
\* s is the capability at position f[i].
DecodedPrefix(s, chain, j) ==
    \E f \in [1..Len(s) -> 1..j] :
        /\ \A a, b \in 1..Len(s) : a < b => f[a] < f[b]
        /\ {f[i] : i \in 1..Len(s)} = KnownUpTo(chain, j)
        /\ \A i \in 1..Len(s) : s[i] = CapRecord(chain[f[i]])

\* When get_region_map returns Ok on a buffer with capabilities at
\* cap_offset, region.caps is the kernel's chain decoded in order.
DecodedCaps ==
    pc = "done" /\ in.capsFlag /\ in.argsz > Base /\ in.capOffset >= Base
        => DecodedPrefix(caps, in.chain, Len(in.chain))

\* The walk never reads past the argsz bytes of the reply buffer (spec:
\* the walk must never read past the buffer allocated for the hinted
\* size).
ReadsInBuffer == ~oob

\* The slots of the structure the kernel lays out for a header (uapi
\* vfio.h): a sparse-mmap capability holds nr_areas areas of two u64 after
\* its header and count, the type and nvlink2 ones one slot of payload, and
\* any other capability at least its header.
CapSlots(h) ==
    CASE h.id = "SparseMmap" -> 2 + 2 * h.n
      [] h.id \in {"Type", "Nvlink2Ssatgt", "Nvlink2Lnkspd"} -> 2
      [] OTHER -> 1

\* A reply laid out the way the kernel builds it: a walk that starts at
\* cap_offset and follows next stays on the buffer's slots, and the
\* structure at each slot ends within argsz.
WellFormedReply(r) ==
    /\ r.capsFlag /\ r.argsz > Base /\ r.capOffset >= Base
          => r.capOffset < r.argsz
    /\ \A s \in Base..(r.argsz - 1) :
          /\ s + CapSlots(r.hdr[s]) <= r.argsz
          /\ r.hdr[s].next >= Base => r.hdr[s].next < r.argsz

\* The reply's chain is what a walk of its headers meets: the header at
\* cap_offset is chain[1], the next of each but the last is at least the
\* size of vfio_region_info and leads to the following one, and the last
\* ends the chain.
ChainLaid(r) ==
    r.capsFlag /\ r.argsz > Base /\ r.capOffset >= Base =>
        /\ r.chain \in Seq(HeaderRec) /\ Len(r.chain) > 0
        /\ r.hdr[r.capOffset] = r.chain[1]
        /\ \A k \in 1..(Len(r.chain) - 1) :
              r.chain[k].next >= Base /\ r.hdr[r.chain[k].next] = r.chain[k + 1]
        /\ r.chain[Len(r.chain)].next < Base

-----------------------------------------------------------------------------
(* Refinement of the abstract call *)

\* get_region_map has not returned while the walk runs: the caller sees
\* neither the walk nor the region's partial list of capabilities.
CallPc == IF pc = "walk" THEN "query" ELSE pc
CallCaps == IF pc = "walk" THEN << >> ELSE caps

Decoder == INSTANCE CapDecode WITH pc <- CallPc, caps <- CallCaps

\* get_region_map implements the atomic call: Ok with no capabilities
\* exactly when the reply has none, Err only from a failed re-query of a
\* reply with the CAPS flag, and otherwise Ok with the chain decoded; every
\* iteration of the walk but the last is invisible to the caller.
ImplementsCapDecode == Decoder!DecSpec

\* get_region_map returns: the walk ends (spec: it terminates within the
\* number of capability entries present).
Terminates == <>(pc \in {"done", "failed"})

=============================================================================
