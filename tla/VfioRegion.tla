----------------------------- MODULE VfioRegion -----------------------------
(***************************************************************************)
(* The memory regions of a VfioDevice (vfio_device.rs):                    *)
(* VfioDeviceInfo::get_regions, run once by VfioDevice::new, queries every *)
(* region index and pushes one VfioRegion per successful query onto the    *)
(* device's Vec; region_read and region_write then pick regions[index],    *)
(* check the request against the region's size (and, for writes, its      *)
(* WRITE flag) in u64 arithmetic, and do a positioned transfer at          *)
(* region.offset + addr in the device file.                                *)
(*                                                                         *)
(* The kernel's region table is the constant KRegion.  u64 arithmetic is   *)
(* modelled with AddrBits bits: every sum the code computes is taken       *)
(* modulo 2^AddrBits, so a request can wrap the way it does at 2^64.       *)
(***************************************************************************)
EXTENDS Integers, Sequences, FiniteSets

CONSTANTS
    NumRegions,     \* num_regions reported by VFIO_DEVICE_GET_INFO
    KRegion,        \* KRegion[i]: the kernel's info on region i
    AddrBits,       \* width of the u64 arithmetic
    MaxLen,         \* longest buffer a caller passes
    Addrs,          \* the request offsets callers pass
    FaultyRegions   \* region indices whose info queries may fail

Indices == 0..(NumRegions - 1)

\* VFIO_PCI_CONFIG_REGION_INDEX: get_device requires num_regions > 7.
CONFIG_INDEX == 7

ASSUME RegionConstants ==
    /\ NumRegions \in Nat /\ NumRegions >= CONFIG_INDEX + 1
    /\ AddrBits \in Nat \ {0} /\ MaxLen \in Nat
    /\ KRegion \in [Indices -> [size : Nat, offset : Nat, writable : BOOLEAN,
                                caps : Seq(STRING)]]
    /\ FaultyRegions \subseteq Indices
    /\ Addrs \subseteq 0..(2^AddrBits - 1)

\* u64 values and the wrapping sum the code computes with `+`.
Limit == 2^AddrBits

Wrap(x) == x % Limit

\* The kernel lays every region out within the u64 offsets of the device
\* file: vfio-pci puts region i at i << 40, and no region is 2^24 TiB long.
KernelRegionsFit ==
    \A i \in Indices : KRegion[i].offset + KRegion[i].size < Limit

VARIABLES
    discovered, \* get_regions has run (the VfioDevice exists)
    regions,    \* the device's regions: Vec<VfioRegion>
    last        \* the last region_read / region_write call and its transfer

vars == <<discovered, regions, last>>

NoCall == [op |-> "none", index |-> 0, addr |-> 0, len |-> 0,
           issued |-> FALSE, foff |-> 0]

Init ==
    /\ discovered = FALSE
    /\ regions = << >>
    /\ last = NoCall

\* The VfioRegion built from a successful query: flags, size and offset as
\* the kernel reports them, and the decoded capability chain when the
\* kernel flags one (get_region_map).
RegionOf(i) ==
    [size |-> KRegion[i].size, offset |-> KRegion[i].offset,
     writable |-> KRegion[i].writable, caps |-> KRegion[i].caps]

\* The k-th region get_regions pushes (k = 1, 2, ...): the loop visits the
\* indices in increasing order and pushes the regions it keeps, so the k-th
\* push is of the kept index with k - 1 kept indices below it.
Pushed(kept, k) == CHOOSE j \in kept : Cardinality({x \in kept : x < j}) = k - 1

\* get_regions: a region whose VFIO_DEVICE_GET_REGION_INFO fails, or whose
\* capability re-query in get_region_map fails, is logged and skipped; the
\* others are pushed in index order.
GetRegions ==
    /\ ~discovered
    /\ \E infoFailed \in SUBSET FaultyRegions,
          capFailed \in SUBSET {i \in FaultyRegions : KRegion[i].caps # << >>} :
         LET kept == Indices \ (infoFailed \cup capFailed)
         IN  regions' = [k \in 1..Cardinality(kept) |-> RegionOf(Pushed(kept, k))]
    /\ discovered' = TRUE
    /\ UNCHANGED last

\* Mutant: the end of the request is not checked, only its length.
RefusedNoEnd(r, addr, len) == len > r.size

\* Mutant: a request ending exactly at the region's end is refused.
RefusedAtEnd(r, addr, len) == len > r.size \/ Wrap(addr + len) >= r.size

\* The size check of region_read and region_write, in u64 arithmetic:
\* size > region.size || addr + size > region.size.
Refused(r, addr, len) == len > r.size \/ Wrap(addr + len) > r.size

\* Mutant: the file offset region.offset + addr is not truncated to u64.
CallUnwrapped(op, i, addr, len, ok) ==
    last' = [op |-> op, index |-> i, addr |-> addr, len |-> len,
             issued |-> ok,
             foff |-> IF ok THEN regions[i + 1].offset + addr ELSE 0]

\* A call on regions[index]: refused by the lookup or the checks, or a
\* transfer at region.offset + addr issued to the device file.
Call(op, i, addr, len, ok) ==
    last' = [op |-> op, index |-> i, addr |-> addr, len |-> len,
             issued |-> ok,
             foff |-> IF ok THEN Wrap(regions[i + 1].offset + addr) ELSE 0]

\* region_read(index, buf, addr) with a buffer of len bytes.
RegionRead(i, addr, len) ==
    /\ discovered
    /\ \/ /\ i >= Len(regions)
          /\ Call("read", i, addr, len, FALSE)
       \/ /\ i < Len(regions)
          /\ Call("read", i, addr, len, ~Refused(regions[i + 1], addr, len))
    /\ UNCHANGED <<discovered, regions>>

\* region_write(index, buf, addr): the same checks, and the region must
\* carry VFIO_REGION_INFO_FLAG_WRITE.
RegionWrite(i, addr, len) ==
    /\ discovered
    /\ \/ /\ i >= Len(regions)
          /\ Call("write", i, addr, len, FALSE)
       \/ /\ i < Len(regions)
          /\ Call("write", i, addr, len,
                  ~Refused(regions[i + 1], addr, len)
                  /\ regions[i + 1].writable)
    /\ UNCHANGED <<discovered, regions>>

\* Callers pass any index (one past the last region included), an offset
\* from Addrs and buffers of up to MaxLen bytes.
Next ==
    \/ GetRegions
    \/ \E i \in 0..NumRegions, addr \in Addrs, len \in 0..MaxLen :
         \/ RegionRead(i, addr, len)
         \/ RegionWrite(i, addr, len)

Spec == Init /\ [][Next]_vars

-----------------------------------------------------------------------------
(* Properties *)

\* Every variable has its type; a file offset the code computes is a u64.
TypeOK ==
    /\ discovered \in BOOLEAN
    /\ regions \in Seq([size : Nat, offset : Nat, writable : BOOLEAN,
                        caps : Seq(STRING)])
    /\ last \in [op : {"none", "read", "write"}, index : 0..NumRegions,
                 addr : 0..(Limit - 1), len : 0..MaxLen,
                 issued : BOOLEAN, foff : 0..(Limit - 1)]

\* A request that ends exactly at the region's end is served (spec: the
\* boundary case offset + len == region.size must succeed).
BoundaryServed ==
    LET r == regions[last.index + 1]
        atEnd == /\ last.op # "none"
                 /\ last.index < Len(regions)
                 /\ last.addr + last.len = r.size
                 /\ last.op = "write" => r.writable
    IN  atEnd => last.issued

\* Unless offset + len wraps around 2^64, every transfer region_read or
\* region_write issues stays within the bytes of the region it picked.
NoWrapAccessInRegion ==
    LET r == regions[last.index + 1] IN
    last.issued /\ last.addr + last.len < Limit =>
        /\ r.offset <= last.foff
        /\ last.foff + last.len <= r.offset + r.size

\* regions[index] describes the kernel's region number index, the region
\* that region_read, region_write and get_region_* document their `index`
\* argument to name ("index: region num").
RegionIndexFaithful ==
    \A k \in 1..Len(regions) : regions[k] = RegionOf(k - 1)

\* Every transfer region_read or region_write issues for index i stays
\* within kernel region i (spec: a positioned transfer at the region's
\* base offset plus the given offset, never past offset + len > size).
AccessInRegion ==
    LET k == KRegion[last.index] IN
    last.issued =>
        /\ k.offset <= last.foff
        /\ last.foff + last.len <= k.offset + k.size

=============================================================================
