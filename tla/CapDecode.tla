----------------------------- MODULE CapDecode -----------------------------
(***************************************************************************)
(* What VfioDeviceInfo::get_region_map promises its caller about          *)
(* region.caps, stated as one atomic call, without the walk: on a reply   *)
(* with no capabilities (CAPS flag clear, argsz leaving no room, or       *)
(* cap_offset inside vfio_region_info) it returns Ok with none; the       *)
(* re-query may fail, and then it returns Err; otherwise it returns Ok    *)
(* with the capabilities the kernel chained, in order, each known one     *)
(* decoded and the unknown ones skipped.                                  *)
(***************************************************************************)
EXTENDS Integers, Sequences

CONSTANTS
    Base,       \* size of vfio_region_info, in slots
    Inputs,     \* the reply buffers the kernel may return
    Faults      \* {"RegionInfoCaps"} when the re-query may fail

VARIABLES
    in,         \* the kernel's reply buffer
    pc,         \* "query" until the call returns, then "done" or "failed"
    caps        \* region.caps as the caller sees it

decVars == <<in, pc, caps>>

\* The capability ids a caller gets decoded (VFIO_REGION_INFO_CAP_*).
CapIds == {"SparseMmap", "Type", "MsixMappable", "Nvlink2Ssatgt",
           "Nvlink2Lnkspd"}

\* The record a caller gets for a capability: its id and, for a
\* sparse-mmap capability, its number of areas.
CapEntry(h) == [id |-> h.id, areas |-> IF h.id = "SparseMmap" THEN h.n ELSE 0]

\* The positions of chain[1..j] with a decoded id.
Decodable(chain, j) == {k \in 1..j : chain[k].id \in CapIds}

\* s is the whole chain decoded in order: f lists the decodable
\* positions of the chain in increasing order, and entry i of s is the
\* record of the capability at position f[i].
Decoded(s, chain) ==
    /\ s \in Seq([id : CapIds, areas : Nat])
    /\ \E f \in [1..Len(s) -> 1..Len(chain)] :
          /\ \A a, b \in 1..Len(s) : a < b => f[a] < f[b]
          /\ {f[i] : i \in 1..Len(s)} = Decodable(chain, Len(chain))
          /\ \A i \in 1..Len(s) : s[i] = CapEntry(chain[f[i]])

\* The reply announces capabilities at an offset past vfio_region_info.
HasCaps(r) == r.capsFlag /\ r.argsz > Base /\ r.capOffset >= Base

DecInit ==
    /\ in \in Inputs
    /\ pc = "query"
    /\ caps = << >>

\* Ok with no capabilities.
ReturnNone ==
    /\ pc = "query"
    /\ ~HasCaps(in)
    /\ pc' = "done"
    /\ UNCHANGED <<in, caps>>

\* Err from the re-query of a reply that has the CAPS flag and room.
ReturnErr ==
    /\ pc = "query"
    /\ in.capsFlag /\ in.argsz > Base
    /\ "RegionInfoCaps" \in Faults
    /\ pc' = "failed"
    /\ UNCHANGED <<in, caps>>

\* Ok with the kernel's chain decoded.
ReturnCaps ==
    /\ pc = "query"
    /\ HasCaps(in)
    /\ pc' = "done"
    /\ Decoded(caps', in.chain)
    /\ UNCHANGED in

DecNext == ReturnNone \/ ReturnErr \/ ReturnCaps

DecSpec == DecInit /\ [][DecNext]_decVars

=============================================================================
