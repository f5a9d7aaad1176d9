--------------------------- MODULE VfioRegionProofs ---------------------------
(***************************************************************************)
(* Proofs, for every region table and every address width, of the safety  *)
(* invariants of VfioRegion: the region list and the last access keep     *)
(* their types, an access that ends exactly at its region's end is        *)
(* served, and (on a kernel layout that fits the file offsets) no access  *)
(* that succeeded wrapped around the u64 file offset.                     *)
(*                                                                         *)
(* None of them is inductive alone.  What an access does depends on the   *)
(* region it indexes, so IInv adds FromKernel: every entry get_regions    *)
(* pushed is RegionOf of some kernel index, whose offset and size the     *)
(* table fixes.  get_regions is modelled in closed form (Pushed): the     *)
(* k-th pushed region is the kept index with k - 1 kept indices below it. *)
(* PushedInKept shows such an index exists: the rank map is injective    *)
(* into 0..n-1 (BelowGrows), hence onto it.  Limit = 2^AddrBits is shown  *)
(* positive through the number of subsets of 1..AddrBits, without         *)
(* induction.                                                              *)
(***************************************************************************)
EXTENDS VfioRegion, FiniteSetTheorems, SequenceTheorems, TLAPS

LEMMA LimitPositive == Limit \in Nat \ {0}
<1> DEFINE B == 1..AddrBits
<1>1. IsFiniteSet(B) /\ Cardinality(B) = AddrBits
  BY RegionConstants, FS_Interval
<1>2. IsFiniteSet(SUBSET B) /\ Cardinality(SUBSET B) = Limit
  BY <1>1, FS_SUBSET DEF Limit
<1>3. Cardinality(SUBSET B) \in Nat /\ Cardinality(SUBSET B) # 0
  <2>1. SUBSET B # {}
    OBVIOUS
  <2> QED
    BY <1>2, <2>1, FS_CardinalityType, FS_EmptySet
<1> QED
  BY <1>2, <1>3

LEMMA WrapFacts ==
    ASSUME NEW x \in Nat
    PROVE  /\ Wrap(x) \in 0..(Limit - 1)
           /\ Wrap(x) <= x
           /\ x < Limit => Wrap(x) = x
BY LimitPositive DEF Wrap

\* Kept indices below j, and their number.
Below(kept, j) == {x \in kept : x < j}

\* 0..n-1 has n elements.
LEMMA IntervalCard ==
    ASSUME NEW n \in Nat
    PROVE  IsFiniteSet(0..(n - 1)) /\ Cardinality(0..(n - 1)) = n
<1>1. 0 \in Int /\ n - 1 \in Int
  OBVIOUS
<1>2. /\ IsFiniteSet(0..(n - 1))
      /\ Cardinality(0..(n - 1)) = IF 0 > n - 1 THEN 0 ELSE (n - 1) - 0 + 1
  BY <1>1, FS_Interval
<1> QED
  BY <1>2

\* An index with more kept indices below it lies above another.
LEMMA BelowGrows ==
    ASSUME NEW kept \in SUBSET Nat, IsFiniteSet(kept),
           NEW a \in kept, NEW b \in kept, a < b
    PROVE  /\ Cardinality(Below(kept, a)) \in Nat
           /\ Cardinality(Below(kept, b)) \in Nat
           /\ Cardinality(Below(kept, a)) < Cardinality(Below(kept, b))
<1>1. Below(kept, a) \subseteq Below(kept, b)
  <2> SUFFICES ASSUME NEW x \in kept, x < a PROVE x \in kept /\ x < b
    BY DEF Below
  <2>1. x \in Nat /\ a \in Nat /\ b \in Nat
    OBVIOUS
  <2> QED
    BY <2>1
<1>2. IsFiniteSet(Below(kept, b))
  BY FS_Subset DEF Below
<1>3. Below(kept, a) # Below(kept, b)
  <2>1. a \in Below(kept, b) /\ a \notin Below(kept, a)
    BY DEF Below
  <2> QED
    BY <2>1
<1>4. /\ Cardinality(Below(kept, a)) <= Cardinality(Below(kept, b))
      /\ Cardinality(Below(kept, a)) # Cardinality(Below(kept, b))
  BY <1>1, <1>2, <1>3, FS_Subset
<1>5. Cardinality(Below(kept, a)) \in Nat /\ Cardinality(Below(kept, b)) \in Nat
  BY <1>1, <1>2, FS_Subset, FS_CardinalityType
<1> QED
  BY <1>4, <1>5

\* get_regions pushes only regions it kept: for every position k of the
\* Vec, the kept index with k - 1 kept indices below it exists.  The map
\* from a kept index to the number of kept indices below it is injective
\* into 0..n-1, n the number of kept indices, hence onto it.
LEMMA PushedInKept ==
    ASSUME NEW kept \in SUBSET Nat, IsFiniteSet(kept),
           NEW k \in 1..Cardinality(kept)
    PROVE  Pushed(kept, k) \in kept
<1> DEFINE n == Cardinality(kept)
           rank == [j \in kept |-> Cardinality(Below(kept, j))]
<1>1. n \in Nat
  BY FS_CardinalityType
<1>2. rank \in [kept -> 0..(n - 1)]
  <2> SUFFICES ASSUME NEW j \in kept PROVE Cardinality(Below(kept, j)) \in 0..(n - 1)
    OBVIOUS
  <2>1. Below(kept, j) \subseteq kept \ {j}
    BY DEF Below
  <2>2. IsFiniteSet(kept \ {j}) /\ Cardinality(kept \ {j}) = n - 1
    BY FS_RemoveElement
  <2>3. Cardinality(Below(kept, j)) \in Nat
        /\ Cardinality(Below(kept, j)) <= Cardinality(kept \ {j})
    BY <2>1, <2>2, FS_Subset, FS_CardinalityType
  <2> QED
    BY <1>1, <2>2, <2>3
<1>3. rank \in Injection(kept, 0..(n - 1))
  <2>1. ASSUME NEW a \in kept, NEW b \in kept, a # b
        PROVE  rank[a] # rank[b]
    <3>1. rank[a] = Cardinality(Below(kept, a))
          /\ rank[b] = Cardinality(Below(kept, b))
      OBVIOUS
    <3>2. CASE a < b
      <4>1. /\ Cardinality(Below(kept, a)) \in Nat
            /\ Cardinality(Below(kept, b)) \in Nat
            /\ Cardinality(Below(kept, a)) < Cardinality(Below(kept, b))
        BY <3>2, BelowGrows
      <4> QED
        BY <3>1, <4>1
    <3>3. CASE b < a
      <4>1. /\ Cardinality(Below(kept, a)) \in Nat
            /\ Cardinality(Below(kept, b)) \in Nat
            /\ Cardinality(Below(kept, b)) < Cardinality(Below(kept, a))
        BY <3>3, BelowGrows
      <4> QED
        BY <3>1, <4>1
    <3>4. a \in Nat /\ b \in Nat
      OBVIOUS
    <3> QED
      BY <2>1, <3>2, <3>3, <3>4
  <2> QED
    BY <1>2, <2>1 DEF Injection, IsInjective
<1>4. IsFiniteSet(0..(n - 1)) /\ Cardinality(0..(n - 1)) = n
  BY <1>1, IntervalCard
<1>5. rank \in Surjection(kept, 0..(n - 1))
  BY <1>3, <1>4, FS_Injection
<1>6. \E j \in kept : Cardinality(Below(kept, j)) = k - 1
  <2>1. k - 1 \in 0..(n - 1)
    BY <1>1
  <2>2. PICK j \in kept : rank[j] = k - 1
    BY <1>5, <2>1 DEF Surjection
  <2> QED
    BY <2>2
<1> QED
  BY <1>6 DEF Pushed, Below

\* The record type of a VfioRegion.
RegionRec == [size : Nat, offset : Nat, writable : BOOLEAN, caps : Seq(STRING)]

\* Every entry of the Vec is the kernel's description of some region.
FromKernel == \A k \in 1..Len(regions) : \E j \in Indices : regions[k] = RegionOf(j)

\* The inductive invariant: the Vec holds kernel regions, nothing is called
\* before discovery, an issued transfer names an entry of the Vec, and the
\* three invariants, the last under the kernel's layout.
IInv ==
    /\ TypeOK
    /\ FromKernel
    /\ ~discovered => last = NoCall
    /\ last.issued => last.index < Len(regions)
    /\ BoundaryServed
    /\ KernelRegionsFit => NoWrapAccessInRegion

LEMMA RegionOfType ==
    ASSUME NEW j \in Indices
    PROVE  RegionOf(j) \in RegionRec
BY RegionConstants DEF RegionOf, RegionRec

LEMMA InitIInv == Init => IInv
<1> SUFFICES ASSUME Init PROVE IInv
  OBVIOUS
<1>1. 0 \in 0..(Limit - 1) /\ 0 \in 0..NumRegions /\ 0 \in 0..MaxLen
  BY LimitPositive, RegionConstants
<1>2. TypeOK
  <2>1. last \in [op : {"none", "read", "write"}, index : 0..NumRegions,
                  addr : 0..(Limit - 1), len : 0..MaxLen,
                  issued : BOOLEAN, foff : 0..(Limit - 1)]
    BY <1>1 DEF Init, NoCall
  <2>2. regions \in Seq([size : Nat, offset : Nat, writable : BOOLEAN,
                         caps : Seq(STRING)])
    BY DEF Init
  <2> QED
    BY <2>1, <2>2 DEF Init, TypeOK
<1> QED
  BY <1>2 DEF Init, IInv, FromKernel, NoCall,
             BoundaryServed, NoWrapAccessInRegion

\* get_regions, run once before any call, keeps IInv: the Vec it builds
\* holds kernel regions only.
LEMMA GetRegionsStep ==
    ASSUME IInv, GetRegions
    PROVE  IInv'
<1>1. last = NoCall /\ last' = NoCall
  BY DEF GetRegions, IInv
<1>2. PICK infoFailed \in SUBSET FaultyRegions,
           capFailed \in SUBSET {i \in FaultyRegions : KRegion[i].caps # << >>} :
         LET kept == Indices \ (infoFailed \cup capFailed)
         IN  regions' = [k \in 1..Cardinality(kept) |-> RegionOf(Pushed(kept, k))]
  BY DEF GetRegions
<1> DEFINE kept == Indices \ (infoFailed \cup capFailed)
<1>3. kept \subseteq Nat /\ IsFiniteSet(kept) /\ Cardinality(kept) \in Nat
  <2>1. IsFiniteSet(Indices) /\ Indices \subseteq Nat
    BY RegionConstants, FS_Interval DEF Indices
  <2>2. kept \in SUBSET Indices
    OBVIOUS
  <2>3. IsFiniteSet(kept)
    BY <2>1, <2>2, FS_Subset
  <2> QED
    BY <2>1, <2>2, <2>3, FS_CardinalityType
<1>4. /\ regions' \in Seq(RegionRec)
      /\ Len(regions') = Cardinality(kept)
      /\ FromKernel'
  <2>1. \A k \in 1..Cardinality(kept) : Pushed(kept, k) \in Indices
    BY <1>3, PushedInKept
  <2>2. \A k \in 1..Cardinality(kept) : RegionOf(Pushed(kept, k)) \in RegionRec
    BY <2>1, RegionOfType
  <2>3. regions' \in [1..Cardinality(kept) -> RegionRec]
    BY <1>2, <2>2
  <2>4. regions' \in Seq(RegionRec) /\ Len(regions') = Cardinality(kept)
    <3>1. Cardinality(kept) \in Nat
      BY <1>3
    <3> HIDE DEF RegionRec
    <3>2. regions' \in Seq(RegionRec)
      <4>1. \E m \in Nat : regions' \in [1..m -> RegionRec]
        BY <2>3, <3>1
      <4>2. regions' \in UNION {[1..m -> RegionRec] : m \in Nat}
        BY <4>1
      <4> QED
        BY <4>2, SeqDef
    <3>3. Len(regions') \in Nat /\ DOMAIN regions' = 1..Len(regions')
      BY <3>2, LenProperties
    <3> QED
      BY <2>3, <3>1, <3>2, <3>3
  <2>5. FromKernel'
    <3> SUFFICES ASSUME NEW k \in 1..Len(regions')
                 PROVE  \E j \in Indices : regions'[k] = RegionOf(j)
      BY DEF FromKernel
    <3>1. k \in 1..Cardinality(kept) /\ regions'[k] = RegionOf(Pushed(kept, k))
      BY <1>2, <2>4
    <3> QED
      BY <2>1, <3>1
  <2> QED
    BY <2>4, <2>5
<1>5. TypeOK'
  BY <1>1, <1>4 DEF GetRegions, IInv, TypeOK, RegionRec
<1> QED
  BY <1>1, <1>4, <1>5 DEF GetRegions, IInv, NoCall,
                         BoundaryServed, NoWrapAccessInRegion

\* The entry a call picks is a typed kernel region, laid out within the
\* u64 offsets when the kernel's layout is.
LEMMA EntryFacts ==
    ASSUME IInv, NEW i \in Nat, i < Len(regions)
    PROVE  /\ regions[i + 1] \in RegionRec
           /\ KernelRegionsFit =>
                regions[i + 1].offset + regions[i + 1].size < Limit
<1>1. Len(regions) \in Nat
  BY DEF IInv, TypeOK
<1>2. i + 1 \in 1..Len(regions)
  BY <1>1
<1>3. PICK j \in Indices : regions[i + 1] = RegionOf(j)
  BY <1>2 DEF IInv, FromKernel
<1> QED
  BY <1>3, RegionOfType DEF KernelRegionsFit, RegionOf

\* A request ending exactly at the region's end passes the size check, in
\* u64 arithmetic too.
LEMMA AtEndAccepted ==
    ASSUME NEW r \in RegionRec, NEW addr \in Nat, NEW len \in Nat,
           addr + len = r.size
    PROVE  ~Refused(r, addr, len)
BY WrapFacts DEF Refused, RegionRec

\* A request that passes the size check and does not wrap lands within the
\* region's bytes of the device file.
LEMMA AcceptedInRegion ==
    ASSUME NEW r \in RegionRec, NEW addr \in Nat, NEW len \in Nat,
           ~Refused(r, addr, len), addr + len < Limit,
           r.offset + r.size < Limit
    PROVE  /\ r.offset <= Wrap(r.offset + addr)
           /\ Wrap(r.offset + addr) + len <= r.offset + r.size
<1>1. addr + len <= r.size
  BY WrapFacts DEF Refused, RegionRec
<1>2. Wrap(r.offset + addr) = r.offset + addr
  <2>0. r.offset \in Nat /\ r.size \in Nat
    BY DEF RegionRec
  <2>1. r.offset + addr \in Nat /\ r.offset + addr < Limit
    BY <1>1, <2>0, LimitPositive
  <2> QED
    BY <2>1, WrapFacts
<1> QED
  BY <1>1, <1>2 DEF RegionRec

\* One call of region_read or region_write keeps IInv, given how its
\* outcome ok follows from the lookup, the size check and the WRITE flag.
LEMMA CallStep ==
    ASSUME IInv, discovered,
           NEW op \in {"read", "write"}, NEW i \in 0..NumRegions,
           NEW addr \in Addrs, NEW len \in 0..MaxLen, NEW ok \in BOOLEAN,
           ok => i < Len(regions) /\ ~Refused(regions[i + 1], addr, len),
           op = "write" /\ ok => regions[i + 1].writable,
           (/\ i < Len(regions) /\ ~Refused(regions[i + 1], addr, len)
            /\ op = "write" => regions[i + 1].writable) => ok,
           Call(op, i, addr, len, ok),
           UNCHANGED <<discovered, regions>>
    PROVE  IInv'
<1> DEFINE r == regions[i + 1]
<1>0. /\ addr \in 0..(Limit - 1) /\ Len(regions) \in Nat
      /\ last'.op = op /\ last'.index = i /\ last'.addr = addr
      /\ last'.len = len /\ last'.issued = ok
      /\ last'.foff = IF ok THEN Wrap(r.offset + addr) ELSE 0
  <2>1. addr \in 0..(Limit - 1)
    BY RegionConstants DEF Limit
  <2>2. Len(regions) \in Nat
    BY DEF IInv, TypeOK
  <2> QED
    BY <2>1, <2>2 DEF Call
<1>1. ok => r \in RegionRec /\ (KernelRegionsFit => r.offset + r.size < Limit)
  <2> SUFFICES ASSUME ok
               PROVE  r \in RegionRec /\ (KernelRegionsFit => r.offset + r.size < Limit)
    OBVIOUS
  <2>1. i \in Nat /\ i < Len(regions)
    OBVIOUS
  <2> QED
    BY <2>1, EntryFacts
<1>2. TypeOK'
  <2>1. last'.foff \in 0..(Limit - 1)
    <3>1. CASE ok
      <4>1. r.offset + addr \in Nat
        BY <1>0, <1>1, <3>1 DEF RegionRec
      <4> QED
        BY <1>0, <3>1, <4>1, WrapFacts
    <3>2. CASE ~ok
      BY <1>0, <3>2, LimitPositive
    <3> QED
      BY <3>1, <3>2
  <2>2. last' \in [op : {"none", "read", "write"}, index : 0..NumRegions,
                   addr : 0..(Limit - 1), len : 0..MaxLen,
                   issued : BOOLEAN, foff : 0..(Limit - 1)]
    BY <1>0, <2>1 DEF Call
  <2> QED
    BY <2>2 DEF IInv, TypeOK
<1>3. BoundaryServed'
  <2> SUFFICES ASSUME i < Len(regions), addr + len = r.size,
                      op = "write" => r.writable
               PROVE  ok
    BY <1>0 DEF BoundaryServed
  <2>1. r \in RegionRec
    BY <1>0, EntryFacts
  <2> QED
    BY <1>0, <2>1, AtEndAccepted
<1>4. KernelRegionsFit => NoWrapAccessInRegion'
  <2> SUFFICES ASSUME KernelRegionsFit, ok, addr + len < Limit
               PROVE  /\ r.offset <= Wrap(r.offset + addr)
                      /\ Wrap(r.offset + addr) + len <= r.offset + r.size
    BY <1>0 DEF NoWrapAccessInRegion
  <2> QED
    BY <1>0, <1>1, AcceptedInRegion
<1> QED
  BY <1>0, <1>2, <1>3, <1>4 DEF IInv, FromKernel

\* region_read keeps IInv: an unknown index issues nothing, a known one
\* issues the transfer exactly when the size check passes.
LEMMA ReadStep ==
    ASSUME IInv, NEW i \in 0..NumRegions, NEW addr \in Addrs,
           NEW len \in 0..MaxLen, RegionRead(i, addr, len)
    PROVE  IInv'
<1>1. Len(regions) \in Nat
  BY DEF IInv, TypeOK
<1>0. discovered /\ UNCHANGED <<discovered, regions>>
  BY DEF RegionRead
<1>2. CASE i >= Len(regions) /\ Call("read", i, addr, len, FALSE)
  <2>1. ~(i < Len(regions))
    BY <1>1, <1>2
  <2> QED
    BY <1>0, <1>2, <2>1, CallStep
<1>3. CASE i < Len(regions)
           /\ Call("read", i, addr, len, ~Refused(regions[i + 1], addr, len))
  BY <1>0, <1>3, CallStep
<1> QED
  BY <1>2, <1>3 DEF RegionRead

\* region_write keeps IInv: a transfer is issued exactly when the index is
\* known, the size check passes and the region is writable.
LEMMA WriteStep ==
    ASSUME IInv, NEW i \in 0..NumRegions, NEW addr \in Addrs,
           NEW len \in 0..MaxLen, RegionWrite(i, addr, len)
    PROVE  IInv'
<1>1. Len(regions) \in Nat
  BY DEF IInv, TypeOK
<1>0. discovered /\ UNCHANGED <<discovered, regions>>
  BY DEF RegionWrite
<1>2. CASE i >= Len(regions) /\ Call("write", i, addr, len, FALSE)
  <2>1. ~(i < Len(regions))
    BY <1>1, <1>2
  <2> QED
    BY <1>0, <1>2, <2>1, CallStep
<1>3. CASE i < Len(regions)
           /\ Call("write", i, addr, len,
                   ~Refused(regions[i + 1], addr, len)
                   /\ regions[i + 1].writable)
  <2>1. regions[i + 1].writable \in BOOLEAN
    BY <1>3, EntryFacts DEF RegionRec
  <2> QED
    BY <1>0, <1>3, <2>1, CallStep
<1> QED
  BY <1>2, <1>3 DEF RegionWrite

LEMMA NextIInv == IInv /\ [Next]_vars => IInv'
<1> SUFFICES ASSUME IInv, [Next]_vars PROVE IInv'
  OBVIOUS
<1>1. CASE GetRegions
  BY <1>1, GetRegionsStep
<1>2. ASSUME NEW i \in 0..NumRegions, NEW addr \in Addrs,
             NEW len \in 0..MaxLen,
             RegionRead(i, addr, len) \/ RegionWrite(i, addr, len)
      PROVE  IInv'
  BY <1>2, ReadStep, WriteStep
<1>3. CASE UNCHANGED vars
  BY <1>3 DEF vars, IInv, TypeOK, FromKernel,
              BoundaryServed, NoWrapAccessInRegion, KernelRegionsFit
<1> QED
  BY <1>1, <1>2, <1>3 DEF Next

\* Every variable of the region model keeps its type: in particular every
\* file offset region_read and region_write compute is a u64.
THEOREM RegionTypeCorrect == Spec => []TypeOK
<1>1. IInv => TypeOK
  BY DEF IInv
<1> QED
  BY <1>1, InitIInv, NextIInv, PTL DEF Spec

\* A request ending exactly at the region's end is served, for every
\* region size and every width of the arithmetic.
THEOREM BoundaryServedThm == Spec => []BoundaryServed
<1>1. IInv => BoundaryServed
  BY DEF IInv
<1> QED
  BY <1>1, InitIInv, NextIInv, PTL DEF Spec

\* When the kernel lays its regions out within the u64 file offsets, every
\* transfer of a request whose offset + len does not wrap stays within the
\* region region_read or region_write picked.
THEOREM NoWrapAccessInRegionThm ==
    ASSUME KernelRegionsFit
    PROVE  Spec => []NoWrapAccessInRegion
<1>1. IInv => NoWrapAccessInRegion
  BY DEF IInv
<1> QED
  BY <1>1, InitIInv, NextIInv, PTL DEF Spec

=============================================================================
