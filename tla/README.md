# Formal models of the VFIO wrapper (`vfio-ioctls`)

TLA+ models of `src/crates/vfio-ioctls/src/vfio_device.rs`, the library a VMM
uses to pass a PCI device through to a guest with Linux VFIO. The models are
checked with TLC, and the central invariants are proved with TLAPS.

## The system

`vfio_device.rs` has four interacting parts.

- **VfioContainer** (lines 66-323) owns `/dev/vfio/vfio`, a
  `Mutex<HashMap<u32, Arc<VfioGroup>>>` of groups and a handle to the
  hypervisor's VFIO device.
  - `get_group` opens the group, binds it to the container, sets the type1
    IOMMU backend for the first group, and adds it to the hypervisor
    device. Each failure rolls back the steps before it.
  - `put_group` removes a group when `Arc::strong_count == 3`: the map,
    the caller's clone and the device's own Arc.
  - `vfio_dma_map`, `vfio_dma_unmap`, `vfio_map_guest_memory` and
    `vfio_unmap_guest_memory` manage IOMMU mappings of guest memory.
- **VfioGroup** (338-416) opens a group file, checks it is viable and opens
  device fds.
- **VfioDeviceInfo** (498-707) discovers a device's IRQ indices
  (`get_irqs`) and regions (`get_regions`). Each region with capabilities
  goes through the capability-chain decoder `get_region_map`.
- **VfioDevice** (714-1088) ties them together.
  - `new` calls `get_group`, `get_device` and discovery.
  - `trigger_irq`, `enable_irq`, `disable_irq` and `unmask_irq` issue
    `VFIO_DEVICE_SET_IRQS`.
  - `region_read` and `region_write` do positioned I/O on the device fd.
  - `Drop` closes the device and calls `put_group` with a clone of its
    group Arc.

Devices are created and dropped on any thread. The container's map is the
only state they share, and the kernel is the environment every call talks to.

## Modules

Each component module declares its state as VARIABLES, and each operation is
one action. The kernel side is part of the model's state and answers the way
the VFIO and type1 drivers do. Every kernel call that can fail is named in a
`Faults` constant and may then fail nondeterministically.

| Module | Models | State |
|---|---|---|
| `VfioContainer` | `VfioDevice::new` up to `get_device`, `get_group`, `put_group`, `VfioDevice::drop`, on concurrent threads | `groups` (the map), `refs` (strong counts), `bound`/`iommuSet` (kernel container), `kvm` (hypervisor device's groups), `pc`/`grp` per thread |
| `VfioIrq` | `get_irqs`, `trigger_irq`, `enable_irq`, `disable_irq`, `unmask_irq`, `max_interrupts` | `kinfo` (kernel counts), `irqs` (the HashMap), `installed` (eventfds per vector), `req` (last SET_IRQS), `maxIrq` |
| `VfioRegion` | `get_regions`, `region_read`, `region_write` | `regions` (the Vec), `last` (last call, whether a transfer was issued and its file offset) |
| `VfioCapChain` | `get_region_map` | reply buffer `in`, `next` (next_cap_offset), `caps`, `iter`, `oob` (a read past argsz happened) |
| `VfioDma` | the four DMA calls | `mapped` (regions with IOMMU translations), `last`, `recovering` |
| `CapDecode` | what `get_region_map` promises its caller: one atomic call returning no capabilities, an Err from the re-query, or the chain decoded | `in`, `pc` (returned or not), `caps` |
| `GroupRegistry` | what the container promises (spec sections 3 and 4): a device acquires and releases a group, and the kernel mirrors the registry | `registry`, `user` (each device's group), `kernel` (domain, hypervisor, backend) |
| `VfioContainerProofs`, `VfioRegistryProofs`, `VfioIrqProofs`, `VfioDmaProofs`, `VfioRegionProofs`, `VfioCapChainProofs` | theorems and proofs | |
| `MC_*` | TLC instances: model values, constant sets, symmetry | |

### Correspondence to the code

**`VfioContainer`.**

- `StartOpen` begins `VfioDevice::new`.
- `GetGroup` is the whole of `get_group` as one step under the lock. Its
  disjuncts are: map hit (clone); any failure; success (insert and a clone
  to the caller). A failure is one step with no net change, not the
  rollback steps one by one. The reason: on every failure path the new
  `Arc<VfioGroup>` is the only one and is dropped on return, which closes
  the group file, and the kernel unbinds a group from its container when
  the file closes. So even when the rollback's `VFIO_GROUP_UNSET_CONTAINER`
  fails (its result is ignored), nothing stays bound. The price is that a
  mutant dropping a rollback call changes nothing in the model.
- `GetDevice` stands for `get_device` and discovery. On failure the code
  returns through `?` and drops the Arc without calling `put_group`.
- `Drop` clones the group Arc outside the lock, as line 1087 does.
- `PutGroup` is the locked body of `put_group`. Its disjuncts are: not the
  last user; `device_del_group` failing; the unbind failing; removal.
- `ReleaseClone` and `ReleaseOwn` drop the two Arcs after the lock is
  released. These drops are separate steps because they really are
  unsynchronised with other threads.

The group file's own close is part of the model: a group removed from the map
stays open, and `VfioGroup::new` fails with EBUSY, until its last Arc goes.

**Refinement of `GroupRegistry`.** `VfioContainer` instantiates the abstract
module as `Registry` with this mapping:

- `registry <- groups`;
- `user <- DeviceGroup`: a thread's group while it is opening, using or
  putting a device (`VfioDevice.group`), otherwise none;
- `kernel <- [domain |-> bound, hypervisor |-> kvm, backend |-> iommuSet]`.

A successful `GetGroup` is `Acquire`. A failed `GetDevice` and `PutGroup`
are `Release`, where removal is allowed only if no other device holds the
group. Every other step, including the Arc drops after the lock, is a
stutter. A group the leak keeps in the map is allowed by the abstract
module, so this is the safety half of the lifecycle; the leak itself is
`NoLeakWhenQuiescent`. The refinement fails when the unbind can fail: the
kernel then no longer mirrors the map.

**`VfioIrq`.** `SetIrqs` is the kernel: it refuses a request with
`start + count > count of index`. An accepted enable adds the listed
vectors to those installed and leaves the others alone, as
`vfio_msi_set_block` does. Each IRQ operation is its guard (the
lookup and the checks, in the code's order) followed by `SetIrqs`. A failing
check returns before any ioctl and changes nothing, so it is a stuttering
step. `max_interrupts` loops over the fixed `vec![INTX, MSI, MSIX]`, so
the loop is unrolled. `MaxStep(m, i)` is one iteration, and `MaxInterrupts`
applies it to the three indices in order, starting from 0.

**`VfioRegion`.**
- u64 arithmetic is `% 2^AddrBits`, applied to `addr + size` in the check
  and to `region.offset + addr` in the transfer.
- `GetRegions` pushes the regions whose query (or capability re-query)
  succeeded, in index order, exactly as the `Vec` does. The list is written
  in closed form: entry `k` is `RegionOf(Pushed(kept, k))`, the kept index
  with `k - 1` kept indices below it. This is the loop's push order, and
  unlike a `SelectSeq` over the index list the provers can reason about it.
  (TLC confirmed the two forms agree for every subset of eight indices.)
- `KernelRegionsFit` says every kernel region ends below 2^AddrBits. This
  holds for vfio-pci, which puts region `i` at `i << 40`. It is not part of
  `Spec`. `MC_VfioRegion` asserts it of the table it checks (`TableFits`).

**`VfioCapChain`.**
- Offsets are in 8-byte slots.
- `Query` is the CAPS-flag and argsz decision and the re-query. `Step` is
  one iteration of the `while`.
- A header read beyond `argsz` is an out-of-bounds raw read, which is
  undefined behaviour. It is modelled as a read that may return any header
  of `Headers`.
- A reply also carries `chain`, the capabilities the kernel laid out, for
  the properties to compare with. `DecodedCaps` states the expected list in
  closed form, with no `SelectSeq` (`DecodedPrefix`). An increasing `f`
  enumerates the known positions of the chain, and entry `i` of `caps` is
  the capability at `f[i]`. That is the loop's push order.
  `ChainLaid(r)` says `chain` is what the headers link: `hdr[cap_offset]`
  is `chain[1]`, each `next` but the last leads to the following entry,
  and the last ends the walk. `MC_VfioCapChain` asserts it of the
  kernel-built replies (`KernelRepliesChained`).
- The caller of `get_region_map` sees the call return, not the walk. The
  refinement mapping (`CallPc`, `CallCaps`) shows a running walk as a call
  not yet returned, with no capabilities. Through it, `VfioCapChain`
  implements `CapDecode` (`ImplementsCapDecode`).

**`VfioDma`.**
- Regions are disjoint model values.
- The kernel refuses to map a mapped range (EEXIST). Unmapping an unmapped
  range returns 0 bytes, which `vfio_dma_unmap` turns into an error.
- `MapAll` and `UnmapAll` pick the first failing position `k` of the
  `try_for_each`. Only the prefix before `k` is applied.
- `recovering` is the caller's protocol from spec section 4.1: after a
  failed `map_all`, retry `unmap_all`.

## Runs

| Run | Result | Shows |
|---|---|---|
| `lifecycle` | pass, 448 states | 3 threads, 2 groups, every fault but a failed unbind: `RefCountExact` (strong count = live Arcs), `ContainerConsistent` (kernel bindings and IOMMU backend match the map, hypervisor only knows mapped groups), `DeviceGroupAttached` (no device runs on a group its container or the hypervisor let go), `ImplementsRegistry` (the container implements `GroupRegistry`) |
| `faults_all` | pass | with the unbind also failing, `ContainerConsistent` still holds (the kernel's bindings and backend still match the map even when `put_group` keeps a group it has detached from the hypervisor) |
| `leak_concurrent_drop` | violation | two devices of one group dropped concurrently: each sees strong count 4 or 5, nobody sees 3, the group is never removed (`NoLeakWhenQuiescent`) |
| `unset_failure` | violation | put_group detaches a group from the hypervisor, fails to unbind it, keeps it in the map as the spec prescribes, and the next device reuses it detached (`DeviceGroupAttached`) |
| `irq_ops` | pass | the three PCI indices (and one index the device lacks), every count pattern and every failed discovery: enable/disable/unmask stay within the index's vectors (`SetIrqsInRange`), `max_interrupts` is the maximum (`MaxInterruptsCorrect`) |
| `region_io` | pass | a request ending exactly at the region's end is served (`BoundaryServed`), and any non-wrapping request stays in its region (`NoWrapAccessInRegion`) |
| `region_overflow` | violation | `addr` near 2^64 wraps `addr + size`, the end check passes and the transfer is issued at a file offset outside the region picked (`AccessInRegion`) |
| `region_index_shift` | violation | a failed query of region 0 shifts the Vec: `regions[i]` is kernel region `i+1` (`RegionIndexFaithful`) |
| `cap_chain` | pass | on every kernel-built chain of up to 3 capabilities, the walk decodes the known ones in order (`DecodedCaps`), stays in the buffer and terminates; the call implements `CapDecode` (`ImplementsCapDecode`) |
| `cap_overread` | violation | a `cap_offset`, `next` or `nr_areas` pointing past argsz makes the walk read past the buffer (`ReadsInBuffer`) |
| `dma_ops` | pass | any mix of single and whole-memory calls with failing ioctls: an Ok from `map_all`/`unmap_all` means all/none mapped (`AllOrNothingOk`) |
| `dma_recovery` | violation | `map_all` fails at its first region, which a single map already mapped; `unmap_all` then fails at region 2, never mapped, and every retry fails at region 1 on a size-0 reply (`RecoveryEnds`) |

Every property of a passing run has a mutant in `PROJECT.json`: a plausible
bug in the mapped definition (a dropped guard, `>=` for `>`, a missing wrap, a
prefix one short) under which TLC finds the property violated.

### Bounds

- **Container runs.** Three threads and two groups give every interesting
  case:
  - two devices of one group racing a third on the other group;
  - a removed group reopened while still held;
  - the first and the last group of the container.

  Symmetry over threads and over groups is sound because both are only
  compared for equality.
- **IRQ runs.** Three PCI indices, counts up to 2 and up to 3 fds. That
  covers more fds than vectors, a count of 0, and a vector one past the
  count.
- **Region runs.**
  - Eight regions, as `get_device` requires, laid out as BAR0/BAR1
    writable, BAR2-5 absent, the ROM read-only and config space writable.
  - 7-bit arithmetic. Offsets cover every value up to one past the largest
    region, plus those within `MaxLen` of 2^7, so each region's end is met,
    passed, and wrapped.
- **DMA runs.** Four regions give a prefix, a failing region and a suffix.
- **CapChain runs.**
  - Kernel chains of length 0 to 3 over all capability kinds, including
    sparse-mmap with 0 and 1 areas and an unknown id.
  - Malformed replies of two header slots, with `next` pointing anywhere.
  - `MaxIter = 4` exceeds every well-formed chain's length. The bound is
    the model's, not the code's (its `while` has none): it only keeps the
    malformed replies' runs finite, and on kernel chains it never binds
    (`WalkWithinChainThm`: the loop runs fewer than `Len(chain)` times).

### Fairness

- **`VfioCapChain`** assumes weak fairness of `Next`. `get_region_map` runs
  on one thread and never blocks between its steps.
- **`VfioDma`** assumes weak fairness of `UnmapAll`. This models the caller
  the spec describes, who keeps retrying.
- **Container, IRQ and region models** assume no fairness and are checked
  for safety only.

## What is proved

The proofs are checked with `tlapm`. They hold for every value of the
constants, under the assumptions named in the modules: `ConstantsAssumption`
(finite sets of threads and group ids), `IrqConstants`, `DmaConstants`,
`RegionConstants` and `CapChainConstants` (typed reply buffers and
headers). TLC evaluates each of these on every run of its module.

- **`VfioContainerProofs`:**
  - `TypeCorrect`
  - `RefCountInvariant` (`RefCountExact`)
  - `ContainerConsistentThm`
  - `DeviceGroupAttachedThm`, under the hypothesis
    `"UnsetContainer" \notin Faults`. The run `unset_failure` shows it
    fails without that hypothesis.
- **`VfioRegistryProofs`:**
  - `RegistryRefinement`: `Spec => ImplementsRegistry`, under
    `"UnsetContainer" \notin Faults`.
- **`VfioIrqProofs`:**
  - `IrqTypeCorrect` (`TypeOK`)
  - `SetIrqsInRangeThm`
  - `MaxInterruptsCorrectThm`
- **`VfioDmaProofs`:**
  - `DmaTypeCorrect`
  - `AllOrNothingOkThm`
- **`VfioRegionProofs`:**
  - `RegionTypeCorrect` (`TypeOK`)
  - `BoundaryServedThm`
  - `NoWrapAccessInRegionThm`, under the hypothesis `KernelRegionsFit`.
- **`VfioCapChainProofs`:**
  - `CapChainTypeCorrect` (`TypeOK`): `caps` holds only decoded records
    of known ids. This holds for every set of replies, malformed ones
    included. It says nothing of termination: `iter` is only a natural.
  - `ReadsInBufferThm`, under the hypothesis `WellFormedInputs`.
  - `DecodedCapsThm`, under `WellFormedInputs` and `ChainedInputs` (every
    reply satisfies `ChainLaid`).
  - `CapDecodeRefinement`: `Spec => ImplementsCapDecode`, under the same
    two hypotheses.
  - `WalkWithinChainThm`, under the same two hypotheses: while the loop
    runs, `iter < Len(chain)`. This is the safety half of `Terminates`.

**The container argument.** No property holds on its own, because
`put_group`'s count test is only meaningful if counts are exact. The
inductive invariant `IInv` has four parts:

- `TypeOK`;
- `GrpTyped`: active threads name real groups;
- `RefCountExact`: the strong count equals the map's Arc plus the threads'
  own and cloned Arcs, counted with `Cardinality` of holder sets;
- `LiveInMap`: a thread opening, using or putting a device holds a mapped
  group.

In `PutGroup`, the calling thread holds two Arcs and the map holds one. A
count of 3 then forces every holder set other than the caller's to be empty
(lemma `MemberCard`), so removal strands nobody. `ContainerConsistentThm` and
the kernel-agreement lemma (the hypervisor's groups equal the map when the
unbind cannot fail) are proved per action on top of `IInv`.

**The refinement argument.** The proof follows the usual two parts.
`Init` maps to `RegInit`. Each step, under `IInv` and the kernel-agreement
invariant, maps to an abstract step or a stutter (lemma `StepRefines`, one
lemma per kind of step). Lemma `DeviceGroupStep` gives `DeviceGroup'` after a
one-thread change, and `KernelMirror` shows the mapped kernel record is
`KernelOf(groups)`. Removal in `PutGroup` is an allowed `Release` because of
lemma `LastUserAlone`: with the count exact, a count of 3 means the caller is
the group's only holder, so no other device uses it.

**The IRQ argument.** The IRQ invariants are proved together, with
`TypeOK`, in one inductive invariant. A request is in range only because the
entry it was checked against carries the kernel's count, so the invariant
adds `IrqTableFaithful` (defined in `VfioIrqProofs`): `irqs[i]` is index
`i`'s entry with the kernel's count. `SetIrqsStep` handles the one kernel call,
given the caller's checks. An accepted enable installs only vectors of the
index (`EnabledVectors`).

The value `max_interrupts` returned stays right only because `irqs` never
changes after it ran. The invariant therefore adds that `maxIrq` is -1 until
discovery. `MaxStepFacts` describes one loop iteration, and
`MaxInterruptsStep` applies it three times.

**The DMA argument.** `AllOrNothingOk` is inductive together with `TypeOK`.
An Ok from a whole-memory call means the failing position is past the end,
and the prefix before that position is all of `Regions` (lemma
`PrefixFacts`).

**The region argument.** What an access does depends on the region it
indexes, so the inductive invariant adds `FromKernel`: every entry of the
list is `RegionOf(j)` for some kernel index `j`. It also says no access
has happened before discovery, and that an issued access indexed an
existing entry. For `GetRegions` this needs `Pushed(kept, k) \in kept`
(lemma `PushedInKept`). The rank map `j |-> Cardinality(Below(kept, j))`
is injective into `0..n-1` (`BelowGrows`), so by cardinality it is onto.
Each access step is handled by `CallStep`, given the caller's checks. Its
arithmetic needs `Limit > 0`, which is proved as the number of subsets of
`1..AddrBits`, with no induction. `NoWrapAccessInRegion` needs the file
offset `region.offset + addr` not to wrap, which `KernelRegionsFit` gives.
The inductive invariant was first checked with TLC on the `region_io`
instance.

**The capability-chain argument.** A header the walk reads is typed only
because `next` stays at or above `Base` while walking, so a read below
`argsz` lands on a slot of the buffer. `TInv` adds this to `TypeOK`. The
constant assumption `CapChainConstants` types the reply buffers and headers
as naturals.

`ReadsInBuffer` holds only on well-formed replies. `WellFormedReply` says
the structure the kernel lays out at each slot (`CapSlots`, the uapi size)
ends within `argsz`. It also says `cap_offset` and every `next` either end
the walk or point into the buffer. This is the hypothesis the code relies on
without checking it; the `cap_overread` run shows what happens without it.

Under that hypothesis `IInv` adds that `next` stays below `argsz` while
walking. Lemma `ReadSlotsWithinCap` shows the code reads no more of a
capability than the kernel lays out. `MC_VfioCapChain` asserts that the
kernel-built replies of the `cap_chain` run are well formed
(`KernelRepliesWellFormed`). `IInv` was checked with TLC on that instance
before it was proved.

`DecodedCaps` needs to know where the walk is in the chain. The code keeps
no such position, but the iteration count `iter` serves. `WalkInv` says
that, on a buffer with capabilities at `cap_offset`:
- while walking, `next` is the offset of `chain[iter + 1]` (`ChainAt`);
- `caps` is `chain[1..iter]` decoded (`DecodedPrefix`);
- the walk ends only after the last entry.

Lemma `PrefixStep` carries `DecodedPrefix` across one read. For a known
capability, the enumeration `f` is extended by `iter + 1`. That position
is above every earlier one, so `f` stays increasing, and `Append` leaves
the earlier entries in place. An unknown capability keeps `f`. `DInv`,
that is `IInv` and `WalkInv`, was checked with TLC on the `cap_chain`
instance before it was proved.

**The capability-call refinement.** `CallInv` adds two facts to `DInv`:
the walk runs only on a reply with capabilities at `cap_offset`, and
`caps` is empty before the re-query. From `CallInv`, lemma `StepRefines`
maps the code's steps onto `CapDecode`:
- `Query` is `ReturnNone`, `ReturnErr`, or, when it starts the walk, a
  stutter;
- every `Step` that continues the walk is a stutter;
- the last `Step` is `ReturnCaps`, because `DInv` gives the decoded chain
  there (lemma `DecodedIsPrefix`).

`CallInv` was checked with TLC before it was proved.

## Only model-checked

- **Liveness.** This covers `Terminates` and the refuted `RecoveryEnds`.
  TLAPS does not handle fairness and ENABLED here. For `Terminates`, the
  proved part is `WalkWithinChainThm`: on chained replies the loop stops
  before `Len(chain)` iterations, so the model's `MaxIter` guard never
  disables `Step` there. Turning that into termination needs weak
  fairness and ENABLED, which is left to TLC.
- **What recursive definitions compute.** This covers `Layout` in the
  CapChain instance. That the replies it builds are well formed and
  chained is checked by TLC, as the `ASSUME`s of `MC_VfioCapChain`, for
  every chain of up to three capabilities.

## Findings

- **Concurrent drop leak** (`leak_concurrent_drop`, `vfio_device.rs:335`).
  The comment on `VfioGroup` says the code assumes one device per group,
  and the `strong_count == 3` test is only right under it; nothing enforces
  it. With two devices of a group, the Arc clone of `drop` (`:1087`) and the
  device's own Arc are dropped outside the lock, so both droppers can miss
  the test.
- **Leak on failed construction** (`vfio_device.rs:739`). If `get_device`
  fails after `get_group`, `VfioDevice::new` returns through `?` without
  `put_group`. This is visible in one reading and testable, so no separate
  run repeats it.
- **Unbind failure** (`unset_failure`, `:241`). The spec keeps the map entry
  when the unbind fails. Nothing then reattaches the group for its next
  device.
- **u64 wrap in region I/O** (`region_overflow`, `:1003`, `:1037`). In a
  release build the end check is bypassed and the transfer is issued at
  `region.offset + addr` (wrapped), outside the region picked. TLC's trace
  is a one-byte `region_read` of region 0 at `2^w - 1`, past every region.
  For region `i >= 1` the offset wraps below the region: in the checked
  layout (region `i` at `8i`) into an earlier region, on vfio-pci's layout
  (region `i` at `i << 40`) past the end of region `i - 1`, where the
  kernel refuses the access. So on vfio-pci the kernel, not the code's
  check, stops it. In a debug build the addition panics.
- **Index shift** (`region_index_shift`, `:702`). `get_regions` stores
  regions by position, while `get_irqs` stores IRQs by index.
- **Capability over-read** (`cap_overread`, `:592-604`). Neither `next` nor
  `nr_areas` is checked against argsz.
- **Unrecoverable DMA failure** (`dma_recovery`, `:288`). `map_all` fails
  at its first region because a single map already mapped it; `unmap_all`
  unmaps region 1 and fails at region 2; every retry then fails at region 1
  on a size-0 reply. The size check turns the retry the spec prescribes
  into a permanent failure.
- **Trigger vector check** (`:782`, no property). `trigger_irq` checks
  `count < vector`, so `vector == count` reaches the kernel, which refuses
  it, and the call returns `VfioDeviceSetIrq`: the same outcome a check of
  `vector >= count` gives. The model keeps both checks as the code and the
  kernel do; no property can tell the two apart by outcome.
- **Cyclic capability chain** (`:654`, no run). A cyclic chain makes the walk
  loop forever. The spec lists this as a known issue; the mutant run of
  `Terminates` shows the model can detect it.

## Not modelled

- **`VfioContainer::new`, `check_api_version`, `check_extension`,
  `VfioGroup::new`'s viability test and the ioctl encodings.** These are
  reduced to a call that succeeds or fails.
- **`VfioDevice::reset`.** It is one ioctl and changes no library state.
- **The `get_region_*` accessors and `AsRawFd`.** These are read-only.
- **Data moved by region I/O, and the payload of capabilities.** Both are
  abstracted to what the properties compare: offsets, lengths, ids and
  area counts.

## Plan for later work

- A liveness half of `GroupRegistry` (a group nobody holds is eventually
  removed). The container would fail it exactly on the leak traces.
- A composed model: `VfioDevice::new` running discovery (`VfioIrq`,
  `VfioRegion`) after `VfioContainer`'s `GetGroup`, so that a discovery
  failure feeds the construction leak.
- A statement of the region Vec that does hold: the regions of
  increasing kernel index whose queries succeeded, every region that
  cannot fail among them. As an existential over index maps it is beyond
  TLC for eight regions, so it needs a cheaper form first.
