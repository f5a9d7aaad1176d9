------------------------------ MODULE VfioIrq ------------------------------
(***************************************************************************)
(* The interrupt side of a VfioDevice (vfio_device.rs):                    *)
(* VfioDeviceInfo::get_irqs, run once by VfioDevice::new, builds the       *)
(* device's HashMap from IRQ index to VfioIrq; then trigger_irq,          *)
(* enable_irq, disable_irq, unmask_irq and max_interrupts use that map    *)
(* and issue VFIO_DEVICE_SET_IRQS requests to the kernel.                  *)
(*                                                                         *)
(* The kernel side is the vector count it reports for every index          *)
(* (kinfo) and the set of vectors of each index that have an eventfd      *)
(* installed.  The kernel validates a SET_IRQS request against its own    *)
(* count: start + count must not exceed it.                                *)
(***************************************************************************)
EXTENDS Integers, Sequences

CONSTANTS
    NumIrqs,    \* num_irqs reported by VFIO_DEVICE_GET_INFO
    MaxCount,   \* largest vector count the kernel reports for one index
    MaxFds,     \* most event fds a caller passes to enable_irq
    Faults      \* kernel calls that may fail: "GetIrqInfo", "SetIrqs"

\* VFIO_PCI_INTX_IRQ_INDEX, VFIO_PCI_MSI_IRQ_INDEX, VFIO_PCI_MSIX_IRQ_INDEX
INTX == 0
MSI == 1
MSIX == 2

\* get_device refuses a device with fewer than MSIX + 1 IRQ indices.
ASSUME IrqConstants ==
    /\ NumIrqs \in Nat /\ NumIrqs >= MSIX + 1
    /\ MaxCount \in Nat /\ MaxFds \in Nat \ {0}
    /\ Faults \subseteq {"GetIrqInfo", "SetIrqs"}

Indices == 0..(NumIrqs - 1)
Vectors == 0..(MaxCount - 1)

\* The indices in the order get_irqs visits them: 0..num_irqs.
IndexSeq == [k \in 1..NumIrqs |-> k - 1]

VARIABLES
    kinfo,      \* kinfo[i]: the vector count the kernel reports for index i
    discovered, \* get_irqs has run (the VfioDevice exists)
    irqs,       \* the device's irqs: HashMap<u32, VfioIrq>
    installed,  \* installed[i]: vectors of index i with an eventfd trigger
    req,        \* the last VFIO_DEVICE_SET_IRQS request issued, and whether
                \* the call returned Ok
    maxIrq      \* the last value max_interrupts returned, or -1

vars == <<kinfo, discovered, irqs, installed, req, maxIrq>>

NoReq == [op |-> "none", index |-> 0, start |-> 0, count |-> 0, ok |-> TRUE]

Init ==
    /\ kinfo \in [Indices -> 0..MaxCount]
    /\ discovered = FALSE
    /\ irqs = [i \in {} |-> [index |-> i, count |-> 0]]
    /\ installed = [i \in Indices |-> {}]
    /\ req = NoReq
    /\ maxIrq = -1

\* The outcomes of the VFIO_DEVICE_GET_IRQ_INFO calls of get_irqs: the
\* indices whose call fails.
FailedSets ==
    IF "GetIrqInfo" \in Faults THEN SUBSET Indices ELSE {{}}

\* Mutant: entries keyed by their position among the successful calls,
\* the way get_regions numbers regions.
GetIrqsByPosition ==
    /\ ~discovered
    /\ \E failed \in FailedSets :
         LET ok == SelectSeq(IndexSeq, LAMBDA i : i \notin failed) IN
         irqs' = [k \in 0..(Len(ok) - 1) |->
                    [index |-> ok[k + 1], count |-> kinfo[ok[k + 1]]]]
    /\ discovered' = TRUE
    /\ UNCHANGED <<kinfo, installed, req, maxIrq>>

\* get_irqs: for every index, query the kernel; a failed query is logged
\* and skipped, a successful one inserted under its index.
GetIrqs ==
    /\ ~discovered
    /\ \E failed \in FailedSets :
         irqs' = [i \in Indices \ failed |-> [index |-> i, count |-> kinfo[i]]]
    /\ discovered' = TRUE
    /\ UNCHANGED <<kinfo, installed, req, maxIrq>>

\* The vfio_irq_set a call builds, its outcome not yet known.
IrqSet(op, i, start, count) ==
    [op |-> op, index |-> i, start |-> start, count |-> count, ok |-> FALSE]

\* The kernel's answer to VFIO_DEVICE_SET_IRQS and the code's test of the
\* return value: a request beyond the index's vectors is refused (EINVAL),
\* any request may fail when the call is in Faults, and a failure is
\* returned as VfioDeviceSetIrq; an accepted one installs eventfds on
\* vectors [start, start + count), leaving the other vectors as they were
\* (the kernel's vfio_msi_set_block touches only the listed ones), clears the index when count is 0, or
\* triggers or unmasks vectors without changing what is installed.
SetIrqs(r) ==
    \/ /\ r.start + r.count <= kinfo[r.index]
       /\ req' = [r EXCEPT !.ok = TRUE]
       /\ installed' =
            CASE r.op = "enable"  -> [installed EXCEPT ![r.index] =
                                        @ \cup r.start..(r.start + r.count - 1)]
              [] r.op = "disable" -> [installed EXCEPT ![r.index] = {}]
              [] OTHER            -> installed
    \/ /\ r.start + r.count > kinfo[r.index] \/ "SetIrqs" \in Faults
       /\ req' = [r EXCEPT !.ok = FALSE]
       /\ UNCHANGED installed

\* The irqs entry of index i is absent or has no vectors.
NoVectors(i) == i \notin DOMAIN irqs \/ irqs[i].count = 0

\* Mutant: trigger_irq without its vector check.
TriggerIrqUnchecked(i, v) ==
    /\ discovered
    /\ i \in DOMAIN irqs
    /\ SetIrqs(IrqSet("trigger", i, v, 1))
    /\ UNCHANGED <<kinfo, discovered, irqs, maxIrq>>

\* trigger_irq(irq_index, vector): fail when the index is unknown or
\* irq.count < vector, else trigger one vector with DATA_NONE.
TriggerIrq(i, v) ==
    /\ discovered
    /\ i \in DOMAIN irqs
    /\ ~(irqs[i].count < v)
    /\ SetIrqs(IrqSet("trigger", i, v, 1))
    /\ UNCHANGED <<kinfo, discovered, irqs, maxIrq>>

\* Mutant: enable_irq without the check against the number of fds.
EnableIrqNoLenCheck(i, n) ==
    /\ discovered
    /\ ~NoVectors(i)
    /\ SetIrqs(IrqSet("enable", i, 0, n))
    /\ UNCHANGED <<kinfo, discovered, irqs, maxIrq>>

\* enable_irq(irq_index, event_fds) with n fds: fail when the index is
\* unknown, has no vectors or fewer vectors than fds; else install the fds
\* on vectors 0..n-1.
EnableIrq(i, n) ==
    /\ discovered
    /\ ~NoVectors(i)
    /\ ~(irqs[i].count < n)
    /\ SetIrqs(IrqSet("enable", i, 0, n))
    /\ UNCHANGED <<kinfo, discovered, irqs, maxIrq>>

\* disable_irq(irq_index): same lookup, then DATA_NONE with count 0.
DisableIrq(i) ==
    /\ discovered
    /\ ~NoVectors(i)
    /\ SetIrqs(IrqSet("disable", i, 0, 0))
    /\ UNCHANGED <<kinfo, discovered, irqs, maxIrq>>

\* unmask_irq(irq_index): same lookup, then ACTION_UNMASK of vector 0.
UnmaskIrq(i) ==
    /\ discovered
    /\ ~NoVectors(i)
    /\ SetIrqs(IrqSet("unmask", i, 0, 1))
    /\ UNCHANGED <<kinfo, discovered, irqs, maxIrq>>

\* One iteration of the loop of max_interrupts: the count of index i
\* replaces the running maximum m when i is in irqs and its count is larger.
MaxStep(m, i) ==
    IF i \in DOMAIN irqs /\ irqs[i].count > m THEN irqs[i].count ELSE m

\* Mutant: the index list forgets MSI-X.
MaxInterruptsNoMsix ==
    /\ discovered
    /\ maxIrq' = MaxStep(MaxStep(0, INTX), MSI)
    /\ UNCHANGED <<kinfo, discovered, irqs, installed, req>>

\* max_interrupts: the loop, from 0, over the fixed vec![INTX, MSI, MSIX].
MaxInterrupts ==
    /\ discovered
    /\ maxIrq' = MaxStep(MaxStep(MaxStep(0, INTX), MSI), MSIX)
    /\ UNCHANGED <<kinfo, discovered, irqs, installed, req>>

\* Callers pass any u32 index and vector; the sets cover every known index
\* and one unknown, every vector up to one past the largest count, and
\* 0..MaxFds fds.  A failed lookup or check returns VfioDeviceSetIrq
\* before any ioctl and changes nothing, so it is a stuttering step.
Next ==
    \/ GetIrqs
    \/ MaxInterrupts
    \/ \E i \in 0..NumIrqs :
         \/ \E v \in 0..(MaxCount + 1) : TriggerIrq(i, v)
         \/ \E n \in 0..MaxFds : EnableIrq(i, n)
         \/ DisableIrq(i)
         \/ UnmaskIrq(i)

Spec == Init /\ [][Next]_vars

-----------------------------------------------------------------------------
(* Properties *)

\* Every variable has its type; a request never names a vector beyond the
\* largest count plus one.
TypeOK ==
    /\ kinfo \in [Indices -> 0..MaxCount]
    /\ discovered \in BOOLEAN
    /\ DOMAIN irqs \subseteq Indices
    /\ \A i \in DOMAIN irqs : irqs[i] \in [index : Indices, count : 0..MaxCount]
    /\ installed \in [Indices -> SUBSET Vectors]
    /\ req \in [op : {"none", "trigger", "enable", "disable", "unmask"},
                index : Indices, start : 0..MaxCount, count : 0..MaxFds,
                ok : BOOLEAN]
    /\ maxIrq \in -1..MaxCount

\* enable_irq, disable_irq and unmask_irq only send the kernel requests
\* within the index's vectors, whatever indices discovery skipped.
SetIrqsInRange ==
    req.op \in {"enable", "disable", "unmask"} =>
        req.start + req.count <= kinfo[req.index]

\* max_interrupts returns the largest vector count among INTX, MSI and
\* MSI-X present in irqs, and 0 when none is present.
MaxInterruptsCorrect ==
    LET present == {INTX, MSI, MSIX} \cap DOMAIN irqs
        counts == {irqs[i].count : i \in present}
    IN  maxIrq # -1 =>
          /\ maxIrq \in counts \cup {0}
          /\ \A c \in counts : c <= maxIrq

=============================================================================
