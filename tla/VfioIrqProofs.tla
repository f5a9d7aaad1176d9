---------------------------- MODULE VfioIrqProofs ----------------------------
(***************************************************************************)
(* Proofs, for every number of IRQ indices, vector count, fd count and     *)
(* set of failing kernel calls, of the safety invariants of VfioIrq: every *)
(* variable keeps its type, enable_irq, disable_irq and unmask_irq send    *)
(* only requests within the index's vectors, and max_interrupts returns   *)
(* the largest count of INTX, MSI and MSI-X.                              *)
(*                                                                         *)
(* They are not inductive alone: a step's request is in range only        *)
(* because the irqs entry it was checked against carries the kernel's     *)
(* count (IrqTableFaithful), and the value max_interrupts returned stays  *)
(* right only because irqs never changes after it ran: get_irqs runs      *)
(* before any max_interrupts, so IInv adds that maxIrq is -1 until        *)
(* discovery.  The loop of max_interrupts is over a fixed three-element   *)
(* vec, so MaxStepFacts, about one iteration, is applied three times.     *)
(***************************************************************************)
EXTENDS VfioIrq, TLAPS

\* get_irqs keeps every descriptor under the index the kernel described,
\* with the kernel's count.
IrqTableFaithful ==
    \A i \in DOMAIN irqs : irqs[i].index = i /\ irqs[i].count = kinfo[i]

\* The inductive invariant.
IInv ==
    /\ TypeOK
    /\ ~discovered => maxIrq = -1
    /\ IrqTableFaithful
    /\ SetIrqsInRange
    /\ MaxInterruptsCorrect

\* The three PCI interrupt indices are distinct indices of the device.
LEMMA PciIndices ==
    /\ {INTX, MSI, MSIX} \subseteq Indices
    /\ INTX # MSI /\ MSI # MSIX /\ INTX # MSIX
BY IrqConstants DEF Indices, INTX, MSI, MSIX

LEMMA InitIInv == Init => IInv
<1> SUFFICES ASSUME Init PROVE IInv
  OBVIOUS
<1>1. NoReq \in [op : {"none", "trigger", "enable", "disable", "unmask"},
                 index : Indices, start : 0..MaxCount, count : 0..MaxFds,
                 ok : BOOLEAN]
  BY IrqConstants DEF NoReq, Indices, MSIX
<1>2. installed \in [Indices -> SUBSET Vectors] /\ maxIrq \in -1..MaxCount
  BY IrqConstants DEF Init
<1>3. TypeOK
  BY <1>1, <1>2 DEF Init, TypeOK
<1> QED
  BY <1>3 DEF Init, IInv, NoReq, IrqTableFaithful, SetIrqsInRange, MaxInterruptsCorrect

\* The vectors an accepted enable installs are vectors of the index.
LEMMA EnabledVectors ==
    ASSUME NEW s \in Nat, NEW c \in Nat, s + c <= MaxCount
    PROVE  s..(s + c - 1) \subseteq Vectors
<1> SUFFICES ASSUME NEW x \in s..(s + c - 1) PROVE x \in 0..(MaxCount - 1)
  BY DEF Vectors
<1> QED
  BY IrqConstants

\* One VFIO_DEVICE_SET_IRQS call of enable_irq, disable_irq, unmask_irq or
\* trigger_irq keeps IInv, given the checks the caller made before it: a
\* non-trigger request within the kernel's count, and a trigger of one
\* vector.
LEMMA SetIrqsStep ==
    ASSUME IInv,
           NEW op \in {"trigger", "enable", "disable", "unmask"},
           NEW i \in Indices, NEW s \in 0..MaxCount, NEW c \in 0..MaxFds,
           op # "trigger" => s + c <= kinfo[i],
           op = "trigger" => c = 1,
           SetIrqs(IrqSet(op, i, s, c)),
           UNCHANGED <<kinfo, discovered, irqs, maxIrq>>
    PROVE  IInv'
<1> DEFINE r == IrqSet(op, i, s, c)
<1>0. kinfo[i] \in 0..MaxCount
  BY DEF IInv, TypeOK
<1>1. /\ req'.op = op /\ req'.index = i
      /\ req'.start = s /\ req'.count = c
      /\ req'.ok => s + c <= kinfo[i]
      /\ req' \in [op : {"none", "trigger", "enable", "disable", "unmask"},
                   index : Indices, start : 0..MaxCount, count : 0..MaxFds,
                   ok : BOOLEAN]
  BY DEF SetIrqs, IrqSet
<1>2. installed' \in [Indices -> SUBSET Vectors]
  <2>1. installed \in [Indices -> SUBSET Vectors]
    BY DEF IInv, TypeOK
  <2>2. CASE r.start + r.count <= kinfo[r.index]
             /\ installed' =
                  CASE r.op = "enable"  -> [installed EXCEPT ![r.index] =
                                              @ \cup r.start..(r.start + r.count - 1)]
                    [] r.op = "disable" -> [installed EXCEPT ![r.index] = {}]
                    [] OTHER            -> installed
    <3>0. s + c <= MaxCount
      BY <1>0, <2>2, IrqConstants DEF IrqSet
    <3>1. s..(s + c - 1) \subseteq Vectors
      BY <3>0, EnabledVectors
    <3>2. CASE op = "enable"
      <4>1. installed' = [installed EXCEPT ![i] = @ \cup s..(s + c - 1)]
        BY <2>2, <3>2, Zenon DEF IrqSet
      <4> QED
        BY <2>1, <3>1, <4>1
    <3>3. CASE op = "disable"
      <4>1. installed' = [installed EXCEPT ![i] = {}]
        BY <2>2, <3>3, Zenon DEF IrqSet
      <4> QED
        BY <2>1, <4>1
    <3>4. CASE op # "enable" /\ op # "disable"
      <4>1. installed' = installed
        BY <2>2, <3>4, Zenon DEF IrqSet
      <4> QED
        BY <2>1, <4>1
    <3> QED
      BY <3>2, <3>3, <3>4
  <2>3. CASE UNCHANGED installed
    BY <2>1, <2>3
  <2> QED
    BY <2>2, <2>3 DEF SetIrqs
<1>3. TypeOK'
  BY <1>1, <1>2 DEF IInv, TypeOK
<1>4. SetIrqsInRange'
  BY <1>0, <1>1 DEF SetIrqsInRange
<1>5. IrqTableFaithful' /\ MaxInterruptsCorrect' /\ (~discovered => maxIrq = -1)'
  BY DEF IInv, IrqTableFaithful, MaxInterruptsCorrect
<1> QED
  BY <1>3, <1>4, <1>5 DEF IInv

\* An irqs entry that has passed a caller's lookup is an entry of a device
\* index whose count is the kernel's.
LEMMA EntryCount ==
    ASSUME IInv, NEW i \in DOMAIN irqs
    PROVE  i \in Indices /\ irqs[i].count = kinfo[i] /\ kinfo[i] \in 0..MaxCount
BY DEF IInv, TypeOK, IrqTableFaithful

\* One iteration of the loop of max_interrupts: the running maximum stays a
\* count, never decreases, becomes the index's count or stays, and is at
\* least the count of the index visited.
LEMMA MaxStepFacts ==
    ASSUME IInv, NEW m \in 0..MaxCount, NEW i
    PROVE  /\ MaxStep(m, i) \in 0..MaxCount
           /\ m <= MaxStep(m, i)
           /\ MaxStep(m, i) = m
                \/ (i \in DOMAIN irqs /\ MaxStep(m, i) = irqs[i].count)
           /\ i \in DOMAIN irqs => irqs[i].count <= MaxStep(m, i)
<1>1. i \in DOMAIN irqs => irqs[i].count \in 0..MaxCount
  BY DEF IInv, TypeOK
<1> QED
  BY <1>1 DEF MaxStep

\* max_interrupts keeps IInv: irqs is the table get_irqs built, and the
\* loop's result is its largest INTX, MSI or MSI-X count, or 0.
LEMMA MaxInterruptsStep ==
    ASSUME IInv, MaxInterrupts
    PROVE  IInv'
<1> DEFINE m1 == MaxStep(0, INTX)
           m2 == MaxStep(m1, MSI)
           m3 == MaxStep(m2, MSIX)
           present == {INTX, MSI, MSIX} \cap DOMAIN irqs
           counts == {irqs[j].count : j \in present}
<1>0. 0 \in 0..MaxCount
  BY IrqConstants
<1>1. /\ m1 \in 0..MaxCount /\ 0 <= m1
      /\ m1 = 0 \/ (INTX \in DOMAIN irqs /\ m1 = irqs[INTX].count)
      /\ INTX \in DOMAIN irqs => irqs[INTX].count <= m1
  BY <1>0, MaxStepFacts
<1>2. /\ m2 \in 0..MaxCount /\ m1 <= m2
      /\ m2 = m1 \/ (MSI \in DOMAIN irqs /\ m2 = irqs[MSI].count)
      /\ MSI \in DOMAIN irqs => irqs[MSI].count <= m2
  BY <1>1, MaxStepFacts
<1>3. /\ m3 \in 0..MaxCount /\ m2 <= m3
      /\ m3 = m2 \/ (MSIX \in DOMAIN irqs /\ m3 = irqs[MSIX].count)
      /\ MSIX \in DOMAIN irqs => irqs[MSIX].count <= m3
  BY <1>2, MaxStepFacts
<1>4. maxIrq' = m3 /\ UNCHANGED <<kinfo, discovered, irqs, installed, req>>
  BY DEF MaxInterrupts
<1>5. m3 \in counts \cup {0}
  <2>1. \/ m3 = 0
        \/ INTX \in DOMAIN irqs /\ m3 = irqs[INTX].count
        \/ MSI \in DOMAIN irqs /\ m3 = irqs[MSI].count
        \/ MSIX \in DOMAIN irqs /\ m3 = irqs[MSIX].count
    BY <1>1, <1>2, <1>3
  <2> QED
    BY <2>1, Zenon
<1>6. \A c \in counts : c <= m3
  <2> SUFFICES ASSUME NEW j \in present PROVE irqs[j].count <= m3
    BY Zenon
  <2>1. m1 \in Nat /\ m2 \in Nat /\ m3 \in Nat
    BY <1>1, <1>2, <1>3, IrqConstants
  <2>2. j \in DOMAIN irqs /\ irqs[j].count \in Nat
    BY IrqConstants DEF IInv, TypeOK
  <2>3. CASE j = INTX
    BY <1>1, <1>2, <1>3, <2>1, <2>2, <2>3
  <2>4. CASE j = MSI
    BY <1>2, <1>3, <2>1, <2>2, <2>4
  <2>5. CASE j = MSIX
    BY <1>3, <2>1, <2>2, <2>5
  <2> QED
    BY <2>3, <2>4, <2>5
<1>7. MaxInterruptsCorrect'
  BY <1>4, <1>5, <1>6 DEF MaxInterruptsCorrect
<1>8. TypeOK'
  <2>1. maxIrq' \in -1..MaxCount
    BY <1>3, <1>4, IrqConstants
  <2> QED
    BY <1>4, <2>1 DEF IInv, TypeOK
<1>9. discovered'
  BY DEF MaxInterrupts
<1> QED
  BY <1>4, <1>7, <1>8, <1>9 DEF IInv, IrqTableFaithful, SetIrqsInRange

LEMMA NextIInv == IInv /\ [Next]_vars => IInv'
<1> SUFFICES ASSUME IInv, [Next]_vars PROVE IInv'
  OBVIOUS
<1>1. CASE GetIrqs
  <2> PICK failed \in FailedSets :
          irqs' = [i \in Indices \ failed |-> [index |-> i, count |-> kinfo[i]]]
    BY <1>1 DEF GetIrqs
  <2>1. maxIrq' = -1
    BY <1>1 DEF GetIrqs, IInv
  <2>2. TypeOK'
    BY <1>1 DEF GetIrqs, IInv, TypeOK
  <2> QED
    BY <1>1, <2>1, <2>2 DEF GetIrqs, IInv, IrqTableFaithful, SetIrqsInRange,
                            MaxInterruptsCorrect
<1>2. CASE MaxInterrupts
  BY <1>2, MaxInterruptsStep
<1>3. ASSUME NEW i \in 0..NumIrqs, NEW v \in 0..(MaxCount + 1),
             TriggerIrq(i, v)
      PROVE  IInv'
  <2>0. i \in DOMAIN irqs /\ ~(irqs[i].count < v)
    BY <1>3 DEF TriggerIrq
  <2>1. i \in Indices /\ v \in 0..MaxCount
    BY <2>0, EntryCount, IrqConstants
  <2>2. 1 \in 0..MaxFds
    BY IrqConstants
  <2> QED
    BY <1>3, <2>1, <2>2, SetIrqsStep DEF TriggerIrq
<1>4. ASSUME NEW i \in 0..NumIrqs, NEW n \in 0..MaxFds, EnableIrq(i, n)
      PROVE  IInv'
  <2>1. i \in DOMAIN irqs
    BY <1>4 DEF EnableIrq, NoVectors
  <2>2. i \in Indices /\ 0 + n <= kinfo[i] /\ 0 \in 0..MaxCount
    BY <1>4, <2>1, EntryCount, IrqConstants DEF EnableIrq
  <2> QED
    BY <1>4, <2>2, SetIrqsStep DEF EnableIrq
<1>5. ASSUME NEW i \in 0..NumIrqs, DisableIrq(i)
      PROVE  IInv'
  <2>1. i \in DOMAIN irqs
    BY <1>5 DEF DisableIrq, NoVectors
  <2>2. i \in Indices /\ 0 + 0 <= kinfo[i] /\ 0 \in 0..MaxCount
        /\ 0 \in 0..MaxFds
    BY <2>1, EntryCount, IrqConstants
  <2> QED
    BY <1>5, <2>2, SetIrqsStep DEF DisableIrq
<1>6. ASSUME NEW i \in 0..NumIrqs, UnmaskIrq(i)
      PROVE  IInv'
  <2>1. i \in DOMAIN irqs /\ irqs[i].count # 0
    BY <1>6 DEF UnmaskIrq, NoVectors
  <2>2. i \in Indices /\ 0 + 1 <= kinfo[i] /\ 0 \in 0..MaxCount
        /\ 1 \in 0..MaxFds
    BY <2>1, EntryCount, IrqConstants
  <2> QED
    BY <1>6, <2>2, SetIrqsStep DEF UnmaskIrq
<1>7. CASE UNCHANGED vars
  BY <1>7 DEF vars, IInv, TypeOK, IrqTableFaithful, SetIrqsInRange,
              MaxInterruptsCorrect
<1> QED
  BY <1>1, <1>2, <1>3, <1>4, <1>5, <1>6, <1>7 DEF Next

\* Every step of discovery, the four IRQ calls and max_interrupts keeps each
\* variable in its type: no eventfd is installed on a vector the index
\* lacks, and no request names a vector beyond the largest count.
THEOREM IrqTypeCorrect == Spec => []TypeOK
<1>1. IInv => TypeOK
  BY DEF IInv
<1> QED
  BY <1>1, InitIInv, NextIInv, PTL DEF Spec

\* enable_irq, disable_irq and unmask_irq never send the kernel a request
\* beyond the index's vectors.
THEOREM SetIrqsInRangeThm == Spec => []SetIrqsInRange
<1>1. IInv => SetIrqsInRange
  BY DEF IInv
<1> QED
  BY <1>1, InitIInv, NextIInv, PTL DEF Spec

\* max_interrupts returns the largest vector count of INTX, MSI and MSI-X
\* present in irqs, or 0, however discovery went and whatever calls came
\* in between.
THEOREM MaxInterruptsCorrectThm == Spec => []MaxInterruptsCorrect
<1>1. IInv => MaxInterruptsCorrect
  BY DEF IInv
<1> QED
  BY <1>1, InitIInv, NextIInv, PTL DEF Spec

=============================================================================
