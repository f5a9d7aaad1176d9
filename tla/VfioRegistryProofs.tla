------------------------- MODULE VfioRegistryProofs -------------------------
(***************************************************************************)
(* Proof that the group lifecycle of VfioContainer implements the abstract *)
(* GroupRegistry when VFIO_GROUP_UNSET_CONTAINER cannot fail, for every    *)
(* finite set of threads and groups and every other set of failing calls.  *)
(*                                                                         *)
(* get_group handing out a group is Acquire; put_group, and a failed       *)
(* VfioDevice::new dropping the group, are Release; every other step is a  *)
(* stutter of the registry.  Two facts carry the proof: the kernel mirrors *)
(* the map (KernelAgrees), and a thread that sees strong count 3 is the    *)
(* only device holding its group (LastUserAlone, from RefCountExact).      *)
(***************************************************************************)
EXTENDS VfioContainerProofs

\* The thread states in which a device uses its group, for DeviceGroup.
UserStates == {"opening", "open", "put"}

\* A step of thread t to state p with group q changes DeviceGroup at t
\* only.
LEMMA DeviceGroupStep ==
    ASSUME NEW t \in Threads, NEW p, NEW q,
           pc' = [pc EXCEPT ![t] = p],
           grp' = [grp EXCEPT ![t] = q],
           pc \in [Threads -> ThreadStates],
           grp \in [Threads -> GroupIds \cup {NoGroup}]
    PROVE  DeviceGroup' =
             [DeviceGroup EXCEPT ![t] = IF p \in UserStates THEN q ELSE NoGroup]
<1>1. \A u \in Threads :
          DeviceGroup'[u] = IF u = t
                            THEN IF p \in UserStates THEN q ELSE NoGroup
                            ELSE DeviceGroup[u]
    BY DEF DeviceGroup, UserStates
<1>. QED
    BY <1>1 DEF DeviceGroup

\* The registry's kernel record under the refinement mapping.
KernelRec == [domain |-> bound, hypervisor |-> kvm, backend |-> iommuSet]

\* While the kernel agrees with the map, it is the registry's mirror.
LEMMA KernelMirror ==
    ASSUME KernelAgrees,
           iommuSet \in BOOLEAN
    PROVE  KernelRec = Registry!KernelOf(groups)
    BY DEF KernelAgrees, ContainerConsistent, KernelRec, Registry!KernelOf

\* The steps that neither hand out nor release a device's group.
LEMMA StutterSteps ==
    ASSUME IInv, NEW t \in Threads,
           \/ \E g \in GroupIds : StartOpen(t, g)
           \/ GetDevice(t) /\ pc'[t] = "open"
           \/ Drop(t) \/ ReleaseClone(t) \/ ReleaseOwn(t)
           \/ GetGroup(t) /\ pc'[t] = "idle"
    PROVE  UNCHANGED Registry!regVars
<1>1. /\ pc \in [Threads -> ThreadStates]
      /\ UNCHANGED <<groups, bound, kvm, iommuSet>>
    BY DEF IInv, TypeOK, StartOpen, GetDevice, Drop, ReleaseClone,
           ReleaseOwn, GetGroup
<1>2. PICK p, q : /\ pc' = [pc EXCEPT ![t] = p]
                  /\ grp' = [grp EXCEPT ![t] = q]
                  /\ (p \in UserStates) = (pc[t] \in UserStates)
                  /\ p \in UserStates => q = grp[t]
    BY DEF StartOpen, GetDevice, Drop, ReleaseClone, ReleaseOwn, GetGroup,
           UserStates, IInv, TypeOK
<1>3. DeviceGroup' = DeviceGroup
    BY <1>1, <1>2, DeviceGroupStep DEF DeviceGroup, UserStates
<1>. QED
    BY <1>1, <1>3 DEF Registry!regVars

\* get_group returning a group to thread t is an Acquire of that group.
LEMMA GetGroupAcquires ==
    ASSUME IInv, KernelAgrees, NEW t \in Threads, GetGroup(t),
           pc'[t] = "opening"
    PROVE  Registry!Acquire(t, grp[t])
<1> DEFINE g == grp[t]
<1>0. /\ pc[t] = "new" /\ g \in GroupIds
      /\ pc \in [Threads -> ThreadStates]
      /\ grp \in [Threads -> GroupIds \cup {NoGroup}]
      /\ pc' = [pc EXCEPT ![t] = "opening"]
      /\ UNCHANGED grp
    BY DEF GetGroup, IInv, GrpTyped, TypeOK
<1>1. DeviceGroup[t] = NoGroup
    BY <1>0 DEF DeviceGroup
<1>2. DeviceGroup' = [DeviceGroup EXCEPT ![t] = g]
    <2>1. grp' = [grp EXCEPT ![t] = g]
        BY <1>0
    <2>2. DeviceGroup' = [DeviceGroup EXCEPT
                             ![t] = IF "opening" \in UserStates THEN g ELSE NoGroup]
        BY <1>0, <2>1, DeviceGroupStep
    <2>. QED
        BY <2>2 DEF UserStates
<1>3. CASE g \in groups
    <2>1. UNCHANGED <<groups, bound, iommuSet, kvm>>
        BY <1>0, <1>3 DEF GetGroup
    <2>2. groups' = groups \cup {g} /\ KernelRec' = KernelRec
        BY <1>3, <2>1 DEF KernelRec
    <2>3. KernelRec = Registry!KernelOf(groups)
        BY KernelMirror DEF IInv, TypeOK
    <2>4. KernelRec' = Registry!KernelOf(groups')
        BY <2>1, <2>2, <2>3
    <2>. QED
        BY <1>1, <1>2, <2>2, <2>4 DEF Registry!Acquire, KernelRec
<1>4. CASE g \notin groups
    <2>1. /\ groups' = groups \cup {g}
          /\ bound' = bound \cup {g}
          /\ kvm' = kvm \cup {g}
          /\ iommuSet' = TRUE
        BY <1>0, <1>4 DEF GetGroup
    <2>2. KernelRec' = Registry!KernelOf(groups')
        BY <2>1 DEF KernelAgrees, ContainerConsistent, KernelRec,
                    Registry!KernelOf
    <2>. QED
        BY <1>1, <1>2, <2>1, <2>2 DEF Registry!Acquire, KernelRec
<1>. QED
    BY <1>3, <1>4

\* VfioDevice::new failing after get_group drops the group: a Release
\* that keeps it.
LEMMA GetDeviceReleases ==
    ASSUME IInv, NEW t \in Threads, GetDevice(t), pc'[t] = "idle"
    PROVE  Registry!Release(t)
<1>0. /\ pc[t] = "opening" /\ grp[t] \in GroupIds
      /\ pc \in [Threads -> ThreadStates]
      /\ grp \in [Threads -> GroupIds \cup {NoGroup}]
      /\ pc' = [pc EXCEPT ![t] = "idle"]
      /\ grp' = [grp EXCEPT ![t] = NoGroup]
      /\ UNCHANGED <<groups, bound, iommuSet, kvm>>
    BY DEF GetDevice, IInv, GrpTyped, TypeOK
<1>1. DeviceGroup[t] = grp[t] /\ grp[t] # NoGroup
    BY <1>0, ConstantsAssumption DEF DeviceGroup
<1>2. DeviceGroup' = [DeviceGroup EXCEPT ![t] = NoGroup]
    BY <1>0, DeviceGroupStep DEF UserStates
<1>. QED
    BY <1>0, <1>1, <1>2 DEF Registry!Release

\* put_group is a Release: it keeps the group, or removes it when it is
\* the only device using it.
LEMMA PutGroupReleases ==
    ASSUME IInv, KernelAgrees, "UnsetContainer" \notin Faults,
           NEW t \in Threads, PutGroup(t)
    PROVE  Registry!Release(t)
<1> DEFINE g == grp[t]
<1>0. /\ pc[t] = "put" /\ g \in GroupIds /\ g \in groups
      /\ pc \in [Threads -> ThreadStates]
      /\ grp \in [Threads -> GroupIds \cup {NoGroup}]
      /\ pc' = [pc EXCEPT ![t] = "dropClone"]
      /\ grp' = [grp EXCEPT ![t] = g]
      /\ RefCountExact
    BY DEF PutGroup, IInv, GrpTyped, LiveInMap, TypeOK
<1>1. DeviceGroup[t] = g /\ g # NoGroup
    BY <1>0, ConstantsAssumption DEF DeviceGroup
<1>2. DeviceGroup' = [DeviceGroup EXCEPT ![t] = NoGroup]
    <2>1. DeviceGroup' = [DeviceGroup EXCEPT
                             ![t] = IF "dropClone" \in UserStates THEN g ELSE NoGroup]
        BY <1>0, DeviceGroupStep
    <2>. QED
        BY <2>1 DEF UserStates
<1>3. CASE UNCHANGED <<groups, refs, bound, iommuSet, kvm>>
    BY <1>1, <1>2, <1>3 DEF Registry!Release
<1>4. CASE LastUser(g) /\ RemoveGroup(g)
    <2>1. \A u \in Threads \ {t} : DeviceGroup[u] # g
        <3>1. OwnHolders(g) = {t}
            BY <1>0, <1>4, LastUserAlone
        <3>2. SUFFICES ASSUME NEW u \in Threads \ {t}, DeviceGroup[u] = g
                       PROVE  FALSE
            OBVIOUS
        <3>3. pc[u] \in UserStates /\ grp[u] = g
            BY <3>2, <1>1, ConstantsAssumption DEF DeviceGroup, UserStates
        <3>4. u \in OwnHolders(g)
            BY <3>3 DEF OwnHolders, OwnStates, UserStates
        <3>. QED
            BY <3>1, <3>4
    <2>2. /\ groups' = groups \ {g}
          /\ bound' = bound \ {g}
          /\ kvm' = kvm \ {g}
          /\ iommuSet' = (bound' # {})
        BY <1>4 DEF RemoveGroup
    <2>3. KernelRec' = Registry!KernelOf(groups')
        BY <2>2 DEF KernelAgrees, ContainerConsistent, KernelRec,
                    Registry!KernelOf
    <2>. QED
        BY <1>1, <1>2, <2>1, <2>2, <2>3 DEF Registry!Release, KernelRec
<1>5. \/ UNCHANGED <<groups, refs, bound, iommuSet, kvm>>
      \/ LastUser(g) /\ RemoveGroup(g)
    BY DEF PutGroup
<1>. QED
    BY <1>3, <1>4, <1>5

\* Every step of the code is a step of the registry or leaves what the
\* registry sees unchanged.
LEMMA StepRefines ==
    ASSUME "UnsetContainer" \notin Faults
    PROVE  IInv /\ KernelAgrees /\ [Next]_vars
             => [Registry!RegNext]_Registry!regVars
<1> SUFFICES ASSUME IInv, KernelAgrees, [Next]_vars
             PROVE  [Registry!RegNext]_Registry!regVars
    OBVIOUS
<1>1. CASE \E t \in Threads :
             \/ \E g \in GroupIds : StartOpen(t, g)
             \/ Drop(t) \/ ReleaseClone(t) \/ ReleaseOwn(t)
    BY <1>1, StutterSteps
<1>2. CASE \E t \in Threads : GetGroup(t)
    <2>1. PICK t \in Threads : GetGroup(t)
        BY <1>2
    <2>2. pc'[t] \in {"opening", "idle"}
        BY <2>1 DEF GetGroup, IInv, TypeOK
    <2>3. CASE pc'[t] = "opening"
        <3>1. grp[t] \in GroupIds
            BY <2>1 DEF GetGroup, IInv, GrpTyped
        <3>. QED
            BY <2>1, <2>3, <3>1, GetGroupAcquires DEF Registry!RegNext
    <2>4. CASE pc'[t] = "idle"
        BY <2>1, <2>4, StutterSteps
    <2>. QED
        BY <2>2, <2>3, <2>4
<1>3. CASE \E t \in Threads : GetDevice(t)
    <2>1. PICK t \in Threads : GetDevice(t)
        BY <1>3
    <2>2. pc'[t] \in {"open", "idle"}
        BY <2>1 DEF GetDevice, IInv, TypeOK
    <2>3. CASE pc'[t] = "open"
        BY <2>1, <2>3, StutterSteps
    <2>4. CASE pc'[t] = "idle"
        BY <2>1, <2>4, GetDeviceReleases DEF Registry!RegNext
    <2>. QED
        BY <2>2, <2>3, <2>4
<1>4. CASE \E t \in Threads : PutGroup(t)
    BY <1>4, PutGroupReleases DEF Registry!RegNext
<1>5. CASE UNCHANGED vars
    BY <1>5 DEF vars, Registry!regVars, DeviceGroup
<1>. QED
    BY <1>1, <1>2, <1>3, <1>4, <1>5 DEF Next

\* When VFIO_GROUP_UNSET_CONTAINER cannot fail, get_group and put_group
\* implement the abstract registry (ImplementsRegistry): each device's
\* acquire and release is atomic, a group is torn down only when no other
\* device uses it, and the container and hypervisor mirror the map.  (The
\* run unset_failure shows a failing unbind breaks it.)
THEOREM RegistryRefinement ==
    ASSUME "UnsetContainer" \notin Faults
    PROVE  Spec => ImplementsRegistry
<1>1. Init => Registry!RegInit
    BY DEF Init, Registry!RegInit, DeviceGroup, Registry!KernelOf
<1>2. Init => KernelAgrees
    BY DEF Init, KernelAgrees, ContainerConsistent
<1>3. KernelAgrees /\ [Next]_vars => KernelAgrees'
    BY AgreesStep
<1>4. IInv /\ KernelAgrees /\ [Next]_vars
        => [Registry!RegNext]_Registry!regVars
    BY StepRefines
<1>. QED
    BY <1>1, <1>2, <1>3, <1>4, InitIInv, NextIInv, PTL
       DEF Spec, ImplementsRegistry, Registry!RegSpec

=============================================================================
