--------------------------- MODULE VfioContainer ---------------------------
(***************************************************************************)
(* The group lifecycle of a VFIO container (vfio_device.rs):               *)
(* VfioContainer::get_group / put_group, driven by VfioDevice::new and     *)
(* VfioDevice::drop running on concurrent threads.                         *)
(*                                                                         *)
(* Each thread owns at most one VfioDevice at a time and walks through     *)
(*   idle -> new -> opening -> open -> put -> dropClone -> dropOwn -> idle *)
(* where new..opening is VfioDevice::new and put..dropOwn is the Drop impl:*)
(*   put       the device has cloned its Arc<VfioGroup> and calls put_group*)
(*   dropClone put_group has released the lock; its argument is alive     *)
(*   dropOwn   the clone is gone; the device's own `group` field is alive  *)
(* The Arc's strong count is the variable `refs`, changed by every clone   *)
(* and drop of an Arc<VfioGroup> exactly where the Rust code does one.     *)
(*                                                                         *)
(* The kernel side is the container's set of bound groups, whether the    *)
(* IOMMU backend is set, and the set of groups attached to the hypervisor  *)
(* device (KVM_DEV_VFIO_GROUP_ADD / DEL).  A kernel call whose name is in *)
(* the constant Faults may fail or succeed at each call.                   *)
(***************************************************************************)
EXTENDS Naturals, FiniteSets

CONSTANTS
    Threads,    \* callers that create and drop VfioDevice objects
    GroupIds,   \* IOMMU group numbers (/dev/vfio/<id>)
    NoGroup,    \* the group of a thread that holds no device
    Faults      \* kernel calls that may fail in this model

\* The kernel calls on the group lifecycle paths that can return an error.
FaultKinds == {"OpenGroup", "GroupSetContainer", "SetIommu",
               "DeviceAddGroup", "GetDevice", "DeviceDelGroup",
               "UnsetContainer"}

ASSUME ConstantsAssumption ==
    /\ IsFiniteSet(Threads)
    /\ NoGroup \notin GroupIds
    /\ Faults \subseteq FaultKinds

VARIABLES
    groups,     \* DOMAIN of VfioContainer.groups (the HashMap under the Mutex)
    refs,       \* refs[g]: Arc::strong_count of the VfioGroup of id g
    bound,      \* groups bound to the container (VFIO_GROUP_SET_CONTAINER)
    iommuSet,   \* the container's IOMMU backend has been set (VFIO_SET_IOMMU)
    kvm,        \* groups added to the hypervisor VFIO device
    pc,         \* pc[t]: where thread t is in VfioDevice::new / drop
    grp         \* grp[t]: the group of thread t's device, or NoGroup

vars == <<groups, refs, bound, iommuSet, kvm, pc, grp>>

ThreadStates == {"idle", "new", "opening", "open", "put", "dropClone", "dropOwn"}

\* States in which the device's own `group: Arc<VfioGroup>` is alive.
OwnStates == {"opening", "open", "put", "dropClone", "dropOwn"}

\* States in which the clone made by VfioDevice::drop is alive.
CloneStates == {"put", "dropClone"}

\* Largest strong count: the map entry plus two Arcs per thread.
MaxRefs == 1 + 2 * Cardinality(Threads)

-----------------------------------------------------------------------------

Init ==
    /\ groups = {}
    /\ refs = [g \in GroupIds |-> 0]
    /\ bound = {}
    /\ iommuSet = FALSE
    /\ kvm = {}
    /\ pc = [t \in Threads |-> "idle"]
    /\ grp = [t \in Threads |-> NoGroup]

\* An Arc<VfioGroup> of group g is cloned (+1) or dropped (-1).
IncRef(g) == refs' = [refs EXCEPT ![g] = @ + 1]
DecRef(g) == refs' = [refs EXCEPT ![g] = @ - 1]

\* VfioDevice::new reads the device's iommu_group link and parses the id.
\* (A malformed path returns InvalidPath and changes nothing.)
StartOpen(t, g) ==
    /\ pc[t] = "idle"
    /\ pc' = [pc EXCEPT ![t] = "new"]
    /\ grp' = [grp EXCEPT ![t] = g]
    /\ UNCHANGED <<groups, refs, bound, iommuSet, kvm>>

\* Opening /dev/vfio/<id> in VfioGroup::new fails with EBUSY while a
\* VfioGroup of the same id still holds the file open: the kernel allows
\* one opener of a group file.
GroupBusy(g) == refs[g] > 0

\* The failure outcomes of get_group for a group that is not in the map.
\* VfioGroup::new fails (open, status or viability), the bind fails, the
\* IOMMU backend cannot be set (a fault, or EBUSY when one is already set)
\* or the hypervisor device refuses the group.  Each returns an error and
\* leaves the map and the container as they were: a group bound before the
\* failure is unbound by the rollback, and the new Arc, the only one, is
\* dropped on return, closing the group file, on which the kernel unbinds
\* the group even if the rollback's ignored UNSET_CONTAINER failed.
GetGroupFails(g) ==
    \/ GroupBusy(g)
    \/ "OpenGroup" \in Faults
    \/ "GroupSetContainer" \in Faults
    \/ groups = {} /\ ("SetIommu" \in Faults \/ iommuSet)
    \/ "DeviceAddGroup" \in Faults

\* VfioContainer::get_group(group_id), all of it under the groups lock.
\*   - the id is in the map: clone the entry and return it;
\*   - otherwise create the group, bind it to the container, set the IOMMU
\*     backend if the map is empty, add it to the hypervisor device and
\*     insert it: the map holds one Arc and the caller the other.
GetGroup(t) ==
    LET g == grp[t] IN
    /\ pc[t] = "new"
    /\ \/ /\ g \in groups
          /\ IncRef(g)
          /\ pc' = [pc EXCEPT ![t] = "opening"]
          /\ UNCHANGED <<groups, bound, iommuSet, kvm, grp>>
       \/ /\ g \notin groups
          /\ GetGroupFails(g)
          /\ pc' = [pc EXCEPT ![t] = "idle"]
          /\ grp' = [grp EXCEPT ![t] = NoGroup]
          /\ UNCHANGED <<groups, refs, bound, iommuSet, kvm>>
       \/ /\ g \notin groups
          /\ ~GroupBusy(g)
          /\ groups = {} => ~iommuSet
          /\ groups' = groups \cup {g}
          /\ refs' = [refs EXCEPT ![g] = 2]
          /\ bound' = bound \cup {g}
          /\ iommuSet' = TRUE
          /\ kvm' = kvm \cup {g}
          /\ pc' = [pc EXCEPT ![t] = "opening"]
          /\ UNCHANGED grp

\* VfioGroup::get_device and the region/irq discovery.  On error the `?`
\* in VfioDevice::new returns and drops the Arc obtained from get_group,
\* without calling put_group.
GetDevice(t) ==
    /\ pc[t] = "opening"
    /\ \/ /\ pc' = [pc EXCEPT ![t] = "open"]
          /\ UNCHANGED <<refs, grp>>
       \/ /\ "GetDevice" \in Faults
          /\ DecRef(grp[t])
          /\ pc' = [pc EXCEPT ![t] = "idle"]
          /\ grp' = [grp EXCEPT ![t] = NoGroup]
    /\ UNCHANGED <<groups, bound, iommuSet, kvm>>

\* VfioDevice::drop: close the device file and clone self.group.
Drop(t) ==
    /\ pc[t] = "open"
    /\ IncRef(grp[t])
    /\ pc' = [pc EXCEPT ![t] = "put"]
    /\ UNCHANGED <<groups, bound, iommuSet, kvm, grp>>

\* Mutant: the strong-count test also accepts counts above three.
LastUserAtLeast(g) == refs[g] >= 3

\* The test put_group uses to recognise the last user of a group.
LastUser(g) == refs[g] = 3

\* Mutant: no `return` after a failed unbind, so the map entry goes anyway.
UnsetFailedRemoves(g) ==
    /\ groups' = groups \ {g}
    /\ refs' = [refs EXCEPT ![g] = @ - 1]
    /\ kvm' = kvm \ {g}
    /\ UNCHANGED <<bound, iommuSet>>

\* The group was deleted from the hypervisor device, but
\* VFIO_GROUP_UNSET_CONTAINER failed: log and return, keeping the entry.
UnsetFailed(g) ==
    /\ kvm' = kvm \ {g}
    /\ UNCHANGED <<groups, refs, bound, iommuSet>>

\* Mutant: the entry is removed without unbinding the group.
RemoveGroupKeepsBinding(g) ==
    /\ groups' = groups \ {g}
    /\ refs' = [refs EXCEPT ![g] = @ - 1]
    /\ kvm' = kvm \ {g}
    /\ UNCHANGED <<bound, iommuSet>>

\* Both calls succeeded: the entry is removed from the map (dropping the
\* map's Arc), and the kernel releases the IOMMU backend when the last
\* group leaves the container.
RemoveGroup(g) ==
    /\ groups' = groups \ {g}
    /\ refs' = [refs EXCEPT ![g] = @ - 1]
    /\ bound' = bound \ {g}
    /\ iommuSet' = (bound' # {})
    /\ kvm' = kvm \ {g}

\* VfioContainer::put_group, under the groups lock.  When the strong count
\* is 3, delete the group from the hypervisor device (on error: log and
\* return), unbind it from the container (on error: log and return) and
\* remove it from the map.
PutGroup(t) ==
    LET g == grp[t] IN
    /\ pc[t] = "put"
    /\ pc' = [pc EXCEPT ![t] = "dropClone"]
    /\ \/ /\ ~LastUser(g)
          /\ UNCHANGED <<groups, refs, bound, iommuSet, kvm>>
       \/ /\ LastUser(g)
          /\ "DeviceDelGroup" \in Faults
          /\ UNCHANGED <<groups, refs, bound, iommuSet, kvm>>
       \/ /\ LastUser(g)
          /\ "UnsetContainer" \in Faults
          /\ UnsetFailed(g)
       \/ /\ LastUser(g)
          /\ RemoveGroup(g)
    /\ UNCHANGED grp

\* Mutant: put_group's argument is never dropped (forgotten like the
\* ManuallyDrop device file), so every teardown leaks one strong count.
ReleaseCloneLeak(t) ==
    /\ pc[t] = "dropClone"
    /\ pc' = [pc EXCEPT ![t] = "dropOwn"]
    /\ UNCHANGED <<groups, refs, bound, iommuSet, kvm, grp>>

\* put_group returns: the lock guard is released, then its Arc argument.
ReleaseClone(t) ==
    /\ pc[t] = "dropClone"
    /\ DecRef(grp[t])
    /\ pc' = [pc EXCEPT ![t] = "dropOwn"]
    /\ UNCHANGED <<groups, bound, iommuSet, kvm, grp>>

\* Drop::drop has returned; the fields of VfioDevice are dropped, among
\* them the device's own Arc<VfioGroup>.
ReleaseOwn(t) ==
    /\ pc[t] = "dropOwn"
    /\ DecRef(grp[t])
    /\ pc' = [pc EXCEPT ![t] = "idle"]
    /\ grp' = [grp EXCEPT ![t] = NoGroup]
    /\ UNCHANGED <<groups, bound, iommuSet, kvm>>

Next ==
    \E t \in Threads :
        \/ \E g \in GroupIds : StartOpen(t, g)
        \/ GetGroup(t)
        \/ GetDevice(t)
        \/ Drop(t)
        \/ PutGroup(t)
        \/ ReleaseClone(t)
        \/ ReleaseOwn(t)

Spec == Init /\ [][Next]_vars

-----------------------------------------------------------------------------
(* Properties *)

\* Every variable holds a value of its type; no Arc count goes negative or
\* exceeds the one map entry plus two Arcs per thread.
TypeOK ==
    /\ groups \subseteq GroupIds
    /\ refs \in [GroupIds -> 0..MaxRefs]
    /\ bound \subseteq GroupIds
    /\ iommuSet \in BOOLEAN
    /\ kvm \subseteq GroupIds
    /\ pc \in [Threads -> ThreadStates]
    /\ grp \in [Threads -> GroupIds \cup {NoGroup}]

\* The threads holding each kind of Arc<VfioGroup> of group g.
OwnHolders(g) == {t \in Threads : pc[t] \in OwnStates /\ grp[t] = g}
CloneHolders(g) == {t \in Threads : pc[t] \in CloneStates /\ grp[t] = g}
MapHolds(g) == IF g \in groups THEN 1 ELSE 0

\* The Arc strong count of every group is exactly the number of live
\* Arcs: the map entry, each device's own field and each drop-time clone.
\* put_group's "== 3" test relies on this accounting.
RefCountExact ==
    \A g \in GroupIds :
        refs[g] = MapHolds(g) + Cardinality(OwnHolders(g))
                              + Cardinality(CloneHolders(g))

\* The container's kernel state agrees with the groups map, after any
\* sequence of opens, drops and failed kernel calls: the groups bound to
\* the container are exactly the map's, the IOMMU backend is set exactly
\* when some group is bound (so get_group sets it on an empty map only),
\* and only mapped groups are attached to the hypervisor device.
ContainerConsistent ==
    /\ bound = groups
    /\ iommuSet <=> groups # {}
    /\ kvm \subseteq groups

\* No device outlives its group: while a thread is opening, using or
\* starting to drop a device, the device's group is in the map, bound to
\* the container and attached to the hypervisor device.  put_group's
\* strong-count test must never tear down a group another device uses.
DeviceGroupAttached ==
    \A t \in Threads :
        pc[t] \in {"opening", "open", "put"} =>
            grp[t] \in groups \cap bound \cap kvm

\* No group outlives its devices: when no thread is opening or dropping a
\* device and no device is open, the map is empty (spec section 3: a group
\* is destroyed exactly when the last device referencing it is released).
NoLeakWhenQuiescent ==
    (\A t \in Threads : pc[t] = "idle") => groups = {}

-----------------------------------------------------------------------------
(* Refinement of the abstract group registry *)

\* The group a thread's device uses, as GroupRegistry sees it: from the
\* moment get_group hands it out until put_group has decided on it (or
\* VfioDevice::new fails after get_group).
DeviceGroup ==
    [t \in Threads |-> IF pc[t] \in {"opening", "open", "put"}
                       THEN grp[t] ELSE NoGroup]

Registry == INSTANCE GroupRegistry
    WITH registry <- groups, user <- DeviceGroup,
         kernel <- [domain |-> bound, hypervisor |-> kvm, backend |-> iommuSet]

\* get_group and put_group implement the registry: each device-visible
\* step of the code (get_group handing out a group, put_group deciding on
\* it, a failed VfioDevice::new dropping it) is one atomic acquire or
\* release, every other step changes nothing the registry sees, a group
\* is torn down only when no other device uses it, and the container and
\* hypervisor state always mirror the map.
ImplementsRegistry == Registry!RegSpec

=============================================================================
