--------------------------- MODULE GroupRegistry ---------------------------
(***************************************************************************)
(* What a VFIO container promises about its groups (spec section 3 and     *)
(* section 4, resolve_group / release_group), stated without locks, Arcs   *)
(* or partial steps.                                                       *)
(*                                                                         *)
(* A device acquires the group of its id: the group is registered, and     *)
(* attached to the IOMMU domain and the hypervisor device, if it was not   *)
(* already.  A device releases its group; the group may then be torn down, *)
(* but only when no other device uses it, and in one step: registry,       *)
(* domain binding and hypervisor attachment go together, and the IOMMU     *)
(* backend is set exactly while some group is registered.                  *)
(*                                                                         *)
(* Keeping a group that nobody uses is allowed here: this is the safety    *)
(* half of the lifecycle (no device loses its group, the kernel mirrors    *)
(* the registry).                                                          *)
(***************************************************************************)
CONSTANTS Threads, GroupIds, NoGroup

VARIABLES
    registry,   \* the groups the container holds
    user,       \* user[t]: the group thread t's device uses, or NoGroup
    kernel      \* the container and hypervisor state the kernel keeps

regVars == <<registry, user, kernel>>

\* The kernel state that mirrors a registry: every group bound to the
\* container's domain and attached to the hypervisor device, and the
\* IOMMU backend set while any group is bound.
KernelOf(R) == [domain |-> R, hypervisor |-> R, backend |-> R # {}]

RegInit ==
    /\ registry = {}
    /\ user = [t \in Threads |-> NoGroup]
    /\ kernel = KernelOf({})

\* Device t obtains group g, registering it if needed.
Acquire(t, g) ==
    /\ user[t] = NoGroup
    /\ user' = [user EXCEPT ![t] = g]
    /\ registry' = registry \cup {g}
    /\ kernel' = KernelOf(registry')

\* Device t lets go of its group, which is kept, or torn down when no
\* other device uses it.
Release(t) ==
    LET g == user[t] IN
    /\ g # NoGroup
    /\ user' = [user EXCEPT ![t] = NoGroup]
    /\ \/ UNCHANGED <<registry, kernel>>
       \/ /\ \A u \in Threads \ {t} : user[u] # g
          /\ registry' = registry \ {g}
          /\ kernel' = KernelOf(registry')

RegNext == \E t \in Threads : (\E g \in GroupIds : Acquire(t, g)) \/ Release(t)

RegSpec == RegInit /\ [][RegNext]_regVars

=============================================================================
