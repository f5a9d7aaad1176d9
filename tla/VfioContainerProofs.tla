------------------------ MODULE VfioContainerProofs ------------------------
(***************************************************************************)
(* Proofs about the group lifecycle of VfioContainer, for every finite set *)
(* of threads, every set of group ids and every set of failing calls.      *)
(*                                                                         *)
(* The argument rests on the Arc accounting: the strong count of a group   *)
(* equals its live Arcs (RefCountExact).  With it, put_group's test        *)
(* "strong_count == 3" run by a thread in state "put" (which holds two of  *)
(* them) means the map holds the third and no other thread holds any, so  *)
(* removing the group strands no device (LiveInMap).                       *)
(***************************************************************************)
EXTENDS VfioContainer, FiniteSetTheorems, TLAPS

\* The number of Arcs a thread in state p with group q holds of group g.
HoldCount(p, q, g) ==
    (IF p \in OwnStates /\ q = g THEN 1 ELSE 0)
  + (IF p \in CloneStates /\ q = g THEN 1 ELSE 0)

\* Threads opening, using or starting to drop a device hold a mapped group.
LiveInMap ==
    \A t \in Threads :
        pc[t] \in {"opening", "open", "put"} => grp[t] \in groups

\* A thread that has resolved its device's group names a real group id.
GrpTyped ==
    \A t \in Threads : pc[t] # "idle" => grp[t] \in GroupIds

\* The inductive invariant.
IInv == TypeOK /\ GrpTyped /\ RefCountExact /\ LiveInMap

-----------------------------------------------------------------------------
(* Lemmas on the holder sets *)

N == Cardinality(Threads)

LEMMA NType == N \in Nat /\ MaxRefs = 1 + 2 * N
    BY ConstantsAssumption, FS_CardinalityType DEF N, MaxRefs

LEMMA ThreadSubset ==
    ASSUME NEW S \in SUBSET Threads
    PROVE  /\ IsFiniteSet(S)
           /\ Cardinality(S) \in 0..N
<1>1. IsFiniteSet(Threads)
    BY ConstantsAssumption
<1>2. IsFiniteSet(S) /\ Cardinality(S) <= N
    BY <1>1, FS_Subset DEF N
<1>3. Cardinality(S) \in Nat
    BY <1>2, FS_CardinalityType
<1>. QED
    BY <1>2, <1>3

\* Changing the state of one thread t adds t to, or removes it from, each
\* holder set, so the holder count moves by t's change of HoldCount.
LEMMA OneThreadStep ==
    ASSUME NEW t \in Threads, NEW g \in GroupIds, NEW p, NEW q,
           pc \in [Threads -> ThreadStates],
           grp \in [Threads -> GroupIds \cup {NoGroup}],
           pc' = [pc EXCEPT ![t] = p],
           grp' = [grp EXCEPT ![t] = q]
    PROVE  Cardinality(OwnHolders(g)') + Cardinality(CloneHolders(g)')
           = Cardinality(OwnHolders(g)) + Cardinality(CloneHolders(g))
             - HoldCount(pc[t], grp[t], g) + HoldCount(p, q, g)
<1> DEFINE O == OwnHolders(g)
           C == CloneHolders(g)
<1>1. O' = IF p \in OwnStates /\ q = g THEN O \cup {t} ELSE O \ {t}
    BY DEF OwnHolders
<1>2. C' = IF p \in CloneStates /\ q = g THEN C \cup {t} ELSE C \ {t}
    BY DEF CloneHolders
<1>3. /\ t \in O <=> pc[t] \in OwnStates /\ grp[t] = g
      /\ t \in C <=> pc[t] \in CloneStates /\ grp[t] = g
    BY DEF OwnHolders, CloneHolders
<1>4. /\ O \in SUBSET Threads
      /\ C \in SUBSET Threads
    BY DEF OwnHolders, CloneHolders
<1>5. /\ IsFiniteSet(O) /\ Cardinality(O) \in Nat
      /\ IsFiniteSet(C) /\ Cardinality(C) \in Nat
    BY <1>4, ThreadSubset
<1>6. Cardinality(O') = Cardinality(O)
                        - (IF pc[t] \in OwnStates /\ grp[t] = g THEN 1 ELSE 0)
                        + (IF p \in OwnStates /\ q = g THEN 1 ELSE 0)
    <2>1. CASE p \in OwnStates /\ q = g
        <3>1. O' = O \cup {t}
            BY <1>1, <2>1
        <3>2. Cardinality(O \cup {t})
              = IF t \in O THEN Cardinality(O) ELSE Cardinality(O) + 1
            BY <1>5, FS_AddElement
        <3>. QED
            BY <3>1, <3>2, <1>3, <1>5, <2>1
    <2>2. CASE ~(p \in OwnStates /\ q = g)
        <3>1. O' = O \ {t}
            BY <1>1, <2>2
        <3>2. Cardinality(O \ {t})
              = IF t \in O THEN Cardinality(O) - 1 ELSE Cardinality(O)
            BY <1>5, FS_RemoveElement
        <3>. QED
            BY <3>1, <3>2, <1>3, <1>5, <2>2
    <2>. QED
        BY <2>1, <2>2
<1>7. Cardinality(C') = Cardinality(C)
                        - (IF pc[t] \in CloneStates /\ grp[t] = g THEN 1 ELSE 0)
                        + (IF p \in CloneStates /\ q = g THEN 1 ELSE 0)
    <2>1. CASE p \in CloneStates /\ q = g
        <3>1. C' = C \cup {t}
            BY <1>2, <2>1
        <3>2. Cardinality(C \cup {t})
              = IF t \in C THEN Cardinality(C) ELSE Cardinality(C) + 1
            BY <1>5, FS_AddElement
        <3>. QED
            BY <3>1, <3>2, <1>3, <1>5, <2>1
    <2>2. CASE ~(p \in CloneStates /\ q = g)
        <3>1. C' = C \ {t}
            BY <1>2, <2>2
        <3>2. Cardinality(C \ {t})
              = IF t \in C THEN Cardinality(C) - 1 ELSE Cardinality(C)
            BY <1>5, FS_RemoveElement
        <3>. QED
            BY <3>1, <3>2, <1>3, <1>5, <2>2
    <2>. QED
        BY <2>1, <2>2
<1>. QED
    BY <1>5, <1>6, <1>7 DEF HoldCount

\* A holder set that contains t has t as its only member when its count is 1.
LEMMA MemberCard ==
    ASSUME NEW S \in SUBSET Threads, NEW t \in S
    PROVE  /\ Cardinality(S) >= 1
           /\ Cardinality(S) = 1 => S = {t}
<1>1. IsFiniteSet(S) /\ Cardinality(S) \in Nat
    BY ThreadSubset
<1>2. IsFiniteSet(S \ {t}) /\ Cardinality(S \ {t}) \in Nat
    BY ThreadSubset
<1>3. Cardinality(S \ {t}) = Cardinality(S) - 1
    BY <1>1, FS_RemoveElement
<1>4. Cardinality(S) = 1 => S \ {t} = {}
    BY <1>2, <1>3, FS_EmptySet
<1>. QED
    BY <1>1, <1>2, <1>3, <1>4

\* A step of thread t that moves each group's strong count by the change
\* of the map's Arc plus the change of t's own Arcs keeps the accounting
\* exact, and keeps every count within 0..MaxRefs.
LEMMA RefStep ==
    ASSUME TypeOK, RefCountExact,
           NEW t \in Threads, NEW p \in ThreadStates,
           NEW q \in GroupIds \cup {NoGroup},
           pc' = [pc EXCEPT ![t] = p],
           grp' = [grp EXCEPT ![t] = q],
           refs' \in [GroupIds -> Int],
           \A g \in GroupIds :
               refs'[g] = refs[g] + MapHolds(g)' - MapHolds(g)
                          - HoldCount(pc[t], grp[t], g) + HoldCount(p, q, g)
    PROVE  RefCountExact' /\ refs' \in [GroupIds -> 0..MaxRefs]
<1>1. ASSUME NEW g \in GroupIds
      PROVE  /\ refs'[g] = MapHolds(g)' + Cardinality(OwnHolders(g)')
                                        + Cardinality(CloneHolders(g)')
             /\ refs'[g] \in 0..MaxRefs
    <2>1. Cardinality(OwnHolders(g)') + Cardinality(CloneHolders(g)')
          = Cardinality(OwnHolders(g)) + Cardinality(CloneHolders(g))
            - HoldCount(pc[t], grp[t], g) + HoldCount(p, q, g)
        BY OneThreadStep DEF TypeOK
    <2>2. /\ Cardinality(OwnHolders(g)) \in 0..N
          /\ Cardinality(CloneHolders(g)) \in 0..N
          /\ Cardinality(OwnHolders(g)') \in 0..N
          /\ Cardinality(CloneHolders(g)') \in 0..N
        BY ThreadSubset DEF OwnHolders, CloneHolders
    <2>3. refs[g] = MapHolds(g) + Cardinality(OwnHolders(g))
                                + Cardinality(CloneHolders(g))
        BY DEF RefCountExact
    <2>4. MapHolds(g) \in {0, 1} /\ MapHolds(g)' \in {0, 1}
        BY DEF MapHolds
    <2>5. HoldCount(pc[t], grp[t], g) \in 0..2 /\ HoldCount(p, q, g) \in 0..2
        BY DEF HoldCount
    <2>6. refs'[g] = refs[g] + MapHolds(g)' - MapHolds(g)
                     - HoldCount(pc[t], grp[t], g) + HoldCount(p, q, g)
        OBVIOUS
    <2>7. refs'[g] = MapHolds(g)' + Cardinality(OwnHolders(g)')
                                  + Cardinality(CloneHolders(g)')
        BY <2>1, <2>2, <2>3, <2>4, <2>5, <2>6
    <2>. QED
        BY <2>2, <2>4, <2>7, NType
<1>. QED
    BY <1>1 DEF RefCountExact

\* A step of one thread that keeps every variable in its type.
LEMMA TypeStep ==
    ASSUME TypeOK,
           NEW t \in Threads, NEW p \in ThreadStates,
           NEW q \in GroupIds \cup {NoGroup},
           pc' = [pc EXCEPT ![t] = p],
           grp' = [grp EXCEPT ![t] = q],
           refs' \in [GroupIds -> 0..MaxRefs],
           groups' \subseteq GroupIds, bound' \subseteq GroupIds,
           kvm' \subseteq GroupIds, iommuSet' \in BOOLEAN
    PROVE  TypeOK'
<1>1. pc' \in [Threads -> ThreadStates]
    BY DEF TypeOK
<1>2. grp' \in [Threads -> GroupIds \cup {NoGroup}]
    BY DEF TypeOK
<1>. QED
    BY <1>1, <1>2 DEF TypeOK

-----------------------------------------------------------------------------
(* Each action preserves the inductive invariant *)

LEMMA InitIInv == Init => IInv
<1> SUFFICES ASSUME Init PROVE IInv
    OBVIOUS
<1>1. \A g \in GroupIds : OwnHolders(g) = {} /\ CloneHolders(g) = {}
    BY DEF Init, OwnHolders, CloneHolders, OwnStates, CloneStates
<1>2. RefCountExact
    BY <1>1, FS_EmptySet DEF Init, RefCountExact, MapHolds
<1>3. refs \in [GroupIds -> 0..MaxRefs]
    BY NType DEF Init
<1>4. pc \in [Threads -> ThreadStates]
    BY DEF Init, ThreadStates
<1>5. TypeOK
    BY <1>3, <1>4 DEF Init, TypeOK
<1>. QED
    BY <1>2, <1>5 DEF Init, IInv, GrpTyped, LiveInMap

\* The facts a step of thread t, to state p with group q, must establish:
\* strong counts move by the change of Arcs, and live devices stay on
\* mapped groups.
StepFacts(t, p, q) ==
    /\ p \in ThreadStates
    /\ q \in GroupIds \cup {NoGroup}
    /\ p # "idle" => q \in GroupIds
    /\ pc' = [pc EXCEPT ![t] = p]
    /\ grp' = [grp EXCEPT ![t] = q]
    /\ refs' \in [GroupIds -> Int]
    /\ groups' \subseteq GroupIds
    /\ bound' \subseteq GroupIds
    /\ kvm' \subseteq GroupIds
    /\ iommuSet' \in BOOLEAN
    /\ \A g \in GroupIds :
           refs'[g] = refs[g] + MapHolds(g)' - MapHolds(g)
                      - HoldCount(pc[t], grp[t], g) + HoldCount(p, q, g)
    /\ LiveInMap'

\* Such a step preserves the inductive invariant.
LEMMA ThreadStep ==
    ASSUME IInv, NEW t \in Threads, NEW p, NEW q, StepFacts(t, p, q)
    PROVE  IInv'
<1>0. /\ p \in ThreadStates
      /\ q \in GroupIds \cup {NoGroup}
      /\ p # "idle" => q \in GroupIds
      /\ pc' = [pc EXCEPT ![t] = p]
      /\ grp' = [grp EXCEPT ![t] = q]
      /\ refs' \in [GroupIds -> Int]
      /\ groups' \subseteq GroupIds
      /\ bound' \subseteq GroupIds
      /\ kvm' \subseteq GroupIds
      /\ iommuSet' \in BOOLEAN
      /\ \A g \in GroupIds :
           refs'[g] = refs[g] + MapHolds(g)' - MapHolds(g)
                      - HoldCount(pc[t], grp[t], g) + HoldCount(p, q, g)
      /\ LiveInMap'
    BY DEF StepFacts
<1>1. TypeOK /\ RefCountExact /\ GrpTyped
    BY DEF IInv
<1>2. RefCountExact' /\ refs' \in [GroupIds -> 0..MaxRefs]
    BY <1>0, <1>1, RefStep, Zenon
<1>3. TypeOK'
    BY <1>0, <1>1, <1>2, TypeStep, Zenon
<1>4. GrpTyped'
    BY <1>0, <1>1 DEF GrpTyped, TypeOK
<1>. QED
    BY <1>0, <1>2, <1>3, <1>4 DEF IInv

LEMMA StartOpenStep ==
    ASSUME IInv, NEW t \in Threads, NEW g \in GroupIds, StartOpen(t, g)
    PROVE  IInv'
<1>1. /\ "new" \in ThreadStates
      /\ refs' \in [GroupIds -> Int]
    BY DEF IInv, StartOpen, ThreadStates, TypeOK
<1>2. \A h \in GroupIds :
          refs'[h] = refs[h] + MapHolds(h)' - MapHolds(h)
                     - HoldCount(pc[t], grp[t], h) + HoldCount("new", g, h)
    BY DEF IInv, StartOpen, MapHolds, HoldCount, OwnStates, CloneStates, TypeOK
<1>3. LiveInMap'
    BY DEF IInv, StartOpen, LiveInMap, TypeOK
<1>10. StepFacts(t, "new", g)
    BY <1>1, <1>2, <1>3 DEF StepFacts, StartOpen, IInv, TypeOK
<1>. QED
    BY <1>10, ThreadStep

LEMMA GetGroupStep ==
    ASSUME IInv, NEW t \in Threads, GetGroup(t)
    PROVE  IInv'
<1> DEFINE g == grp[t]
<1>0. /\ pc[t] = "new"
      /\ g \in GroupIds
      /\ "opening" \in ThreadStates /\ "idle" \in ThreadStates
      /\ TypeOK
    BY DEF GetGroup, IInv, GrpTyped, TypeOK, ThreadStates
<1>1. CASE /\ g \in groups
           /\ IncRef(g)
           /\ pc' = [pc EXCEPT ![t] = "opening"]
           /\ UNCHANGED <<groups, bound, iommuSet, kvm, grp>>
    <2>1. refs' \in [GroupIds -> Int]
        BY <1>0, <1>1 DEF IncRef, TypeOK
    <2>2. \A h \in GroupIds :
              refs'[h] = refs[h] + MapHolds(h)' - MapHolds(h)
                         - HoldCount(pc[t], grp[t], h)
                         + HoldCount("opening", g, h)
        BY <1>0, <1>1 DEF IncRef, MapHolds, HoldCount, OwnStates,
                          CloneStates, TypeOK
    <2>3. LiveInMap'
        BY <1>0, <1>1 DEF IInv, LiveInMap, TypeOK
    <2>4. grp' = [grp EXCEPT ![t] = g]
        BY <1>0, <1>1 DEF TypeOK
    <2>9. groups' \subseteq GroupIds /\ bound' \subseteq GroupIds
          /\ kvm' \subseteq GroupIds /\ iommuSet' \in BOOLEAN
        BY <1>0, <1>1 DEF TypeOK
    <2>10. StepFacts(t, "opening", g)
        BY <1>0, <1>1, <2>1, <2>2, <2>3, <2>4, <2>9 DEF StepFacts
    <2>. QED
        BY <2>10, ThreadStep
<1>2. CASE /\ g \notin groups
           /\ GetGroupFails(g)
           /\ pc' = [pc EXCEPT ![t] = "idle"]
           /\ grp' = [grp EXCEPT ![t] = NoGroup]
           /\ UNCHANGED <<groups, refs, bound, iommuSet, kvm>>
    <2>1. refs' \in [GroupIds -> Int]
        BY <1>0, <1>2 DEF TypeOK
    <2>2. \A h \in GroupIds :
              refs'[h] = refs[h] + MapHolds(h)' - MapHolds(h)
                         - HoldCount(pc[t], grp[t], h)
                         + HoldCount("idle", NoGroup, h)
        BY <1>0, <1>2 DEF MapHolds, HoldCount, OwnStates, CloneStates, TypeOK
    <2>3. LiveInMap'
        BY <1>0, <1>2 DEF IInv, LiveInMap, TypeOK
    <2>9. groups' \subseteq GroupIds /\ bound' \subseteq GroupIds
          /\ kvm' \subseteq GroupIds /\ iommuSet' \in BOOLEAN
        BY <1>0, <1>2 DEF TypeOK
    <2>10. StepFacts(t, "idle", NoGroup)
        BY <1>0, <1>2, <2>1, <2>2, <2>3, <2>9 DEF StepFacts
    <2>. QED
        BY <2>10, ThreadStep
<1>3. CASE /\ g \notin groups
           /\ ~GroupBusy(g)
           /\ groups = {} => ~iommuSet
           /\ groups' = groups \cup {g}
           /\ refs' = [refs EXCEPT ![g] = 2]
           /\ bound' = bound \cup {g}
           /\ iommuSet' = TRUE
           /\ kvm' = kvm \cup {g}
           /\ pc' = [pc EXCEPT ![t] = "opening"]
           /\ UNCHANGED grp
    <2>1. refs[g] = 0
        BY <1>0, <1>3 DEF GroupBusy, TypeOK
    <2>2. refs' \in [GroupIds -> Int]
        BY <1>0, <1>3 DEF TypeOK
    <2>3. \A h \in GroupIds :
              refs'[h] = refs[h] + MapHolds(h)' - MapHolds(h)
                         - HoldCount(pc[t], grp[t], h)
                         + HoldCount("opening", g, h)
        BY <1>0, <1>3, <2>1 DEF MapHolds, HoldCount, OwnStates,
                                CloneStates, TypeOK
    <2>4. LiveInMap'
        BY <1>0, <1>3 DEF IInv, LiveInMap, TypeOK
    <2>5. groups' \subseteq GroupIds /\ bound' \subseteq GroupIds
          /\ kvm' \subseteq GroupIds
        BY <1>0, <1>3 DEF TypeOK
    <2>6. grp' = [grp EXCEPT ![t] = g]
        BY <1>0, <1>3 DEF TypeOK
    <2>7. iommuSet' \in BOOLEAN
        BY <1>3
    <2>10. StepFacts(t, "opening", g)
        BY <1>0, <1>3, <2>2, <2>3, <2>4, <2>5, <2>6, <2>7 DEF StepFacts
    <2>. QED
        BY <2>10, ThreadStep
<1>. QED
    BY <1>1, <1>2, <1>3 DEF GetGroup

LEMMA GetDeviceStep ==
    ASSUME IInv, NEW t \in Threads, GetDevice(t)
    PROVE  IInv'
<1> DEFINE g == grp[t]
<1>0. /\ pc[t] = "opening"
      /\ g \in GroupIds
      /\ g \in groups
      /\ UNCHANGED <<groups, bound, iommuSet, kvm>>
      /\ "open" \in ThreadStates /\ "idle" \in ThreadStates
      /\ TypeOK
    BY DEF GetDevice, IInv, GrpTyped, LiveInMap, TypeOK, ThreadStates
<1>1. CASE /\ pc' = [pc EXCEPT ![t] = "open"]
           /\ UNCHANGED <<refs, grp>>
    <2>1. refs' \in [GroupIds -> Int]
        BY <1>0, <1>1 DEF TypeOK
    <2>2. \A h \in GroupIds :
              refs'[h] = refs[h] + MapHolds(h)' - MapHolds(h)
                         - HoldCount(pc[t], grp[t], h)
                         + HoldCount("open", g, h)
        BY <1>0, <1>1 DEF MapHolds, HoldCount, OwnStates, CloneStates, TypeOK
    <2>3. LiveInMap'
        BY <1>0, <1>1 DEF IInv, LiveInMap, TypeOK
    <2>4. grp' = [grp EXCEPT ![t] = g]
        BY <1>0, <1>1 DEF TypeOK
    <2>9. groups' \subseteq GroupIds /\ bound' \subseteq GroupIds
          /\ kvm' \subseteq GroupIds /\ iommuSet' \in BOOLEAN
        BY <1>0, <1>1 DEF TypeOK
    <2>10. StepFacts(t, "open", g)
        BY <1>0, <1>1, <2>1, <2>2, <2>3, <2>4, <2>9 DEF StepFacts
    <2>. QED
        BY <2>10, ThreadStep
<1>2. CASE /\ DecRef(g)
           /\ pc' = [pc EXCEPT ![t] = "idle"]
           /\ grp' = [grp EXCEPT ![t] = NoGroup]
    <2>1. refs' \in [GroupIds -> Int]
        BY <1>0, <1>2 DEF DecRef, TypeOK
    <2>2. \A h \in GroupIds :
              refs'[h] = refs[h] + MapHolds(h)' - MapHolds(h)
                         - HoldCount(pc[t], grp[t], h)
                         + HoldCount("idle", NoGroup, h)
        BY <1>0, <1>2 DEF DecRef, MapHolds, HoldCount, OwnStates,
                          CloneStates, TypeOK
    <2>3. LiveInMap'
        BY <1>0, <1>2 DEF IInv, LiveInMap, TypeOK
    <2>9. groups' \subseteq GroupIds /\ bound' \subseteq GroupIds
          /\ kvm' \subseteq GroupIds /\ iommuSet' \in BOOLEAN
        BY <1>0, <1>2 DEF TypeOK
    <2>10. StepFacts(t, "idle", NoGroup)
        BY <1>0, <1>2, <2>1, <2>2, <2>3, <2>9 DEF StepFacts
    <2>. QED
        BY <2>10, ThreadStep
<1>. QED
    BY <1>1, <1>2 DEF GetDevice

LEMMA DropStep ==
    ASSUME IInv, NEW t \in Threads, Drop(t)
    PROVE  IInv'
<1> DEFINE g == grp[t]
<1>0. /\ g \in GroupIds
      /\ "put" \in ThreadStates
      /\ TypeOK
    BY DEF Drop, IInv, GrpTyped, TypeOK, ThreadStates
<1>1. refs' \in [GroupIds -> Int]
    BY <1>0 DEF Drop, IncRef, TypeOK
<1>2. \A h \in GroupIds :
          refs'[h] = refs[h] + MapHolds(h)' - MapHolds(h)
                     - HoldCount(pc[t], grp[t], h) + HoldCount("put", g, h)
    BY <1>0 DEF Drop, IncRef, MapHolds, HoldCount, OwnStates, CloneStates,
                TypeOK
<1>3. LiveInMap'
    BY <1>0 DEF Drop, IInv, LiveInMap, TypeOK
<1>4. /\ pc' = [pc EXCEPT ![t] = "put"]
      /\ grp' = [grp EXCEPT ![t] = g]
      /\ UNCHANGED <<groups, bound, iommuSet, kvm>>
    BY <1>0 DEF Drop, TypeOK
<1>10. StepFacts(t, "put", g)
    BY <1>0, <1>1, <1>2, <1>3, <1>4 DEF StepFacts, TypeOK
<1>. QED
    BY <1>10, ThreadStep

LEMMA ReleaseCloneStep ==
    ASSUME IInv, NEW t \in Threads, ReleaseClone(t)
    PROVE  IInv'
<1> DEFINE g == grp[t]
<1>0. /\ g \in GroupIds
      /\ "dropOwn" \in ThreadStates
      /\ TypeOK
    BY DEF ReleaseClone, IInv, GrpTyped, TypeOK, ThreadStates
<1>1. refs' \in [GroupIds -> Int]
    BY <1>0 DEF ReleaseClone, DecRef, TypeOK
<1>2. \A h \in GroupIds :
          refs'[h] = refs[h] + MapHolds(h)' - MapHolds(h)
                     - HoldCount(pc[t], grp[t], h) + HoldCount("dropOwn", g, h)
    BY <1>0 DEF ReleaseClone, DecRef, MapHolds, HoldCount, OwnStates,
                CloneStates, TypeOK
<1>3. LiveInMap'
    BY <1>0 DEF ReleaseClone, IInv, LiveInMap, TypeOK
<1>4. /\ pc' = [pc EXCEPT ![t] = "dropOwn"]
      /\ grp' = [grp EXCEPT ![t] = g]
      /\ UNCHANGED <<groups, bound, iommuSet, kvm>>
    BY <1>0 DEF ReleaseClone, TypeOK
<1>10. StepFacts(t, "dropOwn", g)
    BY <1>0, <1>1, <1>2, <1>3, <1>4 DEF StepFacts, TypeOK
<1>. QED
    BY <1>10, ThreadStep

LEMMA ReleaseOwnStep ==
    ASSUME IInv, NEW t \in Threads, ReleaseOwn(t)
    PROVE  IInv'
<1> DEFINE g == grp[t]
<1>0. /\ g \in GroupIds
      /\ "idle" \in ThreadStates
      /\ TypeOK
    BY DEF ReleaseOwn, IInv, GrpTyped, TypeOK, ThreadStates
<1>1. refs' \in [GroupIds -> Int]
    BY <1>0 DEF ReleaseOwn, DecRef, TypeOK
<1>2. \A h \in GroupIds :
          refs'[h] = refs[h] + MapHolds(h)' - MapHolds(h)
                     - HoldCount(pc[t], grp[t], h)
                     + HoldCount("idle", NoGroup, h)
    BY <1>0 DEF ReleaseOwn, DecRef, MapHolds, HoldCount, OwnStates,
                CloneStates, TypeOK
<1>3. LiveInMap'
    BY <1>0 DEF ReleaseOwn, IInv, LiveInMap, TypeOK
<1>4. /\ pc' = [pc EXCEPT ![t] = "idle"]
      /\ grp' = [grp EXCEPT ![t] = NoGroup]
      /\ UNCHANGED <<groups, bound, iommuSet, kvm>>
    BY <1>0 DEF ReleaseOwn
<1>5. groups' \subseteq GroupIds /\ bound' \subseteq GroupIds
      /\ kvm' \subseteq GroupIds /\ iommuSet' \in BOOLEAN
    BY <1>0, <1>4 DEF TypeOK
<1>10. StepFacts(t, "idle", NoGroup)
    BY <1>0, <1>1, <1>2, <1>3, <1>4, <1>5 DEF StepFacts
<1>. QED
    BY <1>10, ThreadStep

\* put_group by the thread in state "put": when it removes the group, the
\* strong count 3 is the map's Arc and this thread's two, so no other
\* thread's device uses the group.
\* A thread in put_group that sees strong count 3 holds two of the Arcs and
\* the map the third, so no other thread's device holds the group.
LEMMA LastUserAlone ==
    ASSUME RefCountExact, NEW t \in Threads, pc[t] = "put",
           grp[t] \in GroupIds, grp[t] \in groups, LastUser(grp[t])
    PROVE  OwnHolders(grp[t]) = {t}
<1> DEFINE g == grp[t]
<1>1. t \in OwnHolders(g) /\ t \in CloneHolders(g)
    BY DEF OwnHolders, CloneHolders, OwnStates, CloneStates
<1>2. OwnHolders(g) \in SUBSET Threads
      /\ CloneHolders(g) \in SUBSET Threads
    BY DEF OwnHolders, CloneHolders
<1>3. Cardinality(OwnHolders(g)) >= 1
      /\ Cardinality(CloneHolders(g)) >= 1
    BY <1>1, <1>2, MemberCard
<1>4. Cardinality(OwnHolders(g)) \in Nat
      /\ Cardinality(CloneHolders(g)) \in Nat
    BY <1>2, ThreadSubset
<1>5. 3 = 1 + Cardinality(OwnHolders(g)) + Cardinality(CloneHolders(g))
    BY DEF LastUser, RefCountExact, MapHolds
<1>6. Cardinality(OwnHolders(g)) = 1
    BY <1>3, <1>4, <1>5
<1>. QED
    BY <1>1, <1>2, <1>6, MemberCard

LEMMA PutGroupStep ==
    ASSUME IInv, NEW t \in Threads, PutGroup(t)
    PROVE  IInv'
<1> DEFINE g == grp[t]
<1>0. /\ pc[t] = "put"
      /\ g \in GroupIds
      /\ g \in groups
      /\ "dropClone" \in ThreadStates
      /\ TypeOK /\ RefCountExact /\ LiveInMap
      /\ pc' = [pc EXCEPT ![t] = "dropClone"]
      /\ grp' = [grp EXCEPT ![t] = g]
    BY DEF PutGroup, IInv, GrpTyped, LiveInMap, TypeOK, ThreadStates
<1>1. \A h \in GroupIds :
          HoldCount(pc[t], grp[t], h) = HoldCount("dropClone", g, h)
    BY <1>0 DEF HoldCount, OwnStates, CloneStates
<1>6. \A h \in GroupIds :
          /\ MapHolds(h) \in {0, 1} /\ MapHolds(h)' \in {0, 1}
          /\ HoldCount("dropClone", g, h) \in 0..2
    BY DEF MapHolds, HoldCount
<1>2. CASE UNCHANGED <<groups, refs, bound, iommuSet, kvm>>
    <2>1. refs' \in [GroupIds -> Int]
        BY <1>0, <1>2 DEF TypeOK
    <2>2. \A h \in GroupIds :
              refs'[h] = refs[h] + MapHolds(h)' - MapHolds(h)
                         - HoldCount(pc[t], grp[t], h)
                         + HoldCount("dropClone", g, h)
        <3>1. \A h \in GroupIds : MapHolds(h)' = MapHolds(h) /\ refs'[h] = refs[h]
            BY <1>2 DEF MapHolds
        <3>. QED
            BY <1>0, <1>1, <3>1, <1>6 DEF TypeOK
    <2>3. LiveInMap'
        BY <1>0, <1>2 DEF LiveInMap, TypeOK
    <2>4. StepFacts(t, "dropClone", g)
        BY <1>0, <1>2, <2>1, <2>2, <2>3 DEF StepFacts, TypeOK
    <2>. QED
        BY <2>4, ThreadStep
<1>3. CASE UnsetFailed(g)
    <2>1. refs' \in [GroupIds -> Int]
        BY <1>0, <1>3 DEF UnsetFailed, TypeOK
    <2>2. \A h \in GroupIds :
              refs'[h] = refs[h] + MapHolds(h)' - MapHolds(h)
                         - HoldCount(pc[t], grp[t], h)
                         + HoldCount("dropClone", g, h)
        <3>1. \A h \in GroupIds : MapHolds(h)' = MapHolds(h) /\ refs'[h] = refs[h]
            BY <1>3 DEF UnsetFailed, MapHolds
        <3>. QED
            BY <1>0, <1>1, <3>1, <1>6 DEF TypeOK
    <2>3. LiveInMap'
        BY <1>0, <1>3 DEF UnsetFailed, LiveInMap, TypeOK
    <2>4. StepFacts(t, "dropClone", g)
        BY <1>0, <1>3, <2>1, <2>2, <2>3 DEF StepFacts, UnsetFailed, TypeOK
    <2>. QED
        BY <2>4, ThreadStep
<1>4. CASE LastUser(g) /\ RemoveGroup(g)
    <2>1. refs' \in [GroupIds -> Int]
        BY <1>0, <1>4 DEF RemoveGroup, TypeOK
    <2>2. \A h \in GroupIds :
              refs'[h] = refs[h] + MapHolds(h)' - MapHolds(h)
                         - HoldCount(pc[t], grp[t], h)
                         + HoldCount("dropClone", g, h)
        <3>1. MapHolds(g)' = 0 /\ MapHolds(g) = 1 /\ refs'[g] = refs[g] - 1
            BY <1>0, <1>4 DEF RemoveGroup, MapHolds, TypeOK
        <3>2. \A h \in GroupIds \ {g} :
                  MapHolds(h)' = MapHolds(h) /\ refs'[h] = refs[h]
            BY <1>0, <1>4 DEF RemoveGroup, MapHolds, TypeOK
        <3>. QED
            BY <1>0, <1>1, <3>1, <3>2, <1>6 DEF TypeOK
    <2>3. OwnHolders(g) = {t}
        BY <1>0, <1>4, LastUserAlone
    <2>4. LiveInMap'
        <3>1. SUFFICES ASSUME NEW u \in Threads,
                              pc'[u] \in {"opening", "open", "put"}
                       PROVE  grp'[u] \in groups'
            BY DEF LiveInMap
        <3>2. u # t /\ pc'[u] = pc[u] /\ grp'[u] = grp[u]
            BY <1>0, <3>1 DEF TypeOK
        <3>3. grp[u] \in groups
            BY <3>1, <3>2, <1>0 DEF LiveInMap
        <3>4. grp[u] # g
            BY <2>3, <3>1, <3>2 DEF OwnHolders, OwnStates
        <3>. QED
            BY <1>4, <3>2, <3>3, <3>4 DEF RemoveGroup
    <2>5. /\ groups' \subseteq GroupIds /\ bound' \subseteq GroupIds
          /\ kvm' \subseteq GroupIds /\ iommuSet' \in BOOLEAN
        BY <1>0, <1>4 DEF RemoveGroup, TypeOK
    <2>6. StepFacts(t, "dropClone", g)
        BY <1>0, <2>1, <2>2, <2>4, <2>5 DEF StepFacts
    <2>. QED
        BY <2>6, ThreadStep
<1>5. \/ UNCHANGED <<groups, refs, bound, iommuSet, kvm>>
      \/ UnsetFailed(g)
      \/ LastUser(g) /\ RemoveGroup(g)
    BY DEF PutGroup
<1>. QED
    BY <1>2, <1>3, <1>4, <1>5

LEMMA NextIInv == IInv /\ [Next]_vars => IInv'
<1> SUFFICES ASSUME IInv, [Next]_vars PROVE IInv'
    OBVIOUS
<1>1. CASE \E t \in Threads : \E g \in GroupIds : StartOpen(t, g)
    BY <1>1, StartOpenStep
<1>2. CASE \E t \in Threads : GetGroup(t)
    BY <1>2, GetGroupStep
<1>3. CASE \E t \in Threads : GetDevice(t)
    BY <1>3, GetDeviceStep
<1>4. CASE \E t \in Threads : Drop(t)
    BY <1>4, DropStep
<1>5. CASE \E t \in Threads : PutGroup(t)
    BY <1>5, PutGroupStep
<1>6. CASE \E t \in Threads : ReleaseClone(t)
    BY <1>6, ReleaseCloneStep
<1>7. CASE \E t \in Threads : ReleaseOwn(t)
    BY <1>7, ReleaseOwnStep
<1>8. CASE UNCHANGED vars
    <2>1. \A g \in GroupIds :
              /\ OwnHolders(g)' = OwnHolders(g)
              /\ CloneHolders(g)' = CloneHolders(g)
              /\ MapHolds(g)' = MapHolds(g)
        BY <1>8 DEF vars, OwnHolders, CloneHolders, MapHolds
    <2>2. RefCountExact'
        BY <1>8, <2>1 DEF vars, IInv, RefCountExact
    <2>. QED
        BY <1>8, <2>2 DEF vars, IInv, TypeOK, GrpTyped, LiveInMap
<1>. QED
    BY <1>1, <1>2, <1>3, <1>4, <1>5, <1>6, <1>7, <1>8 DEF Next

\* Every reachable state is well typed: in particular no Arc strong count
\* of a group underflows or exceeds the map entry plus two per thread.
THEOREM TypeCorrect == Spec => []TypeOK
<1>1. IInv => TypeOK
    BY DEF IInv
<1>. QED
    BY InitIInv, NextIInv, <1>1, PTL DEF Spec

\* The strong count put_group reads is exactly the number of live
\* Arc<VfioGroup> values (map entry, each device's field, each drop-time
\* clone), in every reachable state of every number of threads.
THEOREM RefCountInvariant == Spec => []RefCountExact
<1>1. IInv => RefCountExact
    BY DEF IInv
<1>. QED
    BY InitIInv, NextIInv, <1>1, PTL DEF Spec

-----------------------------------------------------------------------------
(* The container's kernel state *)

\* get_group, put_group and the kernel's release of the IOMMU backend keep
\* the container's bound groups, its backend and the hypervisor device in
\* agreement with the groups map, whichever kernel calls fail.
LEMMA ConsistentStep ==
    ContainerConsistent /\ [Next]_vars => ContainerConsistent'
<1> SUFFICES ASSUME ContainerConsistent, [Next]_vars
             PROVE  ContainerConsistent'
    OBVIOUS
<1>1. CASE \E t \in Threads :
             \/ \E g \in GroupIds : StartOpen(t, g)
             \/ GetDevice(t) \/ Drop(t) \/ ReleaseClone(t) \/ ReleaseOwn(t)
    BY <1>1 DEF StartOpen, GetDevice, Drop, ReleaseClone, ReleaseOwn,
                ContainerConsistent
<1>2. CASE \E t \in Threads : GetGroup(t)
    BY <1>2 DEF GetGroup, ContainerConsistent
<1>3. CASE \E t \in Threads : PutGroup(t)
    <2>1. PICK t \in Threads : PutGroup(t)
        BY <1>3
    <2> DEFINE g == grp[t]
    <2>2. CASE UNCHANGED <<groups, refs, bound, iommuSet, kvm>>
        BY <2>2 DEF ContainerConsistent
    <2>3. CASE UnsetFailed(g)
        BY <2>3 DEF UnsetFailed, ContainerConsistent
    <2>4. CASE RemoveGroup(g)
        BY <2>4 DEF RemoveGroup, ContainerConsistent
    <2>. QED
        BY <2>1, <2>2, <2>3, <2>4 DEF PutGroup
<1>4. CASE UNCHANGED vars
    BY <1>4 DEF vars, ContainerConsistent
<1>. QED
    BY <1>1, <1>2, <1>3, <1>4 DEF Next

\* Whatever kernel calls fail, the groups bound to the container are the
\* map's, the IOMMU backend is set exactly while the map is non-empty, and
\* only mapped groups are attached to the hypervisor device.
THEOREM ContainerConsistentThm == Spec => []ContainerConsistent
<1>1. Init => ContainerConsistent
    BY DEF Init, ContainerConsistent
<1>. QED
    BY <1>1, ConsistentStep, PTL DEF Spec

\* Without failing unbinds the hypervisor device holds exactly the mapped
\* groups.
KernelAgrees == ContainerConsistent /\ kvm = groups

LEMMA AgreesStep ==
    ASSUME "UnsetContainer" \notin Faults
    PROVE  KernelAgrees /\ [Next]_vars => KernelAgrees'
<1> SUFFICES ASSUME KernelAgrees, [Next]_vars
             PROVE  KernelAgrees'
    OBVIOUS
<1>1. ContainerConsistent'
    BY ConsistentStep DEF KernelAgrees
<1>2. CASE \E t \in Threads :
             \/ \E g \in GroupIds : StartOpen(t, g)
             \/ GetDevice(t) \/ Drop(t) \/ ReleaseClone(t) \/ ReleaseOwn(t)
    BY <1>1, <1>2 DEF StartOpen, GetDevice, Drop, ReleaseClone, ReleaseOwn,
                      KernelAgrees
<1>3. CASE \E t \in Threads : GetGroup(t)
    BY <1>1, <1>3 DEF GetGroup, KernelAgrees
<1>4. CASE \E t \in Threads : PutGroup(t)
    <2>1. PICK t \in Threads : PutGroup(t)
        BY <1>4
    <2> DEFINE g == grp[t]
    <2>2. CASE UNCHANGED <<groups, refs, bound, iommuSet, kvm>>
        BY <1>1, <2>2 DEF KernelAgrees
    <2>3. CASE RemoveGroup(g)
        BY <1>1, <2>3 DEF RemoveGroup, KernelAgrees
    <2>. QED
        BY <2>1, <2>2, <2>3 DEF PutGroup
<1>5. CASE UNCHANGED vars
    BY <1>5 DEF vars, KernelAgrees, ContainerConsistent
<1>. QED
    BY <1>2, <1>3, <1>4, <1>5 DEF Next

\* When VFIO_GROUP_UNSET_CONTAINER cannot fail, put_group's strong-count
\* test never tears down a group that another device still uses: every
\* device being opened, in use or starting to drop has its group mapped,
\* bound to the container and attached to the hypervisor device.  (With
\* that fault, the run unset_failure shows the property does not hold.)
THEOREM DeviceGroupAttachedThm ==
    ASSUME "UnsetContainer" \notin Faults
    PROVE  Spec => []DeviceGroupAttached
<1>1. Init => KernelAgrees
    BY DEF Init, KernelAgrees, ContainerConsistent
<1>2. KernelAgrees /\ [Next]_vars => KernelAgrees'
    BY AgreesStep
<1>3. IInv /\ KernelAgrees => DeviceGroupAttached
    BY DEF IInv, LiveInMap, KernelAgrees, ContainerConsistent,
           DeviceGroupAttached
<1>. QED
    BY InitIInv, NextIInv, <1>1, <1>2, <1>3, PTL DEF Spec

=============================================================================
