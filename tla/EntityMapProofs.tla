-------------------------- MODULE EntityMapProofs --------------------------
(***************************************************************************)
(* What EntityMap guarantees for every set of threads and entities and     *)
(* every number of handles.  The invariants of EntityMap are inductive     *)
(* together with what the lock gives (Locking): a thread inside its        *)
(* compare-and-swap loop keeps its key in the map, because removing a key  *)
(* takes the exclusive lock, and it expects a value that is not zero.      *)
(***************************************************************************)
EXTENDS EntityMap, FiniteSetTheorems, TLAPS

\* What the RwLock gives: one upgradable guard at a time, none while the main
\* thread waits for exclusive access, and keys that stay under a reader.
Locking ==
  /\ \A t, u \in Upgradable : t = u
  /\ \A t \in Threads : pc[t] = "collecting" => t = Main /\ Upgradable = {}
  /\ \A t \in Readers : target[t] \in Live /\ loaded[t] # 0

\* A key that was never handed out has no data.
VacantHasNoData ==
  \A e \in Entities : key_state[e] = "vacant" => data[e] = "none"

IInv ==
  /\ TypeOK
  /\ Locking
  /\ VacantHasNoData
  /\ RefCountExact
  /\ QueuedIffUnreferenced
  /\ HandleKeepsEntity

----------------------------------------------------------------------------
\* The handles of an entity are finitely many; there are none exactly when
\* their number is zero.
LEMMA FewHandles ==
  ASSUME NEW e
  PROVE  /\ IsFiniteSet(HandlesOf(e))
         /\ Cardinality(HandlesOf(e)) \in Nat
         /\ Cardinality(HandlesOf(e)) = 0 <=> HandlesOf(e) = {}
  <1>1. HandlesOf(e) \subseteq Handles
    BY Zenon DEF HandlesOf
  <1>2. IsFiniteSet(HandlesOf(e))
    BY Zenon, <1>1, FS_Subset, EntityMapAssumption
  <1> QED
    BY Zenon, <1>2, FS_CardinalityType, FS_EmptySet

\* A new handle adds one to the handles of its entity and to no other.
LEMMA GainHandle ==
  ASSUME TypeOK, NEW h \in Handles, Free(h), NEW e \in Entities,
         strong' = [strong EXCEPT ![h] = e], NEW f \in Entities
  PROVE  Cardinality(HandlesOf(f)') =
           Cardinality(HandlesOf(f)) + (IF f = e THEN 1 ELSE 0)
  <1>1. HandlesOf(f)' = IF f = e THEN HandlesOf(f) \cup {h} ELSE HandlesOf(f)
    BY EntityMapAssumption DEF TypeOK, Free, HandlesOf
  <1>2. h \notin HandlesOf(f)
    BY Zenon, EntityMapAssumption DEF Free, HandlesOf
  <1>3. Cardinality(HandlesOf(f) \cup {h}) = Cardinality(HandlesOf(f)) + 1
    BY Zenon, <1>2, FewHandles, FS_AddElement
  <1> QED
    BY <1>1, <1>3, FewHandles

\* A dropped handle takes one from the handles of its entity, no other.
LEMMA LoseHandle ==
  ASSUME TypeOK, NEW h \in Handles, ~ Free(h),
         strong' = [strong EXCEPT ![h] = NoEntity], NEW f \in Entities
  PROVE  Cardinality(HandlesOf(f)') =
           Cardinality(HandlesOf(f)) - (IF f = strong[h] THEN 1 ELSE 0)
  <1>1. HandlesOf(f)' =
          IF f = strong[h] THEN HandlesOf(f) \ {h} ELSE HandlesOf(f)
    BY Zenon, EntityMapAssumption DEF TypeOK, Free, HandlesOf
  <1>2. f = strong[h] => h \in HandlesOf(f)
    BY Zenon DEF HandlesOf
  <1>3. f = strong[h] =>
          Cardinality(HandlesOf(f) \ {h}) = Cardinality(HandlesOf(f)) - 1
    BY Zenon, <1>2, FewHandles, FS_RemoveElement
  <1> QED
    BY <1>1, <1>3, FewHandles

\* A handle refers to an entity with a positive count.
LEMMA HeldIsCounted ==
  ASSUME IInv, NEW h \in Handles, ~ Free(h)
  PROVE  strong[h] \in Live /\ counts[strong[h]] # 0
  <1>1. strong[h] \in Entities /\ h \in HandlesOf(strong[h])
    BY Zenon DEF IInv, TypeOK, Free, HandlesOf
  <1> QED
    BY Zenon, <1>1, FewHandles DEF IInv, HandleKeepsEntity, RefCountExact

\* An entity that is not in the map has count zero.
LEMMA VacantIsUncounted ==
  ASSUME IInv, NEW e \in Entities, key_state[e] = "vacant"
  PROVE  HandlesOf(e) = {} /\ counts[e] = 0
  <1>1. HandlesOf(e) = {}
    BY Zenon, EntityMapAssumption
    DEF IInv, HandleKeepsEntity, HandlesOf, Free, Live
  <1> QED
    BY Zenon, <1>1, FewHandles DEF IInv, RefCountExact

----------------------------------------------------------------------------
\* The invariant holds at the start.
LEMMA InitInv == Init => IInv
  <1> SUFFICES ASSUME Init PROVE IInv
    BY Zenon
  <1>1. TypeOK
    BY DEF Init, TypeOK, Free
  <1>2. Upgradable = {} /\ Readers = {} /\ DroppedIds = {} /\ Live = {}
    BY DEF Init, Upgradable, Readers, DroppedIds, Live
  <1>3. Locking /\ VacantHasNoData
    BY Zenon, <1>2 DEF Init, Locking, VacantHasNoData
  <1>4. RefCountExact
    <2>1. \A e \in Entities : HandlesOf(e) = {}
      BY Zenon, EntityMapAssumption DEF Init, HandlesOf
    <2> QED
      BY Zenon, <2>1, FS_EmptySet DEF Init, RefCountExact
  <1>5. QueuedIffUnreferenced
    BY <1>2 DEF Init, QueuedIffUnreferenced, Pushing
  <1>6. HandleKeepsEntity
    BY Zenon DEF Init, HandleKeepsEntity, Free
  <1> QED
    BY Zenon, <1>1, <1>3, <1>4, <1>5, <1>6 DEF IInv

----------------------------------------------------------------------------
\* Each operation keeps the invariant.

LEMMA ReserveInv ==
  ASSUME IInv, NEW e \in Entities, NEW h \in Handles, Reserve(e, h)
  PROVE  IInv'
  <1> USE DEF IInv
  <1>1. TypeOK'
    BY EntityMapAssumption DEF Reserve, TypeOK, ReservedCount, Free, threadVars
  <1>2. /\ Upgradable' = Upgradable /\ Readers' = Readers
        /\ DroppedIds' = DroppedIds /\ Pushing' = Pushing
        /\ Live' = Live \cup {e}
    BY DEF Reserve, threadVars, Upgradable, Readers, DroppedIds, Pushing,
           Live, TypeOK
  <1>3. counts[e] = 0 /\ HandlesOf(e) = {}
    BY Zenon, VacantIsUncounted DEF Reserve
  <1>4. Locking'
    BY Zenon, <1>2 DEF Reserve, threadVars, Locking
  <1>5. VacantHasNoData'
    BY Zenon DEF Reserve, VacantHasNoData, TypeOK
  <1>6. RefCountExact'
    <2>1. Free(h) /\ strong' = [strong EXCEPT ![h] = e]
      BY Zenon DEF Reserve
    <2>2. \A f \in Entities :
            counts'[f] = IF f = e THEN 1 ELSE counts[f]
      BY Zenon DEF Reserve, ReservedCount, TypeOK
    <2>3. \A f \in Entities : Cardinality(HandlesOf(f)') =
            Cardinality(HandlesOf(f)) + (IF f = e THEN 1 ELSE 0)
      BY Zenon, <2>1, GainHandle
    <2> QED
      BY <1>3, <2>2, <2>3, FewHandles DEF RefCountExact
  <1>7. QueuedIffUnreferenced'
    <2>1. e \notin DroppedIds \cup Pushing
      BY Zenon DEF Reserve, QueuedIffUnreferenced, Live
    <2> QED
      BY <1>2, <2>1 DEF Reserve, QueuedIffUnreferenced, ReservedCount, TypeOK
  <1>8. HandleKeepsEntity'
    <2>1. data[e] = "none"
      BY Zenon DEF Reserve, VacantHasNoData
    <2>2. \A f \in Entities : HandlesOf(f) # {} => HandlesOf(f)' # {}
      BY EntityMapAssumption DEF Reserve, HandlesOf, TypeOK, Free
    <2> QED
      BY Zenon, <1>2, <2>1, <2>2 DEF Reserve, HandleKeepsEntity, Free, TypeOK
  <1> QED
    BY Zenon, <1>1, <1>4, <1>5, <1>6, <1>7, <1>8

\* Insert, lease and end_lease only move the data.
LEMMA DataInv ==
  ASSUME IInv,
         \/ \E h \in Handles : Insert(h) \/ Lease(h)
         \/ \E e \in Entities : EndLease(e)
  PROVE  IInv'
  <1> USE DEF IInv
  <1>1. PICK e \in Entities, d \in {"stored", "leased"} :
          /\ data' = [data EXCEPT ![e] = d]
          /\ HandlesOf(e) # {}
          /\ key_state[e] = "live" /\ data[e] # "released"
          /\ slots' \subseteq slots
    <2>1. ASSUME NEW h \in Handles, Insert(h) \/ Lease(h)
          PROVE  /\ strong[h] \in Entities
                 /\ HandlesOf(strong[h]) # {}
                 /\ key_state[strong[h]] = "live"
                 /\ data[strong[h]] # "released"
      BY Zenon, <2>1
      DEF Insert, Lease, TypeOK, Free, HandlesOf, HandleKeepsEntity, Live
    <2>2. ASSUME NEW f \in Entities, EndLease(f)
          PROVE  HandlesOf(f) # {} /\ key_state[f] = "live"
      BY <2>2, EntityMapAssumption
      DEF EndLease, HandlesOf, HandleKeepsEntity, Live, Free, TypeOK
    <2> QED
      BY <2>1, <2>2 DEF Insert, Lease, EndLease
  <1>2. UNCHANGED << key_state, counts, dropped_entity_ids, strong, pc,
                     target, loaded >>
    BY Zenon DEF Insert, Lease, EndLease, threadVars
  <1>3. TypeOK'
    BY Zenon, <1>1, <1>2 DEF TypeOK, Free
  <1>4. Locking'
    BY Zenon, <1>2 DEF Locking, Upgradable, Readers, Live
  <1>5. VacantHasNoData'
    BY Zenon, <1>1, <1>2 DEF VacantHasNoData, TypeOK
  <1>6. RefCountExact'
    BY Zenon, <1>2 DEF RefCountExact, HandlesOf
  <1>7. QueuedIffUnreferenced'
    <2>1. Live' = Live /\ DroppedIds' = DroppedIds /\ Pushing' = Pushing
      BY Zenon, <1>2 DEF Live, DroppedIds, Pushing, Upgradable
    <2> QED
      BY Zenon, <1>2, <2>1 DEF QueuedIffUnreferenced
  <1>8. HandleKeepsEntity'
    BY <1>1, <1>2 DEF HandleKeepsEntity, HandlesOf, Free, Live, TypeOK
  <1> QED
    BY Zenon, <1>3, <1>4, <1>5, <1>6, <1>7, <1>8

LEMMA CloneInv ==
  ASSUME IInv, NEW t \in Threads, NEW h \in Handles, NEW new \in Handles,
         Clone(t, h, new)
  PROVE  IInv'
  <1> USE DEF IInv
  <1> DEFINE e == strong[h]
  <1>1. e \in Entities /\ e \in Live /\ counts[e] # 0
    BY Zenon, HeldIsCounted DEF Clone, TypeOK, Free
  <1>2. /\ data[e] # "released"
        /\ counts' = [counts EXCEPT ![e] = counts[e] + 1]
        /\ strong' = [strong EXCEPT ![new] = e]
        /\ UNCHANGED << key_state, dropped_entity_ids, data, slots, pc,
                        target, loaded >>
    BY Zenon DEF Clone, threadVars, HandleKeepsEntity
  <1>3. Free(new)
    BY Zenon DEF Clone
  <1> HIDE DEF e
  <1>4. TypeOK'
    BY <1>1, <1>2, <1>3, EntityMapAssumption DEF TypeOK, Free
  <1>5. Locking' /\ VacantHasNoData'
    BY <1>2 DEF Locking, VacantHasNoData, Upgradable, Readers, Live
  <1>6. RefCountExact'
    <2>1. \A f \in Entities :
            counts'[f] = counts[f] + (IF f = e THEN 1 ELSE 0)
      BY <1>1, <1>2 DEF TypeOK
    <2>2. \A f \in Entities : Cardinality(HandlesOf(f)') =
            Cardinality(HandlesOf(f)) + (IF f = e THEN 1 ELSE 0)
      BY Zenon, <1>1, <1>2, <1>3, GainHandle
    <2> QED
      BY Zenon, <2>1, <2>2 DEF RefCountExact
  <1>7. QueuedIffUnreferenced'
    <2>1. \A f \in Entities : counts'[f] = 0 <=> counts[f] = 0
      BY <1>1, <1>2 DEF TypeOK
    <2>2. Live' = Live /\ DroppedIds' = DroppedIds /\ Pushing' = Pushing
      BY Zenon, <1>2 DEF Live, DroppedIds, Pushing, Upgradable
    <2>3. Live \subseteq Entities
      BY Zenon DEF Live
    <2> QED
      BY Zenon, <1>2, <2>1, <2>2, <2>3 DEF QueuedIffUnreferenced
  <1>8. HandleKeepsEntity'
    <2>1. \A f \in Entities : HandlesOf(f) # {} => HandlesOf(f)' # {}
      BY <1>2, <1>3, EntityMapAssumption DEF HandlesOf, TypeOK, Free
    <2> QED
      BY Zenon, <1>1, <1>2, <2>1 DEF HandleKeepsEntity, Free, Live, TypeOK
  <1> QED
    BY Zenon, <1>4, <1>5, <1>6, <1>7, <1>8

LEMMA DropInv ==
  ASSUME IInv, NEW t \in Threads, NEW h \in Handles, DropHandle(t, h)
  PROVE  IInv'
  <1> USE DEF IInv
  <1> DEFINE e == strong[h]
  <1>1. e \in Entities /\ e \in Live /\ counts[e] \in Nat \ {0}
    BY Zenon, HeldIsCounted DEF DropHandle, TypeOK, Free
  <1>2. /\ ~ Free(h) /\ pc[t] = "idle" /\ Upgradable = {} /\ ~ WriterBit
        /\ data[e] = "leased" => HandlesOf(e) # {h}
        /\ counts' = [counts EXCEPT ![e] = counts[e] - 1]
        /\ strong' = [strong EXCEPT ![h] = NoEntity]
        /\ slots' = slots \ {h}
        /\ UNCHANGED << key_state, dropped_entity_ids, data, loaded >>
    BY Zenon DEF DropHandle, Idle
  <1>3. \/ /\ counts[e] = 1
           /\ pc' = [pc EXCEPT ![t] = "push"]
           /\ target' = [target EXCEPT ![t] = e]
        \/ /\ counts[e] # 1
           /\ pc' = pc /\ target' = target
    BY Zenon DEF DropHandle, WasLast
  <1>4. h \in HandlesOf(e)
    BY Zenon DEF HandlesOf
  <1> HIDE DEF e
  <1>5. TypeOK'
    <2>1. counts' \in [Entities -> Nat]
      BY <1>1, <1>2 DEF TypeOK
    <2>2. /\ strong' \in [Handles -> Entities \cup {NoEntity}]
          /\ slots' \subseteq { g \in Handles : ~ Free(g)' }
      BY Zenon, <1>2, EntityMapAssumption DEF TypeOK, Free
    <2>3. /\ pc' \in [Threads -> {"idle", "push", "upgrading", "cas",
                                 "collecting"}]
          /\ target' \in [Threads -> Entities \cup {NoEntity}]
          /\ \A u \in Threads : pc'[u] \in {"push", "upgrading", "cas"} =>
                                 target'[u] \in Entities
      BY ZenonT(60), <1>1, <1>2, <1>3 DEF TypeOK
    <2> QED
      BY Zenon, <1>2, <2>1, <2>2, <2>3 DEF TypeOK
  <1>6. /\ Live' = Live /\ DroppedIds' = DroppedIds
        /\ Readers' = Readers
        /\ \A r \in Readers : target'[r] = target[r]
    BY <1>2, <1>3 DEF Live, DroppedIds, Readers, TypeOK
  <1>7. Upgradable' = (IF counts[e] = 1 THEN {t} ELSE {})
    BY <1>2, <1>3 DEF Upgradable, TypeOK
  <1>8. Pushing = {} /\ Pushing' = (IF counts[e] = 1 THEN {e} ELSE {})
    <2>1. Pushing = {}
      BY Zenon, <1>2 DEF Pushing
    <2>2. counts[e] = 1 => target'[t] = e
      BY Zenon, <1>3 DEF TypeOK
    <2> QED
      BY Zenon, <1>7, <2>1, <2>2 DEF Pushing
  <1>9. Locking'
    <2>1. \A u \in Threads : pc'[u] # "collecting"
      BY <1>2, <1>3 DEF WriterBit, TypeOK
    <2> QED
      BY Zenon, <1>2, <1>6, <1>7, <2>1 DEF Locking, TypeOK
  <1>10. VacantHasNoData'
    BY Zenon, <1>2 DEF VacantHasNoData
  <1>11. RefCountExact'
    <2>1. \A f \in Entities :
            counts'[f] = counts[f] - (IF f = e THEN 1 ELSE 0)
      BY <1>1, <1>2 DEF TypeOK
    <2>2. \A f \in Entities : Cardinality(HandlesOf(f)') =
            Cardinality(HandlesOf(f)) - (IF f = e THEN 1 ELSE 0)
      BY Zenon, <1>2, LoseHandle DEF e
    <2> QED
      BY Zenon, <2>1, <2>2 DEF RefCountExact
  <1>12. QueuedIffUnreferenced'
    <2>1. e \notin DroppedIds
      BY Zenon, <1>1 DEF QueuedIffUnreferenced
    <2>2. Live \subseteq Entities
      BY Zenon DEF Live
    <2> QED
      BY <1>1, <1>2, <1>6, <1>8, <2>1, <2>2
      DEF QueuedIffUnreferenced, TypeOK
  <1>13. HandleKeepsEntity'
    <2>1. ASSUME NEW f \in Entities, data[f] = "leased"
          PROVE  HandlesOf(f)' # {}
      <3>1. PICK g \in Handles : strong[g] = f /\ g # h
        BY Zenon, <1>2, <1>4, <2>1 DEF HandleKeepsEntity, HandlesOf
      <3> QED
        BY Zenon, <1>2, <3>1 DEF HandlesOf, TypeOK
    <2> QED
      BY Zenon, <1>2, <1>6, <2>1 DEF HandleKeepsEntity, Free, TypeOK
  <1> QED
    BY Zenon, <1>5, <1>9, <1>10, <1>11, <1>12, <1>13

LEMMA StartUpgradeInv ==
  ASSUME IInv, NEW t \in Threads, StartUpgrade(t)
  PROVE  IInv'
  <1> USE DEF IInv
  <1>1. /\ Upgradable' = Upgradable /\ Readers' = Readers
        /\ Live' = Live /\ DroppedIds' = DroppedIds
    BY DEF StartUpgrade, Upgradable, Readers, Live, DroppedIds, TypeOK
  <1>2. Pushing' = Pushing
    BY Zenon, <1>1 DEF StartUpgrade, Pushing
  <1>3. TypeOK'
    BY Zenon DEF StartUpgrade, TypeOK, Free
  <1>4. Locking' /\ VacantHasNoData'
    BY Zenon, <1>1 DEF StartUpgrade, Locking, VacantHasNoData, TypeOK
  <1>5. RefCountExact' /\ HandleKeepsEntity'
    BY Zenon, <1>1 DEF StartUpgrade, RefCountExact, HandleKeepsEntity, HandlesOf, Free
  <1>6. QueuedIffUnreferenced'
    BY Zenon, <1>1, <1>2 DEF StartUpgrade, QueuedIffUnreferenced
  <1> QED
    BY Zenon, <1>3, <1>4, <1>5, <1>6

LEMMA PushInv ==
  ASSUME IInv, NEW t \in Threads, PushDropped(t)
  PROVE  IInv'
  <1> USE DEF IInv
  <1> DEFINE e == target[t]
  <1> DEFINE q == dropped_entity_ids
  <1>1. /\ pc[t] = "upgrading" /\ Readers = {}
        /\ q' = Append(q, e) /\ pc' = [pc EXCEPT ![t] = "idle"]
        /\ UNCHANGED << key_state, counts, data, strong, slots, target,
                        loaded >>
    BY Zenon DEF PushDropped, QueueDropped
  <1>2. e \in Entities /\ t \in Upgradable
    BY Zenon, <1>1 DEF TypeOK, Upgradable
  <1>3. Upgradable = {t} /\ Pushing = {e}
    BY Zenon, <1>2 DEF Locking, Pushing
  <1>4. Upgradable' = {} /\ Pushing' = {} /\ Readers' = {} /\ Live' = Live
    BY <1>1, <1>3 DEF Upgradable, Pushing, Readers, Live, TypeOK
  <1>5. /\ Len(q') = Len(q) + 1 /\ q'[Len(q) + 1] = e
        /\ \A i \in 1 .. Len(q) : q'[i] = q[i]
        /\ Len(q) \in Nat
    BY <1>1, <1>2 DEF TypeOK
  <1>6. DroppedIds' = DroppedIds \cup {e}
    BY <1>5 DEF DroppedIds
  <1>7. TypeOK'
    BY <1>1, <1>2 DEF TypeOK, Free
  <1>8. Locking' /\ VacantHasNoData'
    BY Zenon, <1>1, <1>2, <1>4 DEF Locking, VacantHasNoData, TypeOK
  <1>9. RefCountExact' /\ HandleKeepsEntity'
    BY Zenon, <1>1, <1>4 DEF RefCountExact, HandleKeepsEntity, HandlesOf, Free
  <1>10. QueuedIffUnreferenced'
    <2>1. \A i \in 1 .. Len(q) : q[i] # e
      BY Zenon, <1>3 DEF QueuedIffUnreferenced, DroppedIds
    <2>2. \A i, j \in 1 .. Len(q') : q'[i] = q'[j] => i = j
      BY <1>5, <2>1 DEF QueuedIffUnreferenced
    <2> QED
      BY Zenon, <1>1, <1>3, <1>4, <1>6, <2>2 DEF QueuedIffUnreferenced
  <1> QED
    BY Zenon, <1>7, <1>8, <1>9, <1>10

LEMMA UpgradeLoadInv ==
  ASSUME IInv, NEW t \in Threads, NEW e \in Entities, UpgradeLoad(t, e)
  PROVE  IInv'
  <1> USE DEF IInv
  <1>1. /\ pc[t] = "idle" /\ ~ WriterBit
        /\ e \in Live /\ counts[e] # 0
        /\ pc' = [pc EXCEPT ![t] = "cas"]
        /\ target' = [target EXCEPT ![t] = e]
        /\ loaded' = [loaded EXCEPT ![t] = counts[e]]
        /\ UNCHANGED << key_state, counts, dropped_entity_ids, data, strong,
                        slots >>
    BY Zenon DEF UpgradeLoad, Idle, UpgradableNow, Live
  <1>2. /\ Upgradable' = Upgradable /\ Readers' = Readers \cup {t}
        /\ Live' = Live /\ DroppedIds' = DroppedIds /\ t \notin Upgradable
    BY <1>1 DEF Upgradable, Readers, Live, DroppedIds, TypeOK
  <1>3. Pushing' = Pushing
    BY <1>1, <1>2 DEF Pushing, Upgradable, TypeOK
  <1>4. TypeOK'
    BY Zenon, <1>1 DEF TypeOK, Free
  <1>5. Locking' /\ VacantHasNoData'
    BY <1>1, <1>2 DEF Locking, VacantHasNoData, WriterBit, TypeOK, Readers
  <1>6. RefCountExact' /\ HandleKeepsEntity'
    BY Zenon, <1>1, <1>2 DEF RefCountExact, HandleKeepsEntity, HandlesOf, Free
  <1>7. QueuedIffUnreferenced'
    BY Zenon, <1>1, <1>2, <1>3 DEF QueuedIffUnreferenced
  <1> QED
    BY Zenon, <1>4, <1>5, <1>6, <1>7

LEMMA UpgradeCasInv ==
  ASSUME IInv, NEW t \in Threads, NEW h \in Handles, UpgradeCas(t, h)
  PROVE  IInv'
  <1> USE DEF IInv
  <1> DEFINE e == target[t]
  <1>1. /\ pc[t] = "cas" /\ Free(h) /\ counts[e] = loaded[t]
        /\ counts' = [counts EXCEPT ![e] = loaded[t] + 1]
        /\ strong' = [strong EXCEPT ![h] = e]
        /\ pc' = [pc EXCEPT ![t] = "idle"]
        /\ UNCHANGED << key_state, dropped_entity_ids, data, slots, target,
                        loaded >>
    BY Zenon DEF UpgradeCas, CasSucceeds
  <1>2. /\ t \in Readers /\ e \in Entities /\ e \in Live
        /\ counts[e] \in Nat \ {0}
    BY Zenon, <1>1 DEF Locking, Readers, Live, TypeOK
  <1> HIDE DEF e
  <1>3. /\ Upgradable' = Upgradable /\ Readers' = Readers \ {t}
        /\ Live' = Live /\ DroppedIds' = DroppedIds
    BY <1>1 DEF Upgradable, Readers, Live, DroppedIds, TypeOK
  <1>4. Pushing' = Pushing
    BY Zenon, <1>1, <1>3 DEF Pushing
  <1>5. \A f \in Entities :
          counts'[f] = counts[f] + (IF f = e THEN 1 ELSE 0)
    BY <1>1, <1>2 DEF TypeOK
  <1>6. TypeOK'
    <2>1. counts' \in [Entities -> Nat]
      BY <1>1, <1>2 DEF TypeOK
    <2> QED
      BY Zenon, <1>1, <1>2, <2>1, EntityMapAssumption DEF TypeOK, Free
  <1>7. Locking' /\ VacantHasNoData'
    BY Zenon, <1>1, <1>3 DEF Locking, VacantHasNoData, TypeOK
  <1>8. RefCountExact'
    <2>1. \A f \in Entities : Cardinality(HandlesOf(f)') =
            Cardinality(HandlesOf(f)) + (IF f = e THEN 1 ELSE 0)
      BY Zenon, <1>1, <1>2, GainHandle
    <2> QED
      BY Zenon, <1>5, <2>1 DEF RefCountExact
  <1>9. QueuedIffUnreferenced'
    <2>1. \A f \in Entities : counts'[f] = 0 <=> counts[f] = 0
      BY <1>2, <1>5 DEF TypeOK
    <2>2. Live \subseteq Entities
      BY Zenon DEF Live
    <2> QED
      BY Zenon, <1>1, <1>3, <1>4, <2>1, <2>2 DEF QueuedIffUnreferenced
  <1>10. HandleKeepsEntity'
    <2>1. \A f \in Entities : HandlesOf(f) # {} => HandlesOf(f)' # {}
      BY <1>1, EntityMapAssumption DEF HandlesOf, TypeOK, Free
    <2>2. data[e] # "released"
      <3>1. HandlesOf(e) # {}
        BY Zenon, <1>2, FewHandles DEF RefCountExact
      <3> QED
        BY Zenon, <1>2, <3>1, EntityMapAssumption DEF HandleKeepsEntity, HandlesOf, Free
    <2> QED
      BY Zenon, <1>1, <1>2, <1>3, <2>1, <2>2 DEF HandleKeepsEntity, Free, TypeOK
  <1> QED
    BY Zenon, <1>6, <1>7, <1>8, <1>9, <1>10

LEMMA UpgradeRetryInv ==
  ASSUME IInv, NEW t \in Threads, UpgradeRetry(t)
  PROVE  IInv'
  <1> USE DEF IInv
  <1>1. /\ pc[t] = "cas" /\ target[t] \in Entities
        /\ UNCHANGED << key_state, counts, dropped_entity_ids, data, strong,
                        slots, target >>
        /\ \/ pc' = [pc EXCEPT ![t] = "idle"] /\ loaded' = loaded
           \/ /\ counts[target[t]] # 0 /\ pc' = pc
              /\ loaded' = [loaded EXCEPT ![t] = counts[target[t]]]
    BY Zenon DEF UpgradeRetry, TypeOK
  <1>2. /\ Upgradable' = Upgradable /\ Readers' \subseteq Readers
        /\ Live' = Live /\ DroppedIds' = DroppedIds
    BY <1>1 DEF Upgradable, Readers, Live, DroppedIds, TypeOK
  <1>3. Pushing' = Pushing
    BY Zenon, <1>1, <1>2 DEF Pushing
  <1>4. TypeOK'
    BY ZenonT(60), <1>1 DEF TypeOK, Free
  <1>5. Locking' /\ VacantHasNoData'
    BY <1>1, <1>2 DEF Locking, VacantHasNoData, TypeOK, Readers
  <1>6. RefCountExact' /\ HandleKeepsEntity'
    BY <1>1, <1>2 DEF RefCountExact, HandleKeepsEntity, HandlesOf, Free
  <1>7. QueuedIffUnreferenced'
    BY <1>1, <1>2, <1>3 DEF QueuedIffUnreferenced
  <1> QED
    BY Zenon, <1>4, <1>5, <1>6, <1>7

LEMMA StartCollectInv ==
  ASSUME IInv, StartCollect
  PROVE  IInv'
  <1> USE DEF IInv
  <1>1. /\ pc[Main] = "idle" /\ Upgradable = {}
        /\ pc' = [pc EXCEPT ![Main] = "collecting"]
        /\ UNCHANGED << key_state, counts, dropped_entity_ids, data, strong,
                        slots, target, loaded >>
    BY Zenon DEF StartCollect, Idle
  <1>2. /\ Upgradable' = {} /\ Readers' = Readers
        /\ Live' = Live /\ DroppedIds' = DroppedIds
    BY <1>1, EntityMapAssumption
    DEF Upgradable, Readers, Live, DroppedIds, TypeOK
  <1>3. Pushing' = Pushing
    BY Zenon, <1>1, <1>2 DEF Pushing
  <1>4. TypeOK'
    BY Zenon, <1>1, EntityMapAssumption DEF TypeOK, Free
  <1>5. Locking' /\ VacantHasNoData'
    BY Zenon, <1>1, <1>2 DEF Locking, VacantHasNoData, TypeOK
  <1>6. RefCountExact' /\ HandleKeepsEntity'
    BY Zenon, <1>1, <1>2 DEF RefCountExact, HandleKeepsEntity, HandlesOf, Free
  <1>7. QueuedIffUnreferenced'
    BY Zenon, <1>1, <1>2, <1>3 DEF QueuedIffUnreferenced
  <1> QED
    BY Zenon, <1>4, <1>5, <1>6, <1>7

LEMMA TakeDroppedInv ==
  ASSUME IInv, TakeDropped
  PROVE  IInv'
  <1> USE DEF IInv
  <1>1. /\ pc[Main] = "collecting" /\ Readers = {}
        /\ key_state' = [e \in Entities |->
                     IF e \in DroppedIds THEN "removed" ELSE key_state[e]]
        /\ data' = [e \in Entities |-> CollectData(e)]
        /\ dropped_entity_ids' = << >>
        /\ pc' = [pc EXCEPT ![Main] = "idle"]
        /\ UNCHANGED << counts, strong, slots, target, loaded >>
    BY Zenon DEF TakeDropped, TakenQueue
  <1>2. Upgradable = {} /\ Upgradable' = {} /\ Readers' = {}
    BY <1>1, EntityMapAssumption
    DEF Locking, Upgradable, Readers, TypeOK
  <1>3. Live' = Live \ DroppedIds /\ Live \subseteq Entities
    BY Zenon, <1>1 DEF Live, TypeOK
  <1>4. DroppedIds' = {} /\ Pushing = {} /\ Pushing' = {}
    BY <1>1, <1>2 DEF DroppedIds, Pushing
  <1>5. \A e \in Entities : CollectData(e) =
          IF e \in DroppedIds /\ data[e] = "stored" THEN "released" ELSE data[e]
    BY DEF CollectData
  <1>6. TypeOK'
    <2>1. key_state' \in [Entities -> {"vacant", "live", "removed"}]
      BY Zenon, <1>1 DEF TypeOK
    <2>2. data' \in [Entities -> {"none", "stored", "leased", "released"}]
      BY Zenon, <1>1, <1>5 DEF TypeOK
    <2>3. /\ pc' \in [Threads -> {"idle", "push", "upgrading", "cas",
                                 "collecting"}]
          /\ \A u \in Threads : pc'[u] \in {"push", "upgrading", "cas"} =>
                                 target'[u] \in Entities
      BY Zenon, <1>1 DEF TypeOK
    <2>4. dropped_entity_ids' \in Seq(Entities)
      BY <1>1
    <2> QED
      BY Zenon, <1>1, <2>1, <2>2, <2>3, <2>4 DEF TypeOK, Free
  <1>7. Locking'
    BY Zenon, <1>1, <1>2 DEF Locking, TypeOK
  <1>8. VacantHasNoData'
    BY Zenon, <1>1, <1>5 DEF VacantHasNoData
  <1>9. RefCountExact'
    BY Zenon, <1>1 DEF RefCountExact, HandlesOf
  <1>10. QueuedIffUnreferenced'
    BY <1>1, <1>3, <1>4 DEF QueuedIffUnreferenced
  <1>11. HandleKeepsEntity'
    <2>1. ASSUME NEW h \in Handles, ~ Free(h)
          PROVE  /\ strong[h] \in Live \ DroppedIds
                 /\ data'[strong[h]] # "released"
      <3>1. strong[h] \in Live /\ strong[h] \notin DroppedIds
        BY Zenon, <2>1, HeldIsCounted DEF QueuedIffUnreferenced
      <3> QED
        BY Zenon, <1>1, <1>3, <1>5, <2>1, <3>1 DEF HandleKeepsEntity
    <2>2. \A e \in Entities : data'[e] = "leased" => data[e] = "leased"
      BY Zenon, <1>1, <1>5
    <2> QED
      BY Zenon, <1>1, <1>3, <2>1, <2>2 DEF HandleKeepsEntity, Free, HandlesOf
  <1> QED
    BY Zenon, <1>6, <1>7, <1>8, <1>9, <1>10, <1>11

\* Every step keeps the invariant.
LEMMA NextInv == IInv /\ [Next]_vars => IInv'
  <1> SUFFICES ASSUME IInv, [Next]_vars PROVE IInv'
    BY Zenon
  <1>1. CASE \E e \in Entities, h \in Handles : Reserve(e, h)
    BY Zenon, <1>1, ReserveInv
  <1>2. CASE \/ \E h \in Handles : Insert(h) \/ Lease(h)
             \/ \E e \in Entities : EndLease(e)
    BY Zenon, <1>2, DataInv
  <1>3. CASE \E t \in Threads, h, new \in Handles : Clone(t, h, new)
    BY Zenon, <1>3, CloneInv
  <1>4. CASE \E t \in Threads, h \in Handles : DropHandle(t, h)
    BY Zenon, <1>4, DropInv
  <1>5. CASE \E t \in Threads : StartUpgrade(t) \/ PushDropped(t)
    BY Zenon, <1>5, StartUpgradeInv, PushInv
  <1>6. CASE \E t \in Threads, e \in Entities : UpgradeLoad(t, e)
    BY Zenon, <1>6, UpgradeLoadInv
  <1>7. CASE \E t \in Threads : UpgradeRound(t)
    BY Zenon, <1>7, UpgradeRetryInv, UpgradeCasInv DEF UpgradeRound
  <1>8. CASE StartCollect \/ TakeDropped
    BY Zenon, <1>8, StartCollectInv, TakeDroppedInv
  <1>9. CASE UNCHANGED vars
    <2> USE <1>9 DEF vars, IInv
    <2>1. /\ Upgradable' = Upgradable /\ Readers' = Readers
          /\ Live' = Live /\ DroppedIds' = DroppedIds
      BY Zenon DEF Upgradable, Readers, Live, DroppedIds
    <2>2. Pushing' = Pushing
      BY Zenon, <2>1 DEF Pushing
    <2>3. TypeOK'
      BY Zenon DEF TypeOK, Free
    <2>4. Locking' /\ VacantHasNoData'
      BY Zenon, <2>1 DEF Locking, VacantHasNoData
    <2>5. RefCountExact' /\ HandleKeepsEntity'
      BY Zenon, <2>1 DEF RefCountExact, HandleKeepsEntity, HandlesOf, Free
    <2>6. QueuedIffUnreferenced'
      BY Zenon, <2>1, <2>2 DEF QueuedIffUnreferenced
    <2> QED
      BY Zenon, <2>3, <2>4, <2>5, <2>6
  <1> QED
    BY Zenon, <1>1, <1>2, <1>3, <1>4, <1>5, <1>6, <1>7, <1>8, <1>9 DEF Next

\* The invariant holds in every state.
THEOREM Invariance == Spec => []IInv
  BY InitInv, NextInv, PTL DEF Spec

\* EntityMap keeps the shape of its Rust types.
THEOREM TypeCorrect == Spec => []TypeOK
  <1>1. IInv => TypeOK
    BY Zenon DEF IInv
  <1> QED
    BY <1>1, Invariance, PTL

\* Reference counts are exact: the number in the slot map is the number of
\* strong handles, for any number of threads that clone, drop and upgrade.
THEOREM CountsAreExact == Spec => []RefCountExact
  <1>1. IInv => RefCountExact
    BY Zenon DEF IInv
  <1> QED
    BY <1>1, Invariance, PTL

\* An id is queued for collection once, and exactly when nobody refers to its
\* entity: the unwrap and the debug assertion of take_dropped hold.
THEOREM QueueIsRight == Spec => []QueuedIffUnreferenced
  <1>1. IInv => QueuedIffUnreferenced
    BY Zenon DEF IInv
  <1> QED
    BY <1>1, Invariance, PTL

\* As long as there is a strong handle, the key stays in the map and the data
\* is not released, and no leased entity is collected.
THEOREM HandlesKeepEntities == Spec => []HandleKeepsEntity
  <1>1. IInv => HandleKeepsEntity
    BY Zenon DEF IInv
  <1> QED
    BY <1>1, Invariance, PTL

----------------------------------------------------------------------------
\* The refinement.  An entity's life changes in three places: it starts with
\* reserve, it turns unreferenced with the decrement of the last drop, and the
\* ids of one take_dropped are collected together.

\* The life of an entity, by its key and its count.
LEMMA LifeOf ==
  ASSUME TypeOK, NEW e \in Entities
  PROVE  life[e] = IF key_state[e] = "vacant" THEN "vacant"
                   ELSE IF key_state[e] = "removed" THEN "collected"
                   ELSE IF counts[e] # 0 THEN "referenced"
                   ELSE "unreferenced"
  <1>1. key_state[e] \in {"vacant", "live", "removed"}
    BY Zenon DEF TypeOK
  <1> QED
    BY Zenon, <1>1 DEF life, Life

\* The same in the next state.
LEMMA NextLifeOf ==
  ASSUME TypeOK', NEW e \in Entities
  PROVE  life'[e] = IF key_state'[e] = "vacant" THEN "vacant"
                    ELSE IF key_state'[e] = "removed" THEN "collected"
                    ELSE IF counts'[e] # 0 THEN "referenced"
                    ELSE "unreferenced"
  <1>1. key_state'[e] \in {"vacant", "live", "removed"}
    BY Zenon DEF TypeOK
  <1> QED
    BY Zenon, <1>1 DEF life, Life

\* A step that gives one entity a new life leaves the function as EXCEPT does.
LEMMA LifeExcept ==
  ASSUME NEW e \in Entities, NEW x,
         \A f \in Entities : life'[f] = IF f = e THEN x ELSE life[f]
  PROVE  life' = [life EXCEPT ![e] = x]
  <1>1. /\ life = [f \in Entities |-> life[f]]
        /\ life' = [f \in Entities |-> life'[f]]
    BY Zenon DEF life
  <1>2. [life EXCEPT ![e] = x] =
          [f \in Entities |-> IF f = e THEN x ELSE life[f]]
    BY Zenon, <1>1
  <1> QED
    BY Zenon, <1>1, <1>2

\* A step that changes no key, and no count between zero and not zero, does
\* not change the life of any entity.
LEMMA LifeStutters ==
  ASSUME TypeOK, TypeOK', key_state' = key_state,
         \A e \in Entities : counts'[e] = 0 <=> counts[e] = 0
  PROVE  life' = life
  <1>1. \A e \in Entities : life'[e] = life[e]
    BY Zenon, LifeOf, NextLifeOf
  <1> QED
    BY Zenon, <1>1 DEF life

\* reserve is the step Reserve of the contract.
LEMMA ReserveRefines ==
  ASSUME IInv, IInv', NEW e \in Entities, NEW h \in Handles, Reserve(e, h)
  PROVE  contract!Reserve(e)
  <1>1. life[e] = "vacant"
    BY Zenon, LifeOf DEF Reserve, IInv
  <1>2. \A f \in Entities :
          /\ key_state'[f] = IF f = e THEN "live" ELSE key_state[f]
          /\ counts'[f] = IF f = e THEN 1 ELSE counts[f]
    BY DEF Reserve, ReservedCount, IInv, TypeOK
  <1>3. \A f \in Entities :
          life'[f] = IF f = e THEN "referenced" ELSE life[f]
    BY <1>2, LifeOf, NextLifeOf DEF IInv
  <1> QED
    BY Zenon, <1>1, <1>3, LifeExcept DEF contract!Reserve

\* The drop of a handle is the step LastDrop of the contract or changes no
\* life.
LEMMA DropRefines ==
  ASSUME IInv, IInv', NEW t \in Threads, NEW h \in Handles, DropHandle(t, h)
  PROVE  contract!LastDrop(strong[h]) \/ life' = life
  <1> DEFINE e == strong[h]
  <1>1. e \in Entities /\ key_state[e] = "live" /\ counts[e] \in Nat \ {0}
    BY Zenon, HeldIsCounted DEF DropHandle, IInv, TypeOK, Free, Live
  <1>2. /\ key_state' = key_state
        /\ counts' = [counts EXCEPT ![e] = counts[e] - 1]
    BY Zenon DEF DropHandle
  <1> HIDE DEF e
  <1>3. CASE counts[e] = 1
    <2>1. life[e] = "referenced"
      BY Zenon, <1>1, LifeOf DEF IInv
    <2>2. \A f \in Entities :
            /\ key_state'[f] = key_state[f]
            /\ counts'[f] = IF f = e THEN 0 ELSE counts[f]
      BY <1>1, <1>2, <1>3 DEF IInv, TypeOK
    <2>3. \A f \in Entities :
            life'[f] = IF f = e THEN "unreferenced" ELSE life[f]
      BY ZenonT(60), <1>1, <2>2, LifeOf, NextLifeOf DEF IInv
    <2> QED
      BY Zenon, <1>1, <2>1, <2>3, LifeExcept DEF contract!LastDrop, e
  <1>4. CASE counts[e] # 1
    <2>1. \A f \in Entities : counts'[f] = 0 <=> counts[f] = 0
      BY <1>1, <1>2, <1>4 DEF IInv, TypeOK
    <2> QED
      BY Zenon, <1>2, <2>1, LifeStutters DEF IInv
  <1> QED
    BY Zenon, <1>3, <1>4

\* take_dropped is the step Collect of the contract.
LEMMA CollectRefines ==
  ASSUME IInv, IInv', TakeDropped
  PROVE  DroppedIds \in SUBSET Entities /\ contract!Collect(DroppedIds)
  <1>1. DroppedIds \subseteq Live /\ Live \subseteq Entities
    BY Zenon DEF IInv, QueuedIffUnreferenced, Live
  <1>2. \A e \in DroppedIds : life[e] = "unreferenced"
    BY Zenon, <1>1, LifeOf DEF IInv, QueuedIffUnreferenced, Live
  <1>3. \A e \in Entities :
          /\ key_state'[e] =
               IF e \in DroppedIds THEN "removed" ELSE key_state[e]
          /\ counts'[e] = counts[e]
    BY Zenon DEF TakeDropped
  <1>4. \A e \in Entities :
          life'[e] = IF e \in DroppedIds THEN "collected" ELSE life[e]
    BY <1>3, LifeOf, NextLifeOf DEF IInv
  <1>5. life' = [e \in Entities |-> life'[e]]
    BY Zenon DEF life
  <1> QED
    BY Zenon, <1>1, <1>2, <1>4, <1>5 DEF contract!Collect

\* Every step is a step of the contract or changes no life.
LEMMA NextRefines ==
  IInv /\ IInv' /\ [Next]_vars => [contract!Next]_life
  <1> SUFFICES ASSUME IInv, IInv', [Next]_vars
               PROVE  contract!Next \/ life' = life
    BY Zenon
  <1>1. CASE \E e \in Entities, h \in Handles : Reserve(e, h)
    BY Zenon, <1>1, ReserveRefines DEF contract!Next
  <1>2. CASE \E t \in Threads, h \in Handles : DropHandle(t, h)
    <2>1. PICK t \in Threads, h \in Handles : DropHandle(t, h)
      BY Zenon, <1>2
    <2>2. strong[h] \in Entities
      BY <2>1 DEF DropHandle, IInv, TypeOK, Free
    <2> QED
      BY Zenon, <2>1, <2>2, DropRefines DEF contract!Next
  <1>3. CASE TakeDropped
    BY Zenon, <1>3, CollectRefines DEF contract!Next
  <1>4. CASE \/ \E h \in Handles : Insert(h) \/ Lease(h)
             \/ \E e \in Entities : EndLease(e)
             \/ \E t \in Threads :
                  \/ StartUpgrade(t) \/ PushDropped(t) \/ UpgradeRetry(t)
                  \/ \E e \in Entities : UpgradeLoad(t, e)
             \/ StartCollect
             \/ UNCHANGED vars
    <2>1. key_state' = key_state /\ counts' = counts
      BY Zenon, <1>4 DEF Insert, Lease, EndLease, StartUpgrade, PushDropped,
                  UpgradeRetry, UpgradeLoad, StartCollect, vars
    <2> QED
      BY Zenon, <2>1, LifeStutters DEF IInv
  <1>5. CASE \E t \in Threads, h, new \in Handles : Clone(t, h, new)
    <2>1. PICK t \in Threads, h \in Handles, new \in Handles :
            Clone(t, h, new)
      BY Zenon, <1>5
    <2>2. strong[h] \in Entities /\ counts[strong[h]] \in Nat \ {0}
      BY Zenon, <2>1, HeldIsCounted DEF Clone, IInv, TypeOK, Free
    <2>3. \A f \in Entities : counts'[f] = 0 <=> counts[f] = 0
      BY SMTT(30), <2>1, <2>2 DEF Clone, IInv, TypeOK
    <2> QED
      BY Zenon, <2>1, <2>3, LifeStutters DEF IInv, Clone
  <1>6. CASE \E t \in Threads, h \in Handles : UpgradeCas(t, h)
    <2>1. PICK t \in Threads, h \in Handles : UpgradeCas(t, h)
      BY Zenon, <1>6
    <2>2. /\ target[t] \in Entities /\ counts[target[t]] = loaded[t]
          /\ loaded[t] \in Nat \ {0}
      BY Zenon, <2>1 DEF UpgradeCas, CasSucceeds, IInv, TypeOK, Locking, Readers
    <2>3. \A f \in Entities : counts'[f] = 0 <=> counts[f] = 0
      BY <2>1, <2>2 DEF UpgradeCas, IInv, TypeOK
    <2> QED
      BY Zenon, <2>1, <2>3, LifeStutters DEF IInv, UpgradeCas
  <1> QED
    BY Zenon, <1>1, <1>2, <1>3, <1>4, <1>5, <1>6 DEF Next, UpgradeRound

\* EntityMap implements the life of an entity that the App relies on: it is
\* referenced, then unreferenced for good, whatever upgrade races the last
\* drop, then collected once.
THEOREM Refinement == Spec => ImplementsEntityLife
  <1>1. Init => contract!Init
    BY DEF Init, contract!Init, life, Life
  <1> QED
    BY <1>1, NextRefines, Invariance, PTL
    DEF Spec, ImplementsEntityLife, contract!Spec
=============================================================================
