----------------------------- MODULE EntityMap -----------------------------
(***************************************************************************)
(* Ownership of entities (crates/gpui/src/app/entity_map.rs).              *)
(*                                                                         *)
(* The App owns the data of every entity; the rest of the program owns     *)
(* reference-counted handles, which are Send and Sync: any thread may      *)
(* clone, drop or upgrade one while the main thread allocates, leases and  *)
(* collects entities.  The counts sit behind a parking_lot RwLock:         *)
(*   - clone and upgrade take it shared and touch one atomic counter;      *)
(*   - drop takes it upgradable, decrements, and only if it was the last   *)
(*     handle upgrades to exclusive and queues the id;                     *)
(*   - reserve and take_dropped take it exclusive.                         *)
(* An operation that is one critical section is one step.  The drop of the *)
(* last handle is two (other readers run in between), an upgrade is a load *)
(* followed by a compare-and-swap loop, and exclusive access is requested  *)
(* in one step and had in a later one.                                     *)
(***************************************************************************)
EXTENDS Integers, Sequences, FiniteSets

CONSTANTS
  Threads,      \* threads that touch handles, the main thread included
  Main,         \* the thread that owns the App
  Entities,     \* the entity ids the slot map may hand out
  Handles,      \* bound: the strong handles that may exist at a time
  NoEntity      \* no entity

ASSUME EntityMapAssumption ==
  /\ Main \in Threads
  /\ NoEntity \notin Entities
  /\ IsFiniteSet(Handles)

VARIABLES
  key_state,           \* counts: SlotMap, the life of each key
  counts,              \* counts: SlotMap, the value under each key
  dropped_entity_ids,  \* ids whose last handle is gone
  data,                \* where the Box<dyn Any> of each entity is
  strong,              \* the entity each strong handle refers to
  slots,               \* handles still wrapped in a Slot
  pc,                  \* what each thread is in the middle of
  target,              \* the entity it is doing that to
  loaded               \* the counter value its compare-and-swap expects

vars == << key_state, counts, dropped_entity_ids, data, strong, slots, pc,
           target, loaded >>
threadVars == << pc, target, loaded >>

HandlesOf(e) == { h \in Handles : strong[h] = e }
Live == { e \in Entities : key_state[e] = "live" }
Idle(t) == pc[t] = "idle"
Free(h) == strong[h] = NoEntity

\* The RwLock.  A thread between its load and its compare-and-swap is a
\* reader; a thread that took the last handle holds the upgradable lock.  A
\* thread that asked for exclusive access has set the writer bit, which holds
\* back everyone but the readers that are already in.
Readers == { t \in Threads : pc[t] = "cas" }
Upgradable == { t \in Threads : pc[t] \in {"push", "upgrading"} }
WriterBit == \E t \in Threads : pc[t] \in {"upgrading", "collecting"}

\* The bound on handles leaves every pending upgrade a handle to return.
Spare == Cardinality({ h \in Handles : Free(h) }) > Cardinality(Readers)

DroppedIds == { dropped_entity_ids[i] : i \in 1 .. Len(dropped_entity_ids) }

----------------------------------------------------------------------------

Init ==
  /\ key_state = [e \in Entities |-> "vacant"]
  /\ counts = [e \in Entities |-> 0]
  /\ dropped_entity_ids = << >>
  /\ data = [e \in Entities |-> "none"]
  /\ strong = [h \in Handles |-> NoEntity]
  /\ slots = {}
  /\ pc = [t \in Threads |-> "idle"]
  /\ target = [t \in Threads |-> NoEntity]
  /\ loaded = [t \in Threads |-> 0]

\* counts.insert(1.into())
ReservedCount == 1

\* EntityMap::reserve: a fresh key with count 1, whose handle is the Slot.
Reserve(e, h) ==
  /\ Idle(Main) /\ Readers = {} /\ Upgradable = {} /\ ~ WriterBit
  /\ key_state[e] = "vacant" /\ Free(h) /\ Spare
  /\ key_state' = [key_state EXCEPT ![e] = "live"]
  /\ counts' = [counts EXCEPT ![e] = ReservedCount]
  /\ strong' = [strong EXCEPT ![h] = e]
  /\ slots' = slots \cup {h}
  /\ UNCHANGED << dropped_entity_ids, data, threadVars >>

\* EntityMap::insert: the Slot becomes an ordinary handle.
Insert(h) ==
  /\ Idle(Main)
  /\ h \in slots
  /\ slots' = slots \ {h}
  /\ data' = [data EXCEPT ![strong[h]] = "stored"]
  /\ UNCHANGED << key_state, counts, dropped_entity_ids, strong, threadVars >>

\* EntityMap::lease moves the data to the stack.  Leasing what is not in the
\* map panics, which no correct caller does.
Lease(h) ==
  /\ Idle(Main)
  /\ ~ Free(h)
  /\ data[strong[h]] = "stored"
  /\ data' = [data EXCEPT ![strong[h]] = "leased"]
  /\ UNCHANGED << key_state, counts, dropped_entity_ids, strong, slots,
                  threadVars >>

\* EntityMap::end_lease
EndLease(e) ==
  /\ Idle(Main)
  /\ data[e] = "leased"
  /\ data' = [data EXCEPT ![e] = "stored"]
  /\ UNCHANGED << key_state, counts, dropped_entity_ids, strong, slots,
                  threadVars >>

\* Clone for AnyEntity, under the shared lock.
Clone(t, h, new) ==
  /\ Idle(t) /\ ~ WriterBit
  /\ ~ Free(h) /\ Free(new) /\ Spare
  /\ counts' = [counts EXCEPT ![strong[h]] = @ + 1]
  /\ strong' = [strong EXCEPT ![new] = strong[h]]
  /\ UNCHANGED << key_state, dropped_entity_ids, data, slots, threadVars >>

WasSecondToLast(e) == counts[e] = 2

\* prev_count == 1
WasLast(e) == counts[e] = 1

\* Drop for AnyEntity up to the decrement, under the upgradable lock.  The
\* handle a lease borrows outlives the lease, so it is not the one dropped.
DropHandle(t, h) ==
  /\ Idle(t) /\ ~ WriterBit
  /\ Upgradable = {}
  /\ ~ Free(h)
  /\ LET e == strong[h] IN
       /\ data[e] = "leased" => HandlesOf(e) # {h}
       /\ counts' = [counts EXCEPT ![e] = @ - 1]
       /\ strong' = [strong EXCEPT ![h] = NoEntity]
       /\ slots' = slots \ {h}
       /\ IF WasLast(e)
            THEN /\ pc' = [pc EXCEPT ![t] = "push"]
                 /\ target' = [target EXCEPT ![t] = e]
            ELSE UNCHANGED << pc, target >>
  /\ UNCHANGED << key_state, dropped_entity_ids, data, loaded >>

QueueNothing(e) == dropped_entity_ids

\* dropped_entity_ids.push(self.entity_id)
QueueDropped(e) == Append(dropped_entity_ids, e)

\* RwLockUpgradableReadGuard::upgrade sets the writer bit ...
StartUpgrade(t) ==
  /\ pc[t] = "push"
  /\ pc' = [pc EXCEPT ![t] = "upgrading"]
  /\ UNCHANGED << key_state, counts, dropped_entity_ids, data, strong, slots,
                  target, loaded >>

\* ... and returns when the readers have left.
PushDropped(t) ==
  /\ pc[t] = "upgrading"
  /\ Readers = {}
  /\ dropped_entity_ids' = QueueDropped(target[t])
  /\ pc' = [pc EXCEPT ![t] = "idle"]
  /\ UNCHANGED << key_state, counts, data, strong, slots, target, loaded >>

UpgradableAlways(e) == TRUE

\* The loaded value is not zero.
UpgradableNow(e) == counts[e] # 0

\* AnyWeakEntity::upgrade up to the load in atomic_incr_if_not_zero.  A
\* removed key or a zero count gives None and changes nothing.
UpgradeLoad(t, e) ==
  /\ Idle(t) /\ ~ WriterBit
  /\ key_state[e] = "live"
  /\ UpgradableNow(e)
  /\ Spare
  /\ pc' = [pc EXCEPT ![t] = "cas"]
  /\ target' = [target EXCEPT ![t] = e]
  /\ loaded' = [loaded EXCEPT ![t] = counts[e]]
  /\ UNCHANGED << key_state, counts, dropped_entity_ids, data, strong, slots >>

\* The compare-and-swap finds the value it expects.
CasSucceeds(t) == counts[target[t]] = loaded[t]

\* The swap stores loaded + 1 and the new handle is returned.
UpgradeCas(t, h) ==
  /\ pc[t] = "cas"
  /\ Free(h)
  /\ CasSucceeds(t)
  /\ counts' = [counts EXCEPT ![target[t]] = loaded[t] + 1]
  /\ strong' = [strong EXCEPT ![h] = target[t]]
  /\ pc' = [pc EXCEPT ![t] = "idle"]
  /\ UNCHANGED << key_state, dropped_entity_ids, data, slots, target, loaded >>

\* The swap fails: give up when the count is zero by now, else try again with
\* the actual value.  (A spurious failure changes nothing.)
UpgradeRetry(t) ==
  /\ pc[t] = "cas"
  /\ ~ CasSucceeds(t)
  /\ IF counts[target[t]] = 0
       THEN pc' = [pc EXCEPT ![t] = "idle"] /\ UNCHANGED loaded
       ELSE loaded' = [loaded EXCEPT ![t] = counts[target[t]]] /\ UNCHANGED pc
  /\ UNCHANGED << key_state, counts, dropped_entity_ids, data, strong, slots,
                  target >>

\* The data of a dropped id is handed to the caller, unless the id was only
\* reserved.
CollectData(e) ==
  IF e \in DroppedIds /\ data[e] = "stored" THEN "released" ELSE data[e]

\* mem::take(&mut ref_counts.dropped_entity_ids)
TakenQueue == << >>

\* EntityMap::take_dropped asks for the exclusive lock.  (With nothing queued
\* it would do nothing.)
StartCollect ==
  /\ Idle(Main) /\ Upgradable = {} /\ ~ WriterBit
  /\ dropped_entity_ids # << >>
  /\ pc' = [pc EXCEPT ![Main] = "collecting"]
  /\ UNCHANGED << key_state, counts, dropped_entity_ids, data, strong, slots,
                  target, loaded >>

\* EntityMap::take_dropped, under the exclusive lock.
TakeDropped ==
  /\ pc[Main] = "collecting"
  /\ Readers = {}
  /\ key_state' = [e \in Entities |->
                     IF e \in DroppedIds THEN "removed" ELSE key_state[e]]
  /\ data' = [e \in Entities |-> CollectData(e)]
  /\ dropped_entity_ids' = TakenQueue
  /\ pc' = [pc EXCEPT ![Main] = "idle"]
  /\ UNCHANGED << counts, strong, slots, target, loaded >>

\* One turn of the loop in atomic_incr_if_not_zero.
UpgradeRound(t) == UpgradeRetry(t) \/ \E h \in Handles : UpgradeCas(t, h)

----------------------------------------------------------------------------

Next ==
  \/ \E h \in Handles :
       \/ \E e \in Entities : Reserve(e, h)
       \/ Insert(h) \/ Lease(h)
  \/ \E e \in Entities : EndLease(e)
  \/ \E t \in Threads :
       \/ \E h, new \in Handles : Clone(t, h, new)
       \/ \E h \in Handles : DropHandle(t, h)
       \/ StartUpgrade(t) \/ PushDropped(t) \/ UpgradeRound(t)
       \/ \E e \in Entities : UpgradeLoad(t, e)
  \/ StartCollect \/ TakeDropped

Spec == Init /\ [][Next]_vars

\* Threads run on inside their critical sections, and the App keeps flushing:
\* every finished update calls take_dropped, whose request for the lock is
\* granted in the end although drops compete for it (parking_lot is
\* eventually fair).  A compare-and-swap loop does not lose every round.
Fairness ==
  /\ SF_vars(StartCollect) /\ WF_vars(TakeDropped)
  /\ \A t \in Threads : /\ WF_vars(StartUpgrade(t)) /\ WF_vars(PushDropped(t))
                        /\ WF_vars(UpgradeRound(t))
                        /\ SF_vars(\E h \in Handles : UpgradeCas(t, h))

FairSpec == Spec /\ Fairness

----------------------------------------------------------------------------
\* Every variable has the shape the Rust types give it; a key that was never
\* handed out has no count.
TypeOK ==
  /\ key_state \in [Entities -> {"vacant", "live", "removed"}]
  /\ counts \in [Entities -> Nat]
  /\ dropped_entity_ids \in Seq(Entities)
  /\ data \in [Entities -> {"none", "stored", "leased", "released"}]
  /\ strong \in [Handles -> Entities \cup {NoEntity}]
  /\ slots \subseteq { h \in Handles : ~ Free(h) }
  /\ pc \in [Threads -> {"idle", "push", "upgrading", "cas", "collecting"}]
  /\ target \in [Threads -> Entities \cup {NoEntity}]
  /\ loaded \in [Threads -> Nat]
  /\ \A t \in Threads :
       pc[t] \in {"push", "upgrading", "cas"} => target[t] \in Entities

\* The counter of an entity is the number of its strong handles, whatever
\* clones, drops and upgrades race.
RefCountExact == \A e \in Entities : counts[e] = Cardinality(HandlesOf(e))

Pushing == { target[t] : t \in Upgradable }

\* A live key has count zero exactly when its id is queued or the thread that
\* dropped its last handle is about to queue it, and it is queued once: the
\* unwrap in take_dropped never fails and its debug_assert_eq!(count, 0)
\* holds for every id it takes.
QueuedIffUnreferenced ==
  /\ \A e \in Live : counts[e] = 0 <=> e \in DroppedIds \cup Pushing
  /\ DroppedIds \cup Pushing \subseteq Live
  /\ DroppedIds \cap Pushing = {}
  /\ \A i, j \in 1 .. Len(dropped_entity_ids) :
       dropped_entity_ids[i] = dropped_entity_ids[j] => i = j

\* A strong handle keeps its entity: the key is live ("detected over-release
\* of a entity" is never reached) and the data has not been released.  A
\* leased entity has a handle, so take_dropped never meets a lease.
HandleKeepsEntity ==
  /\ \A h \in Handles :
       ~ Free(h) => strong[h] \in Live /\ data[strong[h]] # "released"
  /\ \A e \in Entities : data[e] = "leased" => HandlesOf(e) # {}

\* The life of an entity, as the rest of the App sees it.
Life(e) ==
  CASE key_state[e] = "vacant" -> "vacant"
    [] key_state[e] = "live" /\ counts[e] # 0 -> "referenced"
    [] key_state[e] = "live" /\ counts[e] = 0 -> "unreferenced"
    [] key_state[e] = "removed" -> "collected"

life == [e \in Entities |-> Life(e)]

contract == INSTANCE EntityLife

\* Counters, locks and threads implement the contract: whatever races, an
\* entity is referenced, then unreferenced for good (no upgrade brings it back
\* between the last drop and the collection), then collected once.
ImplementsEntityLife == contract!Spec

\* An inserted entity that nobody references is eventually released.
UnreferencedIsReleased ==
  \A e \in Entities :
    (data[e] = "stored" /\ HandlesOf(e) = {}) ~> (data[e] = "released")
=============================================================================
