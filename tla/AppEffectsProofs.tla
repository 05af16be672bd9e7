-------------------------- MODULE AppEffectsProofs -------------------------
(***************************************************************************)
(* The effect queue of the App, the stack of its nested calls, its use of  *)
(* the observer registry, who is told of a notification, and the flush of  *)
(* shutdown, for every number of entities, observers, nested calls and     *)
(* operations.                                                             *)
(***************************************************************************)
EXTENDS AppEffects, SequenceTheorems, TLAPS

Effects ==
  {Notify(e) : e \in Entities} \cup {UserDefer} \cup {Activation(id) : id \in Nat}

QueuedEffects(q) == {q[i] : i \in 1 .. Len(q)}

\* No effect but a deferred callback of the user is queued twice.
Once(q) == \A i, j \in 1 .. Len(q) : q[i] = q[j] /\ q[i] # UserDefer => i = j

\* Queueing an effect at the end.
LEMMA AppendEffect ==
  ASSUME NEW q \in Seq(Effects), NEW x \in Effects
  PROVE  /\ Append(q, x) \in Seq(Effects)
         /\ QueuedEffects(Append(q, x)) = QueuedEffects(q) \cup {x}
         /\ Once(q) /\ (x = UserDefer \/ x \notin QueuedEffects(q))
              => Once(Append(q, x))
  <1>1. /\ Append(q, x) \in Seq(Effects) /\ Len(q) \in Nat
        /\ Len(Append(q, x)) = Len(q) + 1
        /\ Append(q, x)[Len(q) + 1] = x
        /\ \A i \in 1 .. Len(q) : Append(q, x)[i] = q[i]
    OBVIOUS
  <1> DEFINE r == Append(q, x)
  <1> HIDE DEF r
  <1>2. QueuedEffects(r) = QueuedEffects(q) \cup {x}
    BY <1>1 DEF QueuedEffects, r
  <1>3. ASSUME Once(q), x = UserDefer \/ x \notin QueuedEffects(q)
        PROVE  Once(r)
    BY <1>1, <1>3 DEF QueuedEffects, Once, r
  <1> QED
    BY Zenon, <1>1, <1>2, <1>3 DEF r

\* pop_front: any other effect stays, and what is popped is gone unless it was
\* a deferred callback.
LEMMA PopEffect ==
  ASSUME NEW q \in Seq(Effects), q # << >>, Once(q)
  PROVE  /\ Tail(q) \in Seq(Effects) /\ Once(Tail(q))
         /\ Head(q) \in QueuedEffects(q) /\ Head(q) \in Effects
         /\ \A x : x \in QueuedEffects(Tail(q)) => x \in QueuedEffects(q)
         /\ \A x : x \in QueuedEffects(q) /\ x # Head(q)
              => x \in QueuedEffects(Tail(q))
         /\ Head(q) # UserDefer => Head(q) \notin QueuedEffects(Tail(q))
  <1>1. /\ Tail(q) \in Seq(Effects) /\ Len(q) \in Nat \ {0}
        /\ Head(q) = q[1] /\ Head(q) \in Effects
        /\ Len(Tail(q)) = Len(q) - 1
        /\ \A i \in 1 .. Len(q) - 1 : Tail(q)[i] = q[i + 1]
    OBVIOUS
  <1> DEFINE r == Tail(q)
  <1> HIDE DEF r
  <1>2. Once(r)
    BY <1>1 DEF Once, r
  <1>3. Head(q) \in QueuedEffects(q)
    BY <1>1 DEF QueuedEffects
  <1>4. ASSUME NEW x, x \in QueuedEffects(r) PROVE x \in QueuedEffects(q)
    BY <1>1, <1>4 DEF QueuedEffects, r
  <1>5. ASSUME NEW x, x \in QueuedEffects(q), x # Head(q)
        PROVE  x \in QueuedEffects(r)
    <2>1. PICK i \in 1 .. Len(q) : x = q[i]
      BY Zenon, <1>5 DEF QueuedEffects
    <2>2. i - 1 \in 1 .. Len(r) /\ r[i - 1] = x
      BY <1>1, <1>5, <2>1 DEF r
    <2> QED
      BY Zenon, <2>2 DEF QueuedEffects
  <1>6. ASSUME Head(q) # UserDefer, Head(q) \in QueuedEffects(r) PROVE FALSE
    <2>1. PICK i \in 1 .. Len(r) : Head(q) = r[i]
      BY Zenon, <1>6 DEF QueuedEffects
    <2>2. q[i + 1] = q[1] /\ i + 1 \in 1 .. Len(q) /\ 1 \in 1 .. Len(q)
      BY <1>1, <2>1 DEF r
    <2> QED
      BY <1>1, <1>6, <2>1, <2>2 DEF Once
  <1> QED
    BY Zenon, <1>1, <1>2, <1>3, <1>4, <1>5, <1>6 DEF r

----------------------------------------------------------------------------
\* What a step of the App does to the observer registry, as far as the queue of
\* effects is concerned.
RegistryStays == UNCHANGED << next_subscriber_id, active >>

\* The inductive invariant of the queue: the set of pending notifications and
\* the activations still due are read off it.
QueueInv ==
  /\ pending_effects \in Seq(Effects) /\ Once(pending_effects)
  /\ next_subscriber_id \in Nat
  /\ \A id \in active : id \in Nat /\ id < next_subscriber_id
  /\ pending_notifications \subseteq Entities
  /\ \A e \in Entities :
       e \in pending_notifications <=> Notify(e) \in QueuedEffects(pending_effects)
  /\ \A id \in Nat :
       Activation(id) \in QueuedEffects(pending_effects)
         <=> id < next_subscriber_id /\ id \notin active

\* Effects of different kinds differ, and so do effects of different targets.
LEMMA EffectsDiffer ==
  /\ \A e : Notify(e) # UserDefer
  /\ \A id : Activation(id) # UserDefer
  /\ \A e, id : Notify(e) # Activation(id)
  /\ \A e, f : Notify(e) = Notify(f) => e = f
  /\ \A id, jd : Activation(id) = Activation(jd) => id = jd
  BY Zenon DEF Notify, Activation, UserDefer

\* App::notify queues a notification unless one is queued.
LEMMA NotifyStep ==
  ASSUME QueueInv, NEW e \in Entities, NotifyEntity(e) PROVE QueueInv'
  <1>1. PushNotify(e) /\ RegistryStays
    BY Zenon DEF NotifyEntity, obsVars, RegistryStays
  <1>2. CASE e \in pending_notifications
    <2>1. UNCHANGED << pending_effects, pending_notifications >>
      BY Zenon, <1>1, <1>2 DEF PushNotify
    <2> QED
      BY Zenon, <1>1, <2>1 DEF QueueInv, RegistryStays
  <1>3. CASE e \notin pending_notifications
    <2>1. /\ pending_effects' = Append(pending_effects, Notify(e))
          /\ pending_notifications' = pending_notifications \cup {e}
      BY Zenon, <1>1, <1>3 DEF PushNotify
    <2>2. Notify(e) \in Effects
      BY Zenon DEF Effects
    <2>3. /\ pending_effects' \in Seq(Effects) /\ Once(pending_effects')
          /\ QueuedEffects(pending_effects')
               = QueuedEffects(pending_effects) \cup {Notify(e)}
      BY Zenon, <1>3, <2>1, <2>2, AppendEffect DEF QueueInv
    <2> QED
      BY Zenon, <1>1, <2>1, <2>3, EffectsDiffer DEF QueueInv, RegistryStays
  <1> QED
    BY Zenon, <1>2, <1>3

\* new_observer queues the activation of the id that insert hands out.
LEMMA ObserveStep ==
  ASSUME QueueInv, NEW e \in Entities, Observe(e) PROVE QueueInv'
  <1> DEFINE x == Activation(next_subscriber_id)
  <1>1. /\ pending_effects' = Append(pending_effects, x)
        /\ next_subscriber_id' = next_subscriber_id + 1 /\ active' = active
        /\ pending_notifications' = pending_notifications
    BY Zenon DEF Observe, observers!Insert
  <1>2. x \in Effects /\ x \notin QueuedEffects(pending_effects)
    BY DEF Effects, QueueInv
  <1>3. /\ pending_effects' \in Seq(Effects) /\ Once(pending_effects')
        /\ QueuedEffects(pending_effects') = QueuedEffects(pending_effects) \cup {x}
    <2> HIDE DEF x
    <2> QED
      BY Zenon, <1>1, <1>2, AppendEffect DEF QueueInv
  <1>4. ASSUME NEW f \in Entities
        PROVE  f \in pending_notifications'
                 <=> Notify(f) \in QueuedEffects(pending_effects')
    BY Zenon, <1>1, <1>3, EffectsDiffer DEF QueueInv
  <1>5. ASSUME NEW id \in Nat
        PROVE  Activation(id) \in QueuedEffects(pending_effects')
                 <=> id < next_subscriber_id' /\ id \notin active'
    <2>1. CASE id = next_subscriber_id
      <3>1. id \notin active
        BY <2>1 DEF QueueInv
      <3> QED
        BY <1>1, <1>3, <2>1, <3>1 DEF QueueInv
    <2>2. CASE id # next_subscriber_id
      <3>1. Activation(id) # x
        BY Zenon, <2>2, EffectsDiffer
      <3>2. id < next_subscriber_id' <=> id < next_subscriber_id
        BY <1>1, <2>2 DEF QueueInv
      <3> QED
        BY Zenon, <1>1, <1>3, <3>1, <3>2 DEF QueueInv
    <2> QED
      BY Zenon, <2>1, <2>2
  <1>6. /\ next_subscriber_id' \in Nat /\ pending_notifications' \subseteq Entities
        /\ \A id \in active' : id \in Nat /\ id < next_subscriber_id'
    BY <1>1 DEF QueueInv
  <1> QED
    BY Zenon, <1>3, <1>4, <1>5, <1>6 DEF QueueInv

\* App::defer queues a callback, as often as it is called.
LEMMA DeferStep == ASSUME QueueInv, Defer PROVE QueueInv'
  <1>1. /\ pending_effects' = Append(pending_effects, UserDefer)
        /\ pending_notifications' = pending_notifications /\ RegistryStays
    BY Zenon DEF Defer, obsVars, RegistryStays
  <1>2. UserDefer \in Effects
    BY Zenon DEF Effects
  <1>3. /\ pending_effects' \in Seq(Effects) /\ Once(pending_effects')
        /\ QueuedEffects(pending_effects')
             = QueuedEffects(pending_effects) \cup {UserDefer}
    BY Zenon, <1>1, <1>2, AppendEffect DEF QueueInv
  <1> QED
    BY Zenon, <1>1, <1>3, EffectsDiffer DEF QueueInv, RegistryStays

\* Popping an effect that the step deals with in full keeps the invariant.
LEMMA PopStep ==
  ASSUME QueueInv, pending_effects # << >>,
         pending_effects' = Tail(pending_effects),
         next_subscriber_id' = next_subscriber_id,
         \A e \in Entities :
           e \in pending_notifications' <=>
             e \in pending_notifications /\ Head(pending_effects) # Notify(e),
         pending_notifications' \subseteq Entities,
         \A id : id \in active' <=>
           id \in active
           \/ (id \in Nat /\ Head(pending_effects) = Activation(id))
  PROVE  QueueInv'
  <1> DEFINE h == Head(pending_effects)
             old == QueuedEffects(pending_effects)
             new == QueuedEffects(pending_effects')
  <1>1. /\ pending_effects' \in Seq(Effects) /\ Once(pending_effects')
        /\ h \in old
        /\ \A x : x \in new => x \in old
        /\ \A x : x \in old /\ x # h => x \in new
        /\ h # UserDefer => h \notin new
    BY Zenon, PopEffect DEF QueueInv
  <1> HIDE DEF h, old, new
  <1>2. ASSUME NEW e \in Entities
        PROVE  e \in pending_notifications' <=> Notify(e) \in new
    <2>1. e \in pending_notifications <=> Notify(e) \in old
      BY Zenon DEF QueueInv, old
    <2> QED
      BY Zenon, <1>1, <2>1, EffectsDiffer DEF h
  <1>3. ASSUME NEW id \in Nat
        PROVE  Activation(id) \in new
                 <=> id < next_subscriber_id' /\ id \notin active'
    <2>1. Activation(id) \in old <=> id < next_subscriber_id /\ id \notin active
      BY Zenon DEF QueueInv, old
    <2> QED
      BY Zenon, <1>1, <2>1, EffectsDiffer DEF h
  <1>4. ASSUME NEW id \in active'
        PROVE  id \in Nat /\ id < next_subscriber_id'
    <2>1. CASE id \in active
      BY Zenon, <2>1 DEF QueueInv
    <2>2. CASE id \in Nat /\ h = Activation(id)
      BY Zenon, <1>1, <2>2 DEF QueueInv, old
    <2> QED
      BY Zenon, <2>1, <2>2 DEF h
  <1> QED
    BY Zenon, <1>1, <1>2, <1>3, <1>4 DEF QueueInv, new

\* The three kinds of effects are applied.
LEMMA ApplyStep ==
  ASSUME QueueInv,
         \/ \E e \in Entities : ApplyNotify(e)
         \/ \E id \in observers!SubscriberIds : ApplyActivation(id)
         \/ ApplyDefer
  PROVE  QueueInv'
  <1>1. ASSUME NEW e \in Entities, ApplyNotify(e) PROVE QueueInv'
    <2>1. RegistryStays
      BY Zenon, <1>1 DEF ApplyNotify, observers!RetainBegin, obsVars, RegistryStays
    <2> QED
      BY Zenon, <1>1, <2>1, PopStep, EffectsDiffer
      DEF ApplyNotify, EffectsAfterPop, ClearPending, RegistryStays, QueueInv
  <1>2. ASSUME NEW id \in observers!SubscriberIds, ApplyActivation(id)
        PROVE  QueueInv'
    <2>1. /\ next_subscriber_id' = next_subscriber_id
          /\ active' = active \cup {id}
      BY Zenon, <1>2 DEF ApplyActivation, observers!Activate
    <2>2. id \in Nat
      BY AppAssumption DEF observers!SubscriberIds
    <2>3. \A jd : Head(pending_effects) = Activation(jd) <=> jd = id
      BY Zenon, <1>2, EffectsDiffer DEF ApplyActivation
    <2>4. \A jd : jd \in active' <=>
            jd \in active
            \/ (jd \in Nat /\ Head(pending_effects) = Activation(jd))
      BY Zenon, <2>1, <2>2, <2>3
    <2> QED
      BY Zenon, <1>2, <2>1, <2>4, PopStep, EffectsDiffer
      DEF ApplyActivation, EffectsAfterPop, QueueInv
  <1>3. ASSUME ApplyDefer PROVE QueueInv'
    <2>1. RegistryStays
      BY Zenon, <1>3 DEF ApplyDefer, obsVars, RegistryStays
    <2> QED
      BY Zenon, <1>3, <2>1, PopStep, EffectsDiffer
      DEF ApplyDefer, EffectsAfterPop, RegistryStays, QueueInv
  <1> QED
    BY Zenon, <1>1, <1>2, <1>3

\* Every step of the App keeps the queue and what is read off it together.
LEMMA NextQueueInv == QueueInv /\ [Next]_vars => QueueInv'
  <1> SUFFICES ASSUME QueueInv, [Next]_vars PROVE QueueInv'
    BY Zenon
  <1>1. ASSUME UNCHANGED queueVars, RegistryStays PROVE QueueInv'
    BY Zenon, <1>1 DEF QueueInv, queueVars, RegistryStays
  <1>2. CASE StartUpdate \/ BareCall \/ (\E e \in Entities : DropLastHandle(e))
             \/ FinishUpdate \/ BareReturn \/ CallbackReturn
             \/ QuitObserversReturn \/ TakeDropped \/ ReleaseDone \/ FlushEnd
             \/ Shutdown \/ UNCHANGED vars
    BY Zenon, <1>1, <1>2
    DEF StartUpdate, BareCall, DropLastHandle, FinishUpdate, BareReturn,
        CallbackReturn, QuitObserversReturn, TakeDropped, ReleaseDone, FlushEnd,
        Shutdown, vars, obsVars, RegistryStays
  <1>3. ASSUME NEW id \in observers!SubscriberIds, DropSubscription(id)
        PROVE  QueueInv'
    BY Zenon, <1>1, <1>3 DEF DropSubscription, observers!DropSubscription, RegistryStays
  <1>4. ASSUME NEW keep \in BOOLEAN, ObserverReturn(keep) PROVE QueueInv'
    BY Zenon, <1>1, <1>4 DEF ObserverReturn, observers!RetainReturn, RegistryStays
  <1>5. ASSUME NEW e \in Entities, ReleaseEntity(e) PROVE QueueInv'
    BY Zenon, <1>1, <1>5
    DEF ReleaseEntity, ForgetObservers, observers!Remove, obsVars, RegistryStays
  <1>6. ASSUME NEW id \in observers!SubscriberIds, PassVisit(id) PROVE QueueInv'
    BY Zenon, <1>1, <1>6 DEF PassVisit, observers!RetainVisit, RegistryStays
  <1>7. ASSUME PassCall PROVE QueueInv'
    BY Zenon, <1>1, <1>7 DEF PassCall, observers!RetainReturn, obsVars, RegistryStays
  <1>8. ASSUME PassEnd PROVE QueueInv'
    BY Zenon, <1>1, <1>8 DEF PassEnd, observers!RetainEnd, RegistryStays
  <1> QED
    BY <1>2, <1>3, <1>4, <1>5, <1>6, <1>7, <1>8, NotifyStep, ObserveStep,
       DeferStep, ApplyStep
    DEF Next, UserStep, AppStep

\* At first the queue is empty and nobody observes.
LEMMA InitQueueInv == Init => QueueInv
  BY DEF Init, observers!Init, QueueInv, Once, QueuedEffects

\* For any number of entities, observers and operations, and however calls
\* nest, the set that push_effect consults is the set of queued notifications,
\* so no notification is swallowed or queued twice.
THEOREM DeduplicationIsExact == Spec => []PendingMatchesQueue
  <1>1. QueueInv => PendingMatchesQueue
    <2> SUFFICES ASSUME QueueInv PROVE PendingMatchesQueue
      BY Zenon
    <2>1. pending_notifications = QueuedNotifications
      BY Zenon DEF QueueInv, QueuedNotifications, QueuedEffects, Queue
    <2>2. \A i, j \in Queue :
            /\ pending_effects[i] = pending_effects[j]
            /\ pending_effects[i][1] = "notify"
            => i = j
      <3>1. UserDefer[1] # "notify"
        BY Zenon DEF UserDefer
      <3> QED
        BY Zenon, <3>1 DEF QueueInv, Once, Queue
    <2> QED
      BY Zenon, <2>1, <2>2 DEF PendingMatchesQueue
  <1> QED
    BY <1>1, InitQueueInv, NextQueueInv, PTL DEF Spec

\* For any number of them, an observer that is not active yet has its
\* activation queued once, and an active one has none: the flush activates
\* each registered observer exactly once.
THEOREM ActivationsAreQueued == Spec => []InactiveWillActivate
  <1>1. QueueInv => InactiveWillActivate
    <2> DEFINE At(id) == {i \in Queue : pending_effects[i] = Activation(id)}
    <2> SUFFICES ASSUME QueueInv, NEW id \in observers!Issued
                 PROVE  IF id \in active THEN At(id) = {} ELSE \E i \in Queue : At(id) = {i}
      BY Zenon DEF InactiveWillActivate
    <2>1. id \in Nat /\ id < next_subscriber_id
      BY AppAssumption DEF observers!Issued, observers!SubscriberIds
    <2>2. CASE id \in active
      <3>1. At(id) = {}
        BY Zenon, <2>1, <2>2 DEF QueueInv, QueuedEffects, Queue
      <3> QED
        BY Zenon, <2>2, <3>1
    <2>3. CASE id \notin active
      <3>1. Activation(id) \in QueuedEffects(pending_effects)
        BY Zenon, <2>1, <2>3 DEF QueueInv
      <3>2. PICK i \in Queue : pending_effects[i] = Activation(id)
        BY Zenon, <3>1 DEF QueuedEffects, Queue
      <3>3. At(id) = {i}
        BY <3>2, EffectsDiffer DEF QueueInv, Once, Queue
      <3> QED
        BY Zenon, <2>3, <3>2, <3>3
    <2> QED
      BY Zenon, <2>2, <2>3
  <1> QED
    BY <1>1, InitQueueInv, NextQueueInv, PTL DEF Spec

----------------------------------------------------------------------------
Kinds == {"update", "bare", "callback", "observer", "quit", "flush", "shutdown"}

\* A record of the call stack.
Rec == [kind : Kinds, pc : {"user", "release", "pop", "pass"},
        batch : SUBSET Entities]

\* Once shutdown is called, its own record stays at the bottom of the stack
\* until its flush has found the queue empty.
ShutdownBelow ==
  /\ stack \in Seq(Rec)
  /\ shut => \/ stack = << >> /\ pending_effects = << >>
             \/ stack # << >> /\ stack[1].kind \in {"quit", "shutdown"}

\* Who may return from the bottom of the stack after shutdown was called.
LEMMA NextShutdownBelow ==
  ASSUME ShutdownBelow, [Next]_vars PROVE ShutdownBelow'
  <1>a. stack \in Seq(Rec)
    BY Zenon DEF ShutdownBelow
  <1>1. \A kind \in Kinds : Call(kind) \in Rec /\ Flush(kind) \in Rec
    BY Zenon DEF Call, Flush, Rec
  <1>0. /\ stack \in Seq(Rec) /\ Len(stack) \in Nat
        /\ stack # << >> => Here \in Rec /\ Len(stack) >= 1
    BY <1>a DEF Here
  <1>2. ASSUME shut' = shut, stack' = stack,
               pending_effects' = pending_effects \/ stack # << >>
        PROVE  ShutdownBelow'
    BY Zenon, <1>2 DEF ShutdownBelow
  <1>3. ASSUME shut' = shut, stack # << >>,
               NEW r \in Rec, stack' = [stack EXCEPT ![Len(stack)] = r],
               r.kind = Here.kind \/ Here.kind \notin {"quit", "shutdown"}
               \/ r.kind = "shutdown"
        PROVE  ShutdownBelow'
    <2>1. stack' \in Seq(Rec) /\ stack' # << >>
      BY <1>0, <1>3
    <2>2. stack'[1] = IF Len(stack) = 1 THEN r ELSE stack[1]
      BY <1>0, <1>3
    <2>3. Len(stack) = 1 => Here = stack[1]
      BY Zenon DEF Here
    <2> QED
      BY Zenon, <1>3, <2>1, <2>2, <2>3 DEF ShutdownBelow, Rec
  <1>4. ASSUME shut' = shut, stack # << >>, NEW r \in Rec,
               NEW top \in Rec, top.kind = Here.kind,
               stack' = Append([stack EXCEPT ![Len(stack)] = top], r)
        PROVE  ShutdownBelow'
    <2> DEFINE mid == [stack EXCEPT ![Len(stack)] = top]
    <2>1. mid \in Seq(Rec) /\ Len(mid) = Len(stack)
          /\ mid[1] = IF Len(stack) = 1 THEN top ELSE stack[1]
      BY <1>0, <1>4
    <2> HIDE DEF mid
    <2>2. stack' \in Seq(Rec) /\ stack' # << >> /\ stack'[1] = mid[1]
      BY <1>0, <1>4, <2>1 DEF mid
    <2>3. Len(stack) = 1 => Here = stack[1]
      BY Zenon DEF Here
    <2> QED
      BY Zenon, <1>4, <2>1, <2>2, <2>3 DEF ShutdownBelow, Rec
  <1>5. ASSUME NEW r \in Rec, stack' = Append(stack, r),
               \/ shut' = shut /\ (~ shut \/ stack # << >>)
               \/ stack = << >> /\ r.kind = "quit"
        PROVE  ShutdownBelow'
    <2>1. stack' \in Seq(Rec) /\ stack' # << >>
          /\ stack'[1] = IF stack = << >> THEN r ELSE stack[1]
      BY <1>0, <1>5
    <2> QED
      BY <1>5, <2>1 DEF ShutdownBelow, Rec
  <1>6. ASSUME shut' = shut, stack # << >>, Return,
               Here.kind \notin {"quit", "shutdown"}
               \/ pending_effects' = << >>
        PROVE  ShutdownBelow'
    <2>1. stack' \in Seq(Rec)
          /\ (IF Len(stack) = 1 THEN stack' = << >>
                                ELSE stack' # << >> /\ stack'[1] = stack[1])
      <3> DEFINE n == Len(stack) - 1
      <3>1. /\ n \in 0 .. Len(stack) /\ 1 \in 1 .. Len(stack) + 1
            /\ stack' = SubSeq(stack, 1, n)
        BY <1>0, <1>6 DEF Return
      <3>2. /\ stack' \in Seq(Rec) /\ Len(stack') = n
            /\ n >= 1 => stack'[1] = stack[1]
        <4>1. \A i \in 1 .. n : stack[i] \in Rec
          BY <1>0, <3>1
        <4> HIDE DEF n
        <4> QED
          BY <3>1, <4>1, SubSeqProperties
      <3> QED
        <4>1. CASE Len(stack) = 1
          BY <3>2, <4>1, EmptySeq
        <4>2. CASE Len(stack) # 1
          <5>0. Len(stack) \in Nat /\ Len(stack) >= 1
            BY Zenon, <1>0, <1>6
          <5>1. n >= 1
            <6>1. \A l \in Nat : l >= 1 /\ l # 1 => l - 1 >= 1
              OBVIOUS
            <6> QED
              BY Zenon, <4>2, <5>0, <6>1
          <5>2. stack' # << >>
            BY <3>2, <5>1
          <5> QED
            BY Zenon, <3>2, <4>2, <5>1, <5>2
        <4> QED
          BY Zenon, <4>1, <4>2
    <2>2. Len(stack) = 1 => Here = stack[1]
      BY Zenon DEF Here
    <2> QED
      BY Zenon, <1>6, <2>1, <2>2 DEF ShutdownBelow, Rec
  <1>7. CASE StartUpdate \/ BareCall \/ Shutdown
    <2>1. CASE StartUpdate
      <3>1. /\ stack' = Append(stack, Call("update")) /\ shut' = shut
            /\ ~ shut \/ stack # << >>
        BY Zenon, <2>1 DEF StartUpdate, UserCode, Push
      <3>2. Call("update") \in Rec
        BY Zenon, <1>1 DEF Kinds
      <3> QED
        BY Zenon, <1>5, <3>1, <3>2
    <2>2. CASE BareCall
      <3>1. stack' = Append(stack, Call("bare")) /\ shut' = shut /\ ~ shut
        BY Zenon, <2>2 DEF BareCall, Push
      <3>2. Call("bare") \in Rec
        BY Zenon, <1>1 DEF Kinds
      <3> QED
        BY Zenon, <1>5, <3>1, <3>2
    <2>3. CASE Shutdown
      <3>1. Call("quit").kind = "quit"
        BY Zenon DEF Call
      <3> QED
        BY Zenon, <1>1, <1>5, <2>3, <3>1 DEF Shutdown, Quiescent, Push, Kinds
    <2> QED
      BY Zenon, <1>7, <2>1, <2>2, <2>3
  <1>8. CASE Defer \/ (\E e \in Entities : NotifyEntity(e) \/ Observe(e))
    BY Zenon, <1>2, <1>8 DEF Defer, NotifyEntity, Observe, UserCode
  <1>9. CASE (\E e \in Entities : DropLastHandle(e))
             \/ (\E id \in observers!SubscriberIds :
                   DropSubscription(id) \/ PassVisit(id))
             \/ UNCHANGED vars
    BY Zenon, <1>2, <1>9 DEF DropLastHandle, DropSubscription, PassVisit, queueVars, vars
  <1>10. CASE FinishUpdate
    <2>1. CASE MustFlush
      BY Zenon, <1>1, <1>3, <1>10, <2>1 DEF FinishUpdate, UserCode, Goto, Kinds
    <2>2. CASE ~ MustFlush
      BY Zenon, <1>6, <1>10, <2>2 DEF FinishUpdate, UserCode
    <2> QED
      BY Zenon, <2>1, <2>2
  <1>11. CASE BareReturn \/ CallbackReturn
              \/ (\E keep \in BOOLEAN : ObserverReturn(keep))
    BY Zenon, <1>6, <1>11 DEF BareReturn, CallbackReturn, ObserverReturn, UserCode
  <1>12. CASE QuitObserversReturn
    BY Zenon, <1>1, <1>3, <1>12
    DEF QuitObserversReturn, UserCode, Goto, Flush, Kinds
  <1>13. ASSUME NEW r, Goto(r), shut' = shut, stack # << >>,
                \/ \E b \in SUBSET Entities : r = [Here EXCEPT !.batch = b]
                \/ \E l \in {"release", "pop", "pass"} : r = [Here EXCEPT !.pc = l]
         PROVE  ShutdownBelow'
    <2>1. r \in Rec /\ r.kind = Here.kind
      BY Zenon, <1>0, <1>13 DEF Rec
    <2> QED
      BY Zenon, <1>3, <1>13, <2>1 DEF Goto
  <1>14. CASE TakeDropped
    BY Zenon, <1>13, <1>14 DEF TakeDropped, FlushAt
  <1>15. CASE ReleaseDone \/ PassEnd
    BY Zenon, <1>13, <1>15 DEF ReleaseDone, PassEnd, FlushAt
  <1>16. ASSUME NEW e \in Entities, ApplyNotify(e) PROVE ShutdownBelow'
    BY Zenon, <1>13, <1>16 DEF ApplyNotify, FlushAt
  <1>17. ASSUME NEW id \in observers!SubscriberIds, ApplyActivation(id)
         PROVE  ShutdownBelow'
    BY Zenon, <1>13, <1>17 DEF ApplyActivation, FlushAt
  <1>18. ASSUME NEW e \in Entities, ReleaseEntity(e) PROVE ShutdownBelow'
    <2> DEFINE top == [Here EXCEPT !.batch = @ \ {e}]
    <2>1. top \in Rec /\ top.kind = Here.kind
      BY Zenon, <1>0, <1>18 DEF Rec, ReleaseEntity, FlushAt
    <2>2. [stack EXCEPT ![Len(stack)].batch = @ \ {e}]
            = [stack EXCEPT ![Len(stack)] = top]
      BY Zenon DEF Here
    <2> HIDE DEF top
    <2> QED
      BY Zenon, <1>1, <1>4, <1>18, <2>1, <2>2 DEF ReleaseEntity, FlushAt, Kinds
  <1>19. CASE ApplyDefer
    <2> DEFINE top == [Here EXCEPT !.pc = "release"]
    <2>1. top \in Rec /\ top.kind = Here.kind
      BY Zenon, <1>0, <1>19 DEF Rec, ApplyDefer, FlushAt
    <2>2. [stack EXCEPT ![Len(stack)].pc = "release"]
            = [stack EXCEPT ![Len(stack)] = top]
      BY Zenon DEF Here
    <2> HIDE DEF top
    <2> QED
      BY Zenon, <1>1, <1>4, <1>19, <2>1, <2>2 DEF ApplyDefer, FlushAt, Kinds
  <1>20. CASE PassCall
    <2>1. CASE stack' = stack
      BY Zenon, <1>2, <1>20, <2>1 DEF PassCall, queueVars
    <2>2. CASE Push(Call("observer"))
      <3>1. /\ stack' = Append(stack, Call("observer")) /\ shut' = shut
            /\ stack # << >>
        BY Zenon, <1>20, <2>2 DEF PassCall, FlushAt, Push
      <3>2. Call("observer") \in Rec
        BY Zenon, <1>1 DEF Kinds
      <3> QED
        BY Zenon, <1>5, <3>1, <3>2
    <2> QED
      BY Zenon, <1>20, <2>1, <2>2 DEF PassCall
  <1>21. CASE FlushEnd
    BY Zenon, <1>6, <1>21 DEF FlushEnd, FlushAt, queueVars
  <1> QED
    BY Zenon, <1>7, <1>8, <1>9, <1>10, <1>11, <1>12, <1>14, <1>15, <1>16, <1>17, <1>18,
       <1>19, <1>20, <1>21
    DEF Next, UserStep, AppStep

\* However deep the callbacks of shutdown nest and whatever they queue, no
\* effect is left when it returns.
THEOREM ShutdownDrains == Spec => []ShutdownFlushesAll
  <1>1. Init => ShutdownBelow
    BY DEF Init, ShutdownBelow
  <1>2. ShutdownBelow /\ [Next]_vars => ShutdownBelow'
    BY Zenon, NextShutdownBelow
  <1>3. ShutdownBelow => ShutdownFlushesAll
    BY Zenon DEF ShutdownBelow, ShutdownFlushesAll, Quiescent
  <1> QED
    BY <1>1, <1>2, <1>3, PTL DEF Spec

----------------------------------------------------------------------------
\* A step of the App is a step of its observer registry, or leaves it alone.
LEMMA RegistryStep == [Next]_vars => [observers!Next]_obsVars
  <1> SUFFICES ASSUME [Next]_vars PROVE observers!Next \/ UNCHANGED obsVars
    BY Zenon
  <1>1. CASE StartUpdate \/ BareCall \/ Defer
             \/ (\E e \in Entities : NotifyEntity(e) \/ DropLastHandle(e))
             \/ FinishUpdate \/ BareReturn \/ CallbackReturn
             \/ QuitObserversReturn \/ TakeDropped \/ ReleaseDone \/ ApplyDefer
             \/ FlushEnd \/ Shutdown \/ UNCHANGED vars
    BY Zenon, <1>1
    DEF StartUpdate, BareCall, Defer, NotifyEntity, DropLastHandle, FinishUpdate,
        BareReturn, CallbackReturn, QuitObserversReturn, TakeDropped,
        ReleaseDone, ApplyDefer, FlushEnd, Shutdown, vars
  <1>2. CASE \E e \in Entities : Observe(e) \/ ReleaseEntity(e) \/ ApplyNotify(e)
    BY Zenon, <1>2 DEF Observe, ReleaseEntity, ForgetObservers, ApplyNotify,
                observers!Next
  <1>3. CASE \E id \in observers!SubscriberIds :
               DropSubscription(id) \/ ApplyActivation(id) \/ PassVisit(id)
    BY Zenon, <1>3 DEF DropSubscription, ApplyActivation, PassVisit, observers!Next
  <1>4. CASE \E keep \in BOOLEAN : ObserverReturn(keep)
    BY Zenon, <1>4 DEF ObserverReturn, observers!Next
  <1>5. CASE PassCall
    BY Zenon, <1>5 DEF PassCall, observers!Next
  <1>6. CASE PassEnd
    BY Zenon, <1>6 DEF PassEnd, observers!Next
  <1> QED
    BY Zenon, <1>1, <1>2, <1>3, <1>4, <1>5, <1>6 DEF Next, UserStep, AppStep

\* The App works on App::observers only through the operations of
\* SubscriberSet, so what holds of every use of the registry holds in the App,
\* the re-entered flush of shutdown included.
THEOREM RegistryIsRefined == Spec => observers!Spec
  <1>1. Init => observers!Init
    BY Zenon DEF Init
  <1>2. [Next]_vars => [observers!Next]_observers!vars
    BY Zenon, RegistryStep DEF obsVars, observers!vars
  <1> QED
    BY <1>1, <1>2, PTL DEF Spec, observers!Spec

\* What the App may assume of its registry in every state.
RegistryInv ==
  /\ observers!TypeOK /\ observers!NoStuckEmitter /\ observers!OnePlace
  /\ observers!Stored \subseteq observers!Issued

----------------------------------------------------------------------------
\* The call stack outside shutdown: only the flush of an update runs the App's
\* own code, at most one is there, flushing_effects tells whether, and a pass
\* runs when it is at its pass.
Shape(s, flag, pass) ==
  /\ \A i \in 1 .. Len(s) :
       s[i].kind # "quit" /\ (s[i].kind = "flush" <=> s[i].pc # "user")
  /\ \A i, j \in 1 .. Len(s) : s[i].kind = "flush" /\ s[j].kind = "flush" => i = j
  /\ flag <=> \E i \in 1 .. Len(s) : s[i].kind = "flush"
  /\ pass <=> \E i \in 1 .. Len(s) : s[i].pc = "pass"

\* User code is called.
LEMMA PushShape ==
  ASSUME NEW s \in Seq(Rec), NEW flag, NEW pass, Shape(s, flag, pass),
         NEW r \in Rec, r.pc = "user", r.kind \notin {"flush", "quit"}
  PROVE  Shape(Append(s, r), flag, pass)
  <1>1. /\ Len(s) \in Nat /\ Len(Append(s, r)) = Len(s) + 1
        /\ Append(s, r)[Len(s) + 1] = r
        /\ \A i \in 1 .. Len(s) : Append(s, r)[i] = s[i]
    OBVIOUS
  <1> DEFINE t == Append(s, r)
  <1> HIDE DEF t
  <1>2. \A i \in 1 .. Len(t) : (i \in 1 .. Len(s) /\ t[i] = s[i]) \/ t[i] = r
    BY <1>1 DEF t
  <1>3. \A i \in 1 .. Len(s) : i \in 1 .. Len(t) /\ t[i] = s[i]
    BY <1>1 DEF t
  <1> QED
    BY <1>2, <1>3 DEF Shape, t

\* The flush on top goes to its next step.
LEMMA TopShape ==
  ASSUME NEW s \in Seq(Rec), NEW flag, NEW pass, Shape(s, flag, pass), s # << >>,
         s[Len(s)].kind = "flush", NEW r \in Rec, r.kind = "flush", r.pc # "user"
  PROVE  Shape([s EXCEPT ![Len(s)] = r], flag, r.pc = "pass")
  <1> DEFINE t == [s EXCEPT ![Len(s)] = r]
  <1>1. /\ Len(s) \in 1 .. Len(s) /\ Len(t) = Len(s) /\ t[Len(s)] = r
        /\ \A i \in 1 .. Len(s) : i # Len(s) => t[i] = s[i]
    OBVIOUS
  <1> HIDE DEF t
  <1>2. \A i \in 1 .. Len(s) : t[i].kind = s[i].kind
    BY Zenon, <1>1
  <1>3. \A i \in 1 .. Len(s) : i # Len(s) => s[i].pc = "user"
    BY Zenon, <1>1 DEF Shape
  <1> QED
    <2>1. \A i \in 1 .. Len(s) :
            t[i].kind # "quit" /\ (t[i].kind = "flush" <=> t[i].pc # "user")
      BY <1>1, <1>2 DEF Shape
    <2>2. r.pc = "pass" <=> \E i \in 1 .. Len(s) : t[i].pc = "pass"
      BY Zenon, <1>1, <1>3
    <2> QED
      BY Zenon, <1>1, <1>2, <2>1, <2>2 DEF Shape, t

\* The update on top starts the flush: nobody else is flushing.
LEMMA StartShape ==
  ASSUME NEW s \in Seq(Rec), NEW pass, Shape(s, FALSE, pass), s # << >>,
         NEW r \in Rec, r.kind = "flush", r.pc = "release"
  PROVE  Shape([s EXCEPT ![Len(s)] = r], TRUE, pass)
  <1> DEFINE t == [s EXCEPT ![Len(s)] = r]
  <1>1. /\ Len(s) \in 1 .. Len(s) /\ Len(t) = Len(s) /\ t[Len(s)] = r
        /\ \A i \in 1 .. Len(s) : i # Len(s) => t[i] = s[i]
    OBVIOUS
  <1> HIDE DEF t
  <1>2. \A i \in 1 .. Len(s) : s[i].kind # "flush" /\ s[i].pc = "user"
    BY Zenon DEF Shape
  <1>3. \A i \in 1 .. Len(s) :
          /\ t[i].kind # "quit" /\ (t[i].kind = "flush" <=> t[i].pc # "user")
          /\ t[i].kind = "flush" => i = Len(s)
          /\ t[i].pc # "pass"
    BY <1>1, <1>2 DEF Shape
  <1>4. ~ pass
    BY Zenon, <1>2 DEF Shape
  <1>5. \E i \in 1 .. Len(s) : t[i].kind = "flush"
    BY Zenon, <1>1
  <1>6. \A i, j \in 1 .. Len(t) : t[i].kind = "flush" /\ t[j].kind = "flush" => i = j
    BY <1>1, <1>3
  <1>7. pass <=> \E i \in 1 .. Len(t) : t[i].pc = "pass"
    BY Zenon, <1>1, <1>3, <1>4
  <1>8. Shape(t, TRUE, pass)
    BY Zenon, <1>1, <1>3, <1>5, <1>6, <1>7 DEF Shape
  <1> QED
    BY Zenon, <1>8 DEF t

\* The top of the stack returns.
LEMMA PopShape ==
  ASSUME NEW s \in Seq(Rec), NEW flag, NEW pass, Shape(s, flag, pass), s # << >>
  PROVE  /\ s[Len(s)].pc = "user" => Shape(SubSeq(s, 1, Len(s) - 1), flag, pass)
         /\ s[Len(s)].pc # "user" => Shape(SubSeq(s, 1, Len(s) - 1), FALSE, FALSE)
  <1> DEFINE n == Len(s) - 1
             t == SubSeq(s, 1, n)
  <1>1. n \in Nat /\ Len(s) = n + 1
    OBVIOUS
  <1>2. Len(t) = n /\ \A i \in 1 .. n : t[i] = s[i]
    <2>1. 1 \in 1 .. Len(s) + 1 /\ n \in 0 .. Len(s)
      BY <1>1
    <2>2. \A i \in 1 .. n : s[i] \in Rec
      BY <1>1
    <2> HIDE DEF n
    <2> QED
      BY <1>1, <2>1, <2>2, SubSeqProperties
  <1> HIDE DEF n, t
  <1>3. \A i \in 1 .. Len(s) : i \in 1 .. n \/ i = Len(s)
    BY <1>1
  <1>4. \A i \in 1 .. n : i \in 1 .. Len(s) /\ i # Len(s) /\ Len(s) \in 1 .. Len(s)
    BY <1>1
  <1>5. Len(s) \in 1 .. Len(s)
    BY <1>1
  <1>6. CASE s[Len(s)].pc = "user"
    <2>1. s[Len(s)].kind # "flush"
      BY Zenon, <1>5, <1>6 DEF Shape
    <2>2. /\ \A i \in 1 .. n : s[i].kind # "quit" /\ (s[i].kind = "flush" <=> s[i].pc # "user")
          /\ \A i, j \in 1 .. n : s[i].kind = "flush" /\ s[j].kind = "flush" => i = j
      BY Zenon, <1>4 DEF Shape
    <2>3. flag <=> \E i \in 1 .. n : s[i].kind = "flush"
      BY Zenon, <1>3, <1>4, <2>1 DEF Shape
    <2>4. pass <=> \E i \in 1 .. n : s[i].pc = "pass"
      <3>1. s[Len(s)].pc # "pass"
        BY Zenon, <1>6
      <3> QED
        BY Zenon, <1>3, <1>4, <3>1 DEF Shape
    <2>5. Shape(t, flag, pass)
      <3>1. /\ \A i \in 1 .. n : t[i].kind # "quit" /\ (t[i].kind = "flush" <=> t[i].pc # "user")
            /\ \A i, j \in 1 .. n : t[i].kind = "flush" /\ t[j].kind = "flush" => i = j
        BY ZenonT(60), <1>2, <2>2
      <3>2. flag <=> \E i \in 1 .. n : t[i].kind = "flush"
        BY Zenon, <1>2, <2>3
      <3>3. pass <=> \E i \in 1 .. n : t[i].pc = "pass"
        BY Zenon, <1>2, <2>4
      <3> QED
        BY Zenon, <1>2, <3>1, <3>2, <3>3 DEF Shape
    <2> QED
      BY Zenon, <1>6, <2>5 DEF t, n
  <1>7. CASE s[Len(s)].pc # "user"
    <2>1. s[Len(s)].kind = "flush"
      BY Zenon, <1>5, <1>7 DEF Shape
    <2>2. \A i \in 1 .. n : s[i].kind # "flush" /\ s[i].kind # "quit" /\ s[i].pc = "user"
      BY Zenon, <1>4, <2>1 DEF Shape
    <2>3. Shape(t, FALSE, FALSE)
      <3>1. \A i \in 1 .. n : s[i].pc # "pass"
        BY Zenon, <2>2
      <3> QED
        BY ZenonT(60), <1>2, <2>2, <3>1 DEF Shape
    <2> QED
      BY Zenon, <1>7, <2>3 DEF t, n
  <1> QED
    BY Zenon, <1>6, <1>7

\* A flush on top is the flush.
LEMMA FlushOnTop ==
  ASSUME NEW s \in Seq(Rec), NEW flag, NEW pass, Shape(s, flag, pass), s # << >>,
         s[Len(s)].pc # "user"
  PROVE  /\ s[Len(s)].kind = "flush"
         /\ pass <=> s[Len(s)].pc = "pass"
  <1>1. Len(s) \in 1 .. Len(s)
    OBVIOUS
  <1>2. s[Len(s)].kind = "flush"
    BY Zenon, <1>1 DEF Shape
  <1>3. \A i \in 1 .. Len(s) : i # Len(s) => s[i].pc = "user"
    BY Zenon, <1>1, <1>2 DEF Shape
  <1> QED
    BY Zenon, <1>1, <1>2, <1>3 DEF Shape

\* Outside shutdown the stack has that shape, and passes are not nested.
FlushInv ==
  ~ shut => Shape(stack, flushing_effects, frames # << >>) /\ Len(frames) <= 1

\* shutdown is not undone.
LEMMA ShutStays == ASSUME [Next]_vars, ~ shut' PROVE ~ shut /\ ~ Shutdown
  <1>1. ~ Shutdown
    BY Zenon DEF Shutdown
  <1>2. ASSUME UserStep PROVE shut' = shut
    BY Zenon, <1>2 DEF UserStep, StartUpdate, BareCall, Defer, NotifyEntity, Observe,
                DropLastHandle, DropSubscription
  <1>3. ASSUME AppStep PROVE shut' = shut
    BY Zenon, <1>3 DEF AppStep, FinishUpdate, BareReturn, CallbackReturn,
         QuitObserversReturn, ObserverReturn, TakeDropped, ReleaseDone,
         ApplyDefer, ReleaseEntity, ApplyNotify, ApplyActivation, PassVisit,
         PassCall, PassEnd, FlushEnd
  <1> QED
    BY <1>1, <1>2, <1>3 DEF Next, vars

\* A pass that only goes on stays the one pass.
LEMMA PassGoesOn ==
  ASSUME RegistryInv, frames # << >>, NEW f, observers!SetTop(f)
  PROVE  Len(frames') = Len(frames) /\ frames' # << >> /\ observers!Top' = f
  <1>1. frames \in Seq(observers!Frame)
    BY Zenon DEF RegistryInv, observers!TypeOK
  <1>2. Len(frames') = Len(frames) /\ frames' # << >> /\ frames'[Len(frames)] = f
    BY <1>1 DEF observers!SetTop
  <1> QED
    BY Zenon, <1>2 DEF observers!Top

\* The one pass ends.
LEMMA PassIsOver ==
  ASSUME RegistryInv, Len(frames) <= 1, frames # << >>, observers!PopFrame
  PROVE  frames' = << >>
  <1>1. frames \in Seq(observers!Frame)
    BY Zenon DEF RegistryInv, observers!TypeOK
  <1>2. Len(frames) # 0 /\ Len(frames) \in Nat
    BY Zenon, <1>1, EmptySeq
  <1>3. Len(frames) = 1
    <2>1. \A n \in Nat : n <= 1 /\ n # 0 => n = 1
      OBVIOUS
    <2> QED
      BY Zenon, <1>2, <2>1
  <1> QED
    BY <1>1, <1>3 DEF observers!PopFrame

\* Where the steps of a flush are taken from: no pass runs, except at the pass.
LEMMA FlushPlace ==
  ASSUME ShutdownBelow, FlushInv, ~ shut, NEW pc \in {"release", "pop", "pass"},
         FlushAt(pc)
  PROVE  /\ Here \in Rec /\ Here.kind = "flush" /\ Here.pc = pc
         /\ frames # << >> <=> pc = "pass"
  <1>1. stack \in Seq(Rec) /\ Shape(stack, flushing_effects, frames # << >>)
    BY Zenon DEF ShutdownBelow, FlushInv
  <1>2. stack # << >> /\ stack[Len(stack)].pc = pc /\ pc # "user"
    BY Zenon DEF FlushAt, Here
  <1>3. stack[Len(stack)].kind = "flush" /\ (frames # << >> <=> pc = "pass")
    BY ZenonT(30), <1>1, <1>2, FlushOnTop
  <1>4. stack[Len(stack)] \in Rec
    BY <1>1, <1>2
  <1> QED
    BY Zenon, <1>2, <1>3, <1>4 DEF Here

\* Updates nest without a second flush, and passes without a second pass.
LEMMA NextFlushInv ==
  ASSUME ShutdownBelow, RegistryInv, FlushInv, [Next]_vars PROVE FlushInv'
  <1> SUFFICES ASSUME ~ shut'
               PROVE  /\ Shape(stack', flushing_effects', frames' # << >>)
                      /\ Len(frames') <= 1
    BY Zenon DEF FlushInv, Shape
  <1>0. ~ shut /\ ~ Shutdown
    BY Zenon, ShutStays
  <1> DEFINE pass == frames # << >>
  <1>1. /\ stack \in Seq(Rec) /\ Shape(stack, flushing_effects, pass)
        /\ Len(frames) <= 1 /\ Len(frames) \in Nat
    <2>1. frames \in Seq(observers!Frame)
      BY Zenon DEF RegistryInv, observers!TypeOK
    <2> QED
      BY <1>0, <2>1 DEF ShutdownBelow, FlushInv
  <1>2. \A kind \in Kinds :
          /\ Call(kind) \in Rec /\ Call(kind).kind = kind /\ Call(kind).pc = "user"
          /\ Flush(kind) \in Rec /\ Flush(kind).kind = kind
          /\ Flush(kind).pc = "release"
    BY Zenon DEF Call, Flush, Rec
  <1> DEFINE Callees == {"update", "bare", "callback", "observer"}
  <1>3. ASSUME NEW kind \in Callees, stack' = Append(stack, Call(kind)),
               flushing_effects' = flushing_effects, frames' = frames
        PROVE  Shape(stack', flushing_effects', frames' # << >>)
    <2>1. /\ Call(kind) \in Rec /\ Call(kind).pc = "user"
          /\ Call(kind).kind \notin {"flush", "quit"}
      BY <1>2 DEF Kinds
    <2> QED
      BY Zenon, <1>1, <1>3, <2>1, PushShape
  <1>4. ASSUME stack # << >>, Here.pc = "user", Return,
               flushing_effects' = flushing_effects,
               frames' # << >> <=> frames # << >>
        PROVE  Shape(stack', flushing_effects', frames' # << >>)
    <2>1. Shape(stack', flushing_effects, pass)
      BY Zenon, <1>1, <1>4, PopShape DEF Here, Return
    <2> QED
      BY Zenon, <1>4, <2>1 DEF Shape
  <1>5. ASSUME NEW pc \in {"release", "pop", "pass"}, FlushAt(pc),
               NEW r, r \in Rec, r.kind = "flush", r.pc # "user",
               flushing_effects' = flushing_effects,
               frames' # << >> <=> r.pc = "pass"
        PROVE  Shape([stack EXCEPT ![Len(stack)] = r], flushing_effects',
                     frames' # << >>)
    <2>1. stack # << >> /\ stack[Len(stack)].kind = "flush"
      BY Zenon, <1>0, <1>5, FlushPlace DEF FlushAt, Here
    <2>2. Shape([stack EXCEPT ![Len(stack)] = r], flushing_effects, r.pc = "pass")
      BY Zenon, <1>1, <1>5, <2>1, TopShape
    <2> QED
      BY Zenon, <1>5, <2>2 DEF Shape
  <1>6. CASE UNCHANGED << stack, flushing_effects, frames >>
    BY Zenon, <1>1, <1>6
  <1>7. ASSUME frames # << >>, NEW f, observers!SetTop(f)
        PROVE  Len(frames') <= 1 /\ (frames' # << >> <=> frames # << >>)
    BY Zenon, <1>1, <1>7, PassGoesOn
  <1>8. CASE StartUpdate \/ BareCall
    BY Zenon, <1>1, <1>3, <1>8 DEF StartUpdate, BareCall, Push, updateVars, obsVars
  <1>9. CASE Defer
             \/ (\E e \in Entities : NotifyEntity(e) \/ Observe(e) \/ DropLastHandle(e))
             \/ (\E id \in observers!SubscriberIds : DropSubscription(id))
             \/ UNCHANGED vars
    BY Zenon, <1>6, <1>9
    DEF Defer, NotifyEntity, Observe, DropLastHandle, DropSubscription, vars,
        updateVars, obsVars, observers!Insert, observers!DropSubscription
  <1>10. CASE FinishUpdate
    <2>1. CASE MustFlush
      <3>1. /\ ~ flushing_effects /\ flushing_effects' = TRUE /\ frames' = frames
            /\ stack # << >>
            /\ stack' = [stack EXCEPT ![Len(stack)] = Flush("flush")]
        BY Zenon, <1>10, <2>1 DEF FinishUpdate, MustFlush, Goto, UserCode, obsVars
      <3>2. Shape(stack, FALSE, pass)
        BY Zenon, <1>1, <3>1 DEF Shape
      <3>3. /\ Flush("flush") \in Rec /\ Flush("flush").kind = "flush"
            /\ Flush("flush").pc = "release"
        BY Zenon, <1>2 DEF Kinds
      <3>4. Shape(stack', TRUE, pass)
        BY Zenon, <1>1, <3>1, <3>2, <3>3, StartShape
      <3> QED
        BY Zenon, <1>1, <3>1, <3>4
    <2>2. CASE ~ MustFlush
      BY Zenon, <1>1, <1>4, <1>10, <2>2 DEF FinishUpdate, UserCode, obsVars
    <2> QED
      BY Zenon, <2>1, <2>2
  <1>11. CASE BareReturn \/ CallbackReturn
    BY Zenon, <1>1, <1>4, <1>11 DEF BareReturn, CallbackReturn, UserCode, updateVars, obsVars
  <1>12. ASSUME NEW keep \in BOOLEAN, ObserverReturn(keep)
         PROVE  Shape(stack', flushing_effects', frames' # << >>) /\ Len(frames') <= 1
    <2>1. Len(frames') <= 1 /\ (frames' # << >> <=> frames # << >>)
      BY Zenon, <1>7, <1>12 DEF ObserverReturn, observers!RetainReturn
    <2> QED
      BY Zenon, <1>4, <1>12, <2>1 DEF ObserverReturn, UserCode, updateVars
  <1>13. CASE QuitObserversReturn
    <2>1. stack # << >> /\ stack[Len(stack)].kind = "quit"
      BY Zenon, <1>13 DEF QuitObserversReturn, UserCode, Here
    <2>2. Len(stack) \in 1 .. Len(stack)
      BY <1>1, <2>1
    <2> QED
      BY Zenon, <1>1, <2>1, <2>2 DEF Shape
  <1>14. CASE TakeDropped
    <2>1. PICK b \in SUBSET Entities : Goto([Here EXCEPT !.batch = b])
      BY Zenon, <1>14 DEF TakeDropped
    <2> DEFINE r == [Here EXCEPT !.batch = b]
    <2>2. /\ FlushAt("release") /\ frames' = frames
          /\ flushing_effects' = flushing_effects
      BY Zenon, <1>14 DEF TakeDropped, updateVars, obsVars
    <2>3. /\ Here \in Rec /\ Here.kind = "flush" /\ Here.pc = "release"
          /\ frames = << >>
      BY Zenon, <1>0, <2>2, FlushPlace
    <2>4. r \in Rec /\ r.kind = "flush" /\ r.pc = "release"
      BY Zenon, <2>3 DEF Rec
    <2> HIDE DEF r
    <2> QED
      BY Zenon, <1>1, <1>5, <2>1, <2>2, <2>3, <2>4 DEF Goto, r
  <1>15. ASSUME NEW from \in {"release", "pop", "pass"}, FlushAt(from),
                NEW to \in {"release", "pop", "pass"},
                Goto([Here EXCEPT !.pc = to]), frames' # << >> <=> to = "pass",
                flushing_effects' = flushing_effects
         PROVE  Shape(stack', flushing_effects', frames' # << >>)
    <2> DEFINE r == [Here EXCEPT !.pc = to]
    <2>1. Here \in Rec /\ Here.kind = "flush"
      BY Zenon, <1>0, <1>15, FlushPlace
    <2>2. r \in Rec /\ r.kind = "flush" /\ r.pc = to
      BY Zenon, <2>1 DEF Rec
    <2> HIDE DEF r
    <2> QED
      BY Zenon, <1>5, <1>15, <2>2 DEF Goto, r
  <1>16. CASE ReleaseDone
    <2>1. /\ FlushAt("release") /\ Goto([Here EXCEPT !.pc = "pop"])
          /\ frames' = frames /\ flushing_effects' = flushing_effects
      BY Zenon, <1>16 DEF ReleaseDone, updateVars, obsVars
    <2>2. frames = << >>
      BY Zenon, <1>0, <2>1, FlushPlace
    <2> QED
      BY Zenon, <1>1, <1>15, <2>1, <2>2
  <1>17. ASSUME NEW id \in observers!SubscriberIds, ApplyActivation(id)
         PROVE  Shape(stack', flushing_effects', frames' # << >>) /\ Len(frames') <= 1
    <2>1. /\ FlushAt("pop") /\ Goto([Here EXCEPT !.pc = "release"])
          /\ frames' = frames /\ flushing_effects' = flushing_effects
      BY Zenon, <1>17 DEF ApplyActivation, observers!Activate, updateVars
    <2>2. frames = << >>
      BY Zenon, <1>0, <2>1, FlushPlace
    <2> QED
      BY <1>1, <1>15, <2>1, <2>2
  <1>18. ASSUME NEW e \in Entities, ApplyNotify(e)
         PROVE  Shape(stack', flushing_effects', frames' # << >>) /\ Len(frames') <= 1
    <2>1. FlushAt("pop") /\ flushing_effects' = flushing_effects
      BY Zenon, <1>18 DEF ApplyNotify, updateVars
    <2>2. frames = << >>
      BY Zenon, <1>0, <2>1, FlushPlace
    <2>3. CASE slot[e] = "some"
      <3>1. Len(frames') = 1 /\ frames' # << >>
        BY <1>18, <2>2, <2>3 DEF ApplyNotify, observers!RetainBegin
      <3> QED
        BY <1>15, <1>18, <2>1, <2>3, <3>1 DEF ApplyNotify
    <2>4. CASE slot[e] # "some"
      BY <1>1, <1>15, <1>18, <2>1, <2>2, <2>4 DEF ApplyNotify, obsVars
    <2> QED
      BY Zenon, <2>3, <2>4
  <1>19. CASE PassEnd
    <2>1. /\ FlushAt("pass") /\ Goto([Here EXCEPT !.pc = "release"])
          /\ flushing_effects' = flushing_effects
          /\ observers!PopFrame
      BY Zenon, <1>19 DEF PassEnd, observers!RetainEnd, updateVars
    <2>2. frames # << >>
      BY Zenon, <1>0, <2>1, FlushPlace
    <2>3. frames' = << >>
      BY Zenon, <1>1, <2>1, <2>2, PassIsOver
    <2>4. Len(frames') <= 1
      BY <2>3
    <2>5. frames' # << >> <=> "release" = "pass"
      BY Zenon, <2>3
    <2> QED
      BY Zenon, <1>15, <2>1, <2>4, <2>5
  <1>20. ASSUME NEW top, top \in Rec, top.kind = "flush", top.pc = "release",
                stack' = Append([stack EXCEPT ![Len(stack)] = top],
                                Call("callback")),
                FlushAt("release") \/ FlushAt("pop"), frames' = frames,
                flushing_effects' = flushing_effects
         PROVE  Shape(stack', flushing_effects', frames' # << >>) /\ Len(frames') <= 1
    <2> DEFINE mid == [stack EXCEPT ![Len(stack)] = top]
    <2>1. frames = << >>
      BY Zenon, <1>0, <1>20, FlushPlace
    <2>2. Shape(mid, flushing_effects', frames' # << >>)
      BY Zenon, <1>5, <1>20, <2>1
    <2>3. mid \in Seq(Rec)
      <3>1. stack # << >>
        BY Zenon, <1>20 DEF FlushAt
      <3>2. top \in Rec
        BY Zenon, <1>20
      <3> QED
        BY <1>1, <3>1, <3>2
    <2>4. /\ Call("callback") \in Rec /\ Call("callback").pc = "user"
          /\ Call("callback").kind \notin {"flush", "quit"}
      BY Zenon, <1>2 DEF Kinds
    <2> HIDE DEF mid
    <2>5. Shape(Append(mid, Call("callback")), flushing_effects', frames' # << >>)
      BY Zenon, <2>2, <2>3, <2>4, PushShape
    <2> QED
      BY Zenon, <1>1, <1>20, <2>5 DEF mid
  <1>21. ASSUME NEW e \in Entities, ReleaseEntity(e)
         PROVE  Shape(stack', flushing_effects', frames' # << >>) /\ Len(frames') <= 1
    <2> DEFINE top == [Here EXCEPT !.batch = @ \ {e}]
    <2>1. /\ FlushAt("release") /\ frames' = frames
          /\ flushing_effects' = flushing_effects
      BY Zenon, <1>21
      DEF ReleaseEntity, ForgetObservers, observers!Remove, updateVars, obsVars
    <2>2. Here \in Rec /\ Here.kind = "flush" /\ Here.pc = "release"
      BY Zenon, <1>0, <2>1, FlushPlace
    <2>3. top \in Rec /\ top.kind = "flush" /\ top.pc = "release"
      BY Zenon, <2>2 DEF Rec
    <2>4. [stack EXCEPT ![Len(stack)].batch = @ \ {e}]
            = [stack EXCEPT ![Len(stack)] = top]
      BY Zenon DEF Here
    <2> HIDE DEF top
    <2> QED
      BY Zenon, <1>20, <1>21, <2>1, <2>3, <2>4 DEF ReleaseEntity
  <1>22. CASE ApplyDefer
    <2> DEFINE top == [Here EXCEPT !.pc = "release"]
    <2>1. /\ FlushAt("pop") /\ frames' = frames
          /\ flushing_effects' = flushing_effects
      BY Zenon, <1>22 DEF ApplyDefer, updateVars, obsVars
    <2>2. Here \in Rec /\ Here.kind = "flush"
      BY Zenon, <1>0, <2>1, FlushPlace
    <2>3. top \in Rec /\ top.kind = "flush" /\ top.pc = "release"
      BY Zenon, <2>2 DEF Rec
    <2>4. [stack EXCEPT ![Len(stack)].pc = "release"]
            = [stack EXCEPT ![Len(stack)] = top]
      BY Zenon DEF Here
    <2> HIDE DEF top
    <2> QED
      BY Zenon, <1>20, <1>22, <2>1, <2>3, <2>4 DEF ApplyDefer
  <1>23. ASSUME NEW id \in observers!SubscriberIds, PassVisit(id)
         PROVE  Shape(stack', flushing_effects', frames' # << >>) /\ Len(frames') <= 1
    <2>1. /\ stack' = stack /\ flushing_effects' = flushing_effects
          /\ frames # << >> /\ \E f : observers!SetTop(f)
      BY Zenon, <1>23 DEF PassVisit, observers!RetainVisit, updateVars
    <2>2. Len(frames') <= 1 /\ (frames' # << >> <=> frames # << >>)
      BY Zenon, <1>7, <2>1
    <2> QED
      BY Zenon, <1>1, <2>1, <2>2 DEF Shape
  <1>24. CASE PassCall
    <2>1. CASE Push(Call("observer")) /\ UNCHANGED obsVars
      BY <1>1, <1>3, <1>24, <2>1 DEF PassCall, Push, updateVars, obsVars
    <2>2. CASE observers!RetainReturn(FALSE) /\ stack' = stack
      <3>1. /\ flushing_effects' = flushing_effects
            /\ frames # << >> /\ \E f : observers!SetTop(f)
        BY Zenon, <1>24, <2>2 DEF PassCall, observers!RetainReturn, updateVars
      <3>2. Len(frames') <= 1 /\ (frames' # << >> <=> frames # << >>)
        BY Zenon, <1>7, <3>1
      <3> QED
        BY <1>1, <2>2, <3>1, <3>2 DEF Shape
    <2> QED
      BY Zenon, <1>24, <2>1, <2>2 DEF PassCall
  <1>25. CASE FlushEnd
    <2>1. FlushAt("pop") /\ Return /\ frames' = frames
      BY Zenon, <1>25 DEF FlushEnd, obsVars
    <2>2. Here.kind = "flush" /\ Here.pc = "pop" /\ frames = << >> /\ stack # << >>
      BY Zenon, <1>0, <2>1, FlushPlace DEF FlushAt
    <2>3. flushing_effects' = FALSE
      BY Zenon, <1>25, <2>2 DEF FlushEnd, FlagAfterFlush
    <2>4. Shape(stack', FALSE, FALSE)
      BY Zenon, <1>1, <2>1, <2>2, PopShape DEF Here, Return
    <2> QED
      BY <1>1, <2>1, <2>2, <2>3, <2>4 DEF Shape
  <1> QED
    BY <1>0, <1>8, <1>9, <1>10, <1>11, <1>12, <1>13, <1>14, <1>16, <1>17, <1>18,
       <1>19, <1>21, <1>22, <1>23, <1>24, <1>25
    DEF Next, UserStep, AppStep

\* Nothing has been called yet.
LEMMA InitFlushInv == Init => FlushInv
  BY DEF Init, observers!Init, FlushInv, Shape

----------------------------------------------------------------------------
LifeOK == life \in [Entities -> {"referenced", "unreferenced", "taken", "released"}]

\* An entity that nobody refers to stays that way, and is released in one way.
LEMMA LifeStep ==
  ASSUME LifeOK, [Next]_vars
  PROVE  /\ LifeOK'
         /\ \A e \in Entities :
              /\ life'[e] = "referenced" => life[e] = "referenced"
              /\ life'[e] = "released" => life[e] = "released" \/ ReleaseEntity(e)
  <1>1. CASE life' = life
    BY Zenon, <1>1 DEF LifeOK
  <1>2. ASSUME NEW e \in Entities, DropLastHandle(e)
        PROVE  /\ LifeOK'
               /\ \A f \in Entities :
                    /\ life'[f] = "referenced" => life[f] = "referenced"
                    /\ life'[f] = "released" => life[f] = "released"
    BY Zenon, <1>2 DEF DropLastHandle, LifeOK
  <1>3. CASE TakeDropped
    <2>1. /\ LifeOK'
          /\ \A f \in Entities :
               /\ life'[f] = "referenced" => life[f] = "referenced"
               /\ life'[f] = "released" => life[f] = "released"
      BY Zenon, <1>3 DEF TakeDropped, LifeOK
    <2> QED
      BY Zenon, <2>1
  <1>4. ASSUME NEW e \in Entities, ReleaseEntity(e)
        PROVE  /\ LifeOK'
               /\ \A f \in Entities :
                    /\ life'[f] = "referenced" => life[f] = "referenced"
                    /\ life'[f] = "released" => life[f] = "released" \/ f = e
    BY Zenon, <1>4 DEF ReleaseEntity, LifeOK
  <1>5. ASSUME StartUpdate \/ BareCall \/ Defer
               \/ (\E e \in Entities : NotifyEntity(e) \/ Observe(e))
               \/ (\E id \in observers!SubscriberIds : DropSubscription(id))
               \/ Shutdown \/ UNCHANGED vars
        PROVE  life' = life
    BY Zenon, <1>5 DEF StartUpdate, BareCall, Defer, NotifyEntity, Observe,
                DropSubscription, Shutdown, vars
  <1>6. ASSUME FinishUpdate \/ BareReturn \/ CallbackReturn \/ QuitObserversReturn
               \/ (\E keep \in BOOLEAN : ObserverReturn(keep))
               \/ ReleaseDone \/ ApplyDefer \/ (\E e \in Entities : ApplyNotify(e))
               \/ (\E id \in observers!SubscriberIds :
                     ApplyActivation(id) \/ PassVisit(id))
               \/ PassCall \/ PassEnd \/ FlushEnd
        PROVE  life' = life
    BY Zenon, <1>6 DEF FinishUpdate, BareReturn, CallbackReturn, QuitObserversReturn,
                ObserverReturn, ReleaseDone, ApplyDefer, ApplyNotify,
                ApplyActivation, PassVisit, PassCall, PassEnd, FlushEnd
  <1>7. CASE \E e \in Entities : ReleaseEntity(e)
    BY Zenon, <1>4, <1>7
  <1>8. CASE \E e \in Entities : DropLastHandle(e)
    BY Zenon, <1>2, <1>8
  <1> QED
    BY Zenon, <1>1, <1>3, <1>5, <1>6, <1>7, <1>8 DEF Next, UserStep, AppStep

\* Who may register somebody under a key that nobody is registered under: user
\* code, for an entity that is referenced, and the end of the pass over it.
LEMMA VacantStays ==
  ASSUME RegistryInv, [Next]_vars, NEW e \in Entities, slot[e] = "vacant"
  PROVE  \/ slot'[e] = "vacant"
         \/ life[e] = "referenced"
         \/ PassEnd /\ observers!Top.emitter = e
  <1>0. slot \in [Entities -> {"vacant", "taken", "some"}]
    BY Zenon DEF RegistryInv, observers!TypeOK
  <1>1. CASE slot' = slot
    BY Zenon, <1>1
  <1>2. ASSUME NEW f \in Entities, Observe(f) PROVE slot'[e] = slot[e] \/ e = f
    BY Zenon, <1>0, <1>2 DEF Observe, observers!Insert
  <1>3. ASSUME NEW id \in observers!SubscriberIds, DropSubscription(id)
        PROVE  slot'[e] = "vacant"
    <2>1. key[id] \in Entities
      BY Zenon, <1>3 DEF DropSubscription, observers!DropSubscription, RegistryInv,
                  observers!TypeOK
    <2> QED
      BY Zenon, <1>0, <1>3, <2>1
      DEF DropSubscription, observers!DropSubscription, observers!Unsubscribe,
          observers!mapVars
  <1>4. ASSUME NEW f \in Entities, ReleaseEntity(f) PROVE slot'[e] = "vacant"
    BY Zenon, <1>0, <1>4 DEF ReleaseEntity, ForgetObservers, observers!Remove, obsVars
  <1>5. ASSUME NEW f \in Entities, ApplyNotify(f) PROVE slot'[e] = "vacant"
    BY Zenon, <1>0, <1>5
    DEF ApplyNotify, observers!RetainBegin, observers!TakeMap, obsVars
  <1>6. CASE PassEnd
    BY Zenon, <1>0, <1>6 DEF PassEnd, observers!RetainEnd, observers!PutBack
  <1>7. ASSUME StartUpdate \/ BareCall \/ Defer
               \/ (\E f \in Entities : NotifyEntity(f) \/ DropLastHandle(f))
               \/ Shutdown \/ UNCHANGED vars
        PROVE  slot' = slot
    BY Zenon, <1>7 DEF StartUpdate, BareCall, Defer, NotifyEntity, DropLastHandle,
                Shutdown, vars, obsVars
  <1>8. ASSUME FinishUpdate \/ BareReturn \/ CallbackReturn \/ QuitObserversReturn
               \/ (\E keep \in BOOLEAN : ObserverReturn(keep))
               \/ TakeDropped \/ ReleaseDone \/ ApplyDefer
               \/ (\E id \in observers!SubscriberIds :
                     ApplyActivation(id) \/ PassVisit(id))
               \/ PassCall \/ FlushEnd
        PROVE  slot' = slot
    BY ZenonT(30), <1>8 DEF FinishUpdate, BareReturn, CallbackReturn, QuitObserversReturn,
                ObserverReturn, TakeDropped, ReleaseDone, ApplyDefer,
                ApplyActivation, PassVisit, PassCall, FlushEnd, obsVars,
                observers!RetainReturn, observers!Activate,
                observers!RetainVisit, observers!mapVars
  <1>9. CASE \E f \in Entities : Observe(f)
    BY Zenon, <1>2, <1>9 DEF Observe
  <1> QED
    BY <1>1, <1>3, <1>4, <1>5, <1>6, <1>7, <1>8, <1>9 DEF Next, UserStep, AppStep

\* Which entity a pass is about.
LEMMA EmitterStep ==
  ASSUME RegistryInv, ShutdownBelow, FlushInv, ~ shut, [Next]_vars, frames' # << >>
  PROVE  \/ frames # << >> /\ observers!Top'.emitter = observers!Top.emitter
         \/ \E e \in Entities : /\ ApplyNotify(e) /\ slot[e] = "some"
                                /\ observers!Top'.emitter = e
  <1>0. frames \in Seq(observers!Frame)
    BY Zenon DEF RegistryInv, observers!TypeOK
  <1>1. CASE frames' = frames
    BY Zenon, <1>1 DEF observers!Top
  <1>2. ASSUME NEW f, frames # << >>, observers!SetTop(f),
               f.emitter = observers!Top.emitter
        PROVE  observers!Top'.emitter = observers!Top.emitter
    BY Zenon, <1>2, PassGoesOn
  <1>t. ASSUME frames # << >> PROVE observers!Top \in observers!Frame
    BY <1>0, <1>t DEF observers!Top
  <1>3. ASSUME NEW keep \in BOOLEAN, observers!RetainReturn(keep)
        PROVE  frames # << >> /\ observers!Top'.emitter = observers!Top.emitter
    <2> DEFINE f == [observers!Top EXCEPT
                       !.calling = observers!None,
                       !.kept = IF keep THEN @ \cup {observers!Top.calling} ELSE @]
    <2>1. frames # << >> /\ observers!SetTop(f)
      BY Zenon, <1>3 DEF observers!RetainReturn
    <2>2. f.emitter = observers!Top.emitter
      BY Zenon, <1>t, <2>1 DEF observers!Frame
    <2> HIDE DEF f
    <2> QED
      BY Zenon, <1>2, <2>1, <2>2
  <1>4. ASSUME NEW id \in observers!SubscriberIds, PassVisit(id)
        PROVE  frames # << >> /\ observers!Top'.emitter = observers!Top.emitter
    <2> DEFINE f == [observers!Top EXCEPT !.rest = @ \ {id}, !.calling = id]
               g == [observers!Top EXCEPT !.rest = @ \ {id}, !.kept = @ \cup {id}]
    <2>1. frames # << >> /\ (observers!SetTop(f) \/ observers!SetTop(g))
      BY Zenon, <1>4 DEF PassVisit, observers!RetainVisit
    <2>2. f.emitter = observers!Top.emitter /\ g.emitter = observers!Top.emitter
      BY Zenon, <1>t, <2>1 DEF observers!Frame
    <2> HIDE DEF f, g
    <2> QED
      BY Zenon, <1>2, <2>1, <2>2
  <1>5. ASSUME NEW e \in Entities, ApplyNotify(e)
        PROVE  \/ frames' = frames
               \/ slot[e] = "some" /\ observers!Top'.emitter = e
    <2>1. CASE slot[e] = "some"
      <3>1. PICK f \in observers!Frame :
              f.emitter = e /\ frames' = Append(frames, f)
        BY Zenon, <1>5, <2>1
        DEF ApplyNotify, observers!RetainBegin, RegistryInv, observers!TypeOK,
            observers!Frame
      <3>2. frames'[Len(frames')] = f
        BY <1>0, <3>1
      <3> QED
        BY Zenon, <2>1, <3>1, <3>2 DEF observers!Top
    <2>2. CASE slot[e] # "some"
      BY Zenon, <1>5, <2>2 DEF ApplyNotify, obsVars
    <2> QED
      BY Zenon, <2>1, <2>2
  <1>6. CASE PassEnd
    <2>1. Len(frames) <= 1
      BY Zenon DEF FlushInv
    <2>2. frames # << >> /\ observers!PopFrame
      BY Zenon, <1>6 DEF PassEnd, observers!RetainEnd
    <2> QED
      BY Zenon, <2>1, <2>2, PassIsOver
  <1>7. ASSUME StartUpdate \/ BareCall \/ Defer
               \/ (\E f \in Entities :
                     NotifyEntity(f) \/ DropLastHandle(f) \/ Observe(f))
               \/ (\E id \in observers!SubscriberIds : DropSubscription(id))
               \/ Shutdown \/ UNCHANGED vars
        PROVE  frames' = frames
    BY ZenonT(30), <1>7 DEF StartUpdate, BareCall, Defer, NotifyEntity, DropLastHandle,
                Observe, DropSubscription, Shutdown, vars, obsVars,
                observers!Insert, observers!DropSubscription
  <1>8. ASSUME FinishUpdate \/ BareReturn \/ CallbackReturn \/ QuitObserversReturn
               \/ TakeDropped \/ ReleaseDone \/ ApplyDefer
               \/ (\E f \in Entities : ReleaseEntity(f))
               \/ (\E id \in observers!SubscriberIds : ApplyActivation(id))
               \/ FlushEnd
        PROVE  frames' = frames
    BY Zenon, <1>8 DEF FinishUpdate, BareReturn, CallbackReturn, QuitObserversReturn,
                TakeDropped, ReleaseDone, ApplyDefer, ReleaseEntity,
                ForgetObservers, ApplyActivation, FlushEnd, obsVars,
                observers!Remove, observers!Activate
  <1>9. CASE \E keep \in BOOLEAN : ObserverReturn(keep)
    BY Zenon, <1>3, <1>9 DEF ObserverReturn
  <1>10. CASE PassCall
    <2>1. frames' = frames \/ observers!RetainReturn(FALSE)
      BY Zenon, <1>10 DEF PassCall, obsVars
    <2> QED
      BY Zenon, <1>1, <1>3, <2>1
  <1>11. CASE \E e \in Entities : ApplyNotify(e)
    BY Zenon, <1>1, <1>5, <1>11
  <1> QED
    BY Zenon, <1>1, <1>4, <1>6, <1>7, <1>8, <1>9, <1>10, <1>11 DEF Next, UserStep, AppStep

\* The strengthening of ReleasedHasNoObservers: the entity of a running pass is
\* not released, so the end of the pass registers nobody for a released one.
ReleasedInv ==
  ~ shut =>
    /\ \A e \in Entities : life[e] = "released" => slot[e] = "vacant"
    /\ frames # << >> => life[observers!Top.emitter] # "released"

\* Entities are released, and observers registered, at different times.
LEMMA NextReleasedInv ==
  ASSUME RegistryInv, ShutdownBelow, FlushInv, LifeOK, ReleasedInv, [Next]_vars
  PROVE  ReleasedInv'
  <1> SUFFICES ASSUME ~ shut'
               PROVE  /\ \A e \in Entities :
                           life'[e] = "released" => slot'[e] = "vacant"
                      /\ frames' # << >> => life'[observers!Top'.emitter] # "released"
    BY Zenon DEF ReleasedInv
  <1>1. ~ shut
    BY Zenon, ShutStays
  <1>2. ASSUME NEW e \in Entities, ReleaseEntity(e)
        PROVE  frames = << >> /\ slot'[e] = "vacant"
    <2>1. slot \in [Entities -> {"vacant", "taken", "some"}]
      BY Zenon DEF RegistryInv, observers!TypeOK
    <2>2. FlushAt("release")
      BY Zenon, <1>2 DEF ReleaseEntity
    <2> QED
      BY Zenon, <1>1, <1>2, <2>1, <2>2, FlushPlace
      DEF ReleaseEntity, ForgetObservers, observers!Remove, obsVars
  <1>3. ASSUME NEW e \in Entities, life'[e] = "released" PROVE slot'[e] = "vacant"
    <2>1. CASE ReleaseEntity(e)
      BY Zenon, <1>2, <2>1
    <2>2. CASE life[e] = "released"
      <3>1. slot[e] = "vacant"
        BY Zenon, <1>1, <2>2 DEF ReleasedInv
      <3>2. ~ (PassEnd /\ observers!Top.emitter = e)
        BY Zenon, <1>1, <2>2 DEF ReleasedInv, PassEnd, observers!RetainEnd
      <3> QED
        BY Zenon, <2>2, <3>1, <3>2, VacantStays
    <2> QED
      BY Zenon, <1>3, <2>1, <2>2, LifeStep
  <1>4. ASSUME frames' # << >> PROVE life'[observers!Top'.emitter] # "released"
    <2>1. CASE frames # << >> /\ observers!Top'.emitter = observers!Top.emitter
      <3>1. observers!Top.emitter \in Entities
        <4>1. frames \in Seq(observers!Frame)
          BY Zenon DEF RegistryInv, observers!TypeOK
        <4>2. observers!Top \in observers!Frame
          BY <2>1, <4>1 DEF observers!Top
        <4> QED
          BY Zenon, <4>2 DEF observers!Frame
      <3>2. life[observers!Top.emitter] # "released"
        BY Zenon, <1>1, <2>1 DEF ReleasedInv
      <3> QED
        BY Zenon, <1>2, <2>1, <3>1, <3>2, LifeStep
    <2>2. ASSUME NEW e \in Entities, ApplyNotify(e), slot[e] = "some",
                 observers!Top'.emitter = e
          PROVE  life'[observers!Top'.emitter] # "released"
      <3>1. life[e] # "released"
        BY Zenon, <1>1, <2>2 DEF ReleasedInv
      <3> QED
        BY Zenon, <2>2, <3>1 DEF ApplyNotify
    <2> QED
      BY Zenon, <1>1, <1>4, <2>1, <2>2, EmitterStep
  <1> QED
    BY Zenon, <1>3, <1>4

----------------------------------------------------------------------------
\* The running pass will still call the observer.
StillDue(id) ==
  /\ frames # << >>
  /\ \/ id \in observers!Top.rest
     \/ observers!Top.calling = id /\ FlushAt("pass")

\* Who was active when the entity was notified is active.
OwedInv ==
  \A id : <<id, TRUE>> \in owed => id \in observers!Issued /\ id \in active

\* The strengthening of ActiveObserverTold: who is owed a call has the entity's
\* notification queued, or is due in the running pass.
ToldInv ==
  ~ shut =>
    \A id \in observers!Stored :
      <<id, TRUE>> \in owed /\ life[key[id]] = "referenced"
        => key[id] \in pending_notifications \/ StillDue(id)

\* An observer keeps its id and its entity, and once active it stays so.
LEMMA IdsStay ==
  ASSUME RegistryInv, [Next]_vars, NEW id \in observers!Issued
  PROVE  /\ id \in observers!Issued' /\ key'[id] = key[id]
         /\ id \in active => id \in active'
  <1>0. /\ next_subscriber_id \in Nat /\ id \in observers!SubscriberIds
        /\ id \in Nat /\ id < next_subscriber_id
        /\ key \in [observers!SubscriberIds -> Entities \cup {observers!None}]
    BY AppAssumption
    DEF RegistryInv, observers!TypeOK, observers!Issued, observers!SubscriberIds
  <1>1. CASE /\ next_subscriber_id' = next_subscriber_id /\ key' = key
             /\ active \subseteq active'
    BY Zenon, <1>1 DEF observers!Issued
  <1>2. ASSUME NEW e \in Entities, observers!Insert(e)
        PROVE  /\ id \in observers!Issued' /\ key'[id] = key[id] /\ active' = active
    <2>1. /\ next_subscriber_id' = next_subscriber_id + 1 /\ active' = active
          /\ key' = [key EXCEPT ![next_subscriber_id] = e]
      BY Zenon, <1>2 DEF observers!Insert, observers!FreshId
    <2> QED
      BY <1>0, <2>1 DEF observers!Issued
  <1>3. ASSUME observers!Next, ~ \E e \in Entities : observers!Insert(e)
        PROVE  /\ next_subscriber_id' = next_subscriber_id /\ key' = key
               /\ active \subseteq active'
    BY Zenon, <1>3 DEF observers!Next, observers!Remove, observers!RetainBegin,
      observers!Activate, observers!DropSubscription, observers!Detach,
      observers!RetainVisit, observers!RetainReturn, observers!RetainEnd
  <1>4. observers!Next \/ UNCHANGED obsVars
    BY Zenon, RegistryStep
  <1> QED
    BY Zenon, <1>1, <1>2, <1>3, <1>4 DEF obsVars

\* A debt goes when the observer is called or cancelled.
LEMMA SettledDebts ==
  ASSUME NEW id, NEW other
  PROVE  <<id, TRUE>> \in Settled(other) <=> <<id, TRUE>> \in owed /\ id # other
  BY Zenon DEF Settled

\* A debt arises when the entity is notified.
LEMMA OwedStep ==
  ASSUME [Next]_vars, NEW id, <<id, TRUE>> \in owed', <<id, TRUE>> \notin owed
  PROVE  \E e \in Entities :
           NotifyEntity(e) /\ id \in ObserversOf(e) /\ id \in active
  <1>1. ASSUME owed' = owed \/ \E other : owed' = Settled(other) PROVE FALSE
    BY Zenon, <1>1, SettledDebts
  <1>2. ASSUME NEW e \in Entities, NotifyEntity(e)
        PROVE  id \in ObserversOf(e) /\ id \in active
    <2>1. PICK other \in ObserversOf(e) : <<id, TRUE>> = <<other, other \in active>>
      BY Zenon, <1>2 DEF NotifyEntity
    <2> QED
      BY Zenon, <2>1
  <1>3. ASSUME StartUpdate \/ BareCall \/ Defer
               \/ (\E e \in Entities : Observe(e) \/ DropLastHandle(e))
               \/ (\E jd \in observers!SubscriberIds : DropSubscription(jd))
               \/ Shutdown \/ UNCHANGED vars
        PROVE  FALSE
    BY Zenon, <1>1, <1>3 DEF StartUpdate, BareCall, Defer, Observe, DropLastHandle,
                      DropSubscription, Shutdown, vars
  <1>4. ASSUME AppStep PROVE FALSE
    BY Zenon, <1>1, <1>4
    DEF AppStep, FinishUpdate, BareReturn, CallbackReturn, QuitObserversReturn,
        ObserverReturn, TakeDropped, ReleaseDone, ApplyDefer, ReleaseEntity,
        ApplyNotify, ApplyActivation, PassVisit, PassCall, PassEnd, FlushEnd
  <1> QED
    BY Zenon, <1>2, <1>3, <1>4 DEF Next, UserStep

\* Only the debts of active observers are noted as such.
LEMMA NextOwedInv ==
  ASSUME RegistryInv, OwedInv, [Next]_vars PROVE OwedInv'
  <1> SUFFICES ASSUME NEW id, <<id, TRUE>> \in owed'
               PROVE  id \in observers!Issued' /\ id \in active'
    BY Zenon DEF OwedInv
  <1>1. id \in observers!Issued /\ id \in active
    <2>1. CASE <<id, TRUE>> \in owed
      BY Zenon, <2>1 DEF OwedInv
    <2>2. CASE <<id, TRUE>> \notin owed
      BY Zenon, <2>2, OwedStep DEF RegistryInv, ObserversOf
    <2> QED
      BY Zenon, <2>1, <2>2
  <1> QED
    BY Zenon, <1>1, IdsStay

\* Where a registered observer is: with its entity.
LEMMA WithItsEntity ==
  ASSUME RegistryInv, NEW id \in observers!Stored
  PROVE  /\ key[id] \in Entities
         /\ frames = << >> => id \in held[key[id]] /\ slot[key[id]] = "some"
  <1>0. frames \in Seq(observers!Frame)
    BY Zenon DEF RegistryInv, observers!TypeOK
  <1>1. CASE \E e \in Entities : id \in held[e]
    <2>1. PICK e \in Entities : id \in held[e]
      BY Zenon, <1>1
    <2>2. key[id] = e
      BY Zenon, <2>1 DEF RegistryInv, observers!OnePlace
    <2>3. slot[e] = "some"
      BY Zenon, <2>1 DEF RegistryInv, observers!TypeOK
    <2> QED
      BY Zenon, <2>1, <2>2, <2>3
  <1>2. CASE \E i \in observers!Depth : id \in observers!FrameIds(frames[i])
    <2>1. PICK i \in observers!Depth : id \in observers!FrameIds(frames[i])
      BY Zenon, <1>2
    <2>2. key[id] = frames[i].emitter
      BY Zenon, <2>1 DEF RegistryInv, observers!OnePlace
    <2>3. i \in 1 .. Len(frames) /\ frames # << >>
      BY <2>1 DEF observers!Depth
    <2>4. frames[i] \in observers!Frame
      BY <1>0, <2>3
    <2> QED
      BY Zenon, <2>2, <2>3, <2>4 DEF observers!Frame
  <1>3. \/ \E e \in Entities : id \in held[e]
        \/ \E i \in observers!Depth : id \in observers!FrameIds(frames[i])
    BY Zenon DEF observers!Stored, observers!InFrames
  <1> QED
    BY Zenon, <1>1, <1>2, <1>3

\* A pass calls everybody who is due in it, unless the entity is gone.
LEMMA DueStep ==
  ASSUME RegistryInv, ShutdownBelow, FlushInv, ~ shut, ~ shut', [Next]_vars,
         NEW id \in observers!Issued, id \in active, StillDue(id),
         <<id, TRUE>> \in owed', life[key[id]] = "referenced"
  PROVE  StillDue(id)'
  <1>0. /\ frames # << >> /\ id # observers!None
        /\ \/ id \in observers!Top.rest
           \/ observers!Top.calling = id /\ FlushAt("pass")
    BY AppAssumption
    DEF StillDue, observers!Issued, observers!SubscriberIds, observers!None
  <1>1. observers!Top \in observers!Frame
    <2>1. frames \in Seq(observers!Frame)
      BY Zenon DEF RegistryInv, observers!TypeOK
    <2> QED
      BY <1>0, <2>1 DEF observers!Top
  <1>2. ASSUME frames' = frames, id \in observers!Top.rest PROVE StillDue(id)'
    BY Zenon, <1>0, <1>2 DEF StillDue, observers!Top
  <1>3. ASSUME frames' = frames, stack' = stack PROVE StillDue(id)'
    BY Zenon, <1>0, <1>3 DEF StillDue, observers!Top, FlushAt, Here
  <1>4. ASSUME NEW f, observers!SetTop(f), id \in f.rest PROVE StillDue(id)'
    BY Zenon, <1>0, <1>4, PassGoesOn DEF StillDue
  <1>5. ASSUME ~ FlushAt("pass") PROVE id \in observers!Top.rest
    BY Zenon, <1>0, <1>5
  <1>6. UserCode \/ Quiescent => ~ FlushAt("pass")
    BY Zenon DEF UserCode, Quiescent, FlushAt
  <1>7. ASSUME NEW pc \in {"release", "pop"}, FlushAt(pc) PROVE FALSE
    BY Zenon, <1>0, <1>7, FlushPlace
  <1>8. ASSUME StartUpdate \/ BareCall \/ FinishUpdate \/ BareReturn
               \/ CallbackReturn \/ QuitObserversReturn
        PROVE  StillDue(id)'
    <2>1. frames' = frames /\ (UserCode \/ Quiescent)
      BY Zenon, <1>8 DEF StartUpdate, BareCall, FinishUpdate, BareReturn,
                  CallbackReturn, QuitObserversReturn, obsVars
    <2> QED
      BY Zenon, <1>2, <1>5, <1>6, <2>1
  <1>9. ASSUME Defer
               \/ (\E e \in Entities :
                     NotifyEntity(e) \/ Observe(e) \/ DropLastHandle(e))
               \/ (\E jd \in observers!SubscriberIds : DropSubscription(jd))
               \/ UNCHANGED vars
        PROVE  StillDue(id)'
    <2>1. frames' = frames /\ stack' = stack
      BY Zenon, <1>9 DEF Defer, NotifyEntity, Observe, DropLastHandle, DropSubscription,
                  vars, obsVars, observers!Insert, observers!DropSubscription
    <2> QED
      BY Zenon, <1>3, <2>1
  <1>10. ASSUME TakeDropped \/ ReleaseDone \/ ApplyDefer \/ FlushEnd
                \/ (\E e \in Entities : ReleaseEntity(e) \/ ApplyNotify(e))
                \/ (\E jd \in observers!SubscriberIds : ApplyActivation(jd))
         PROVE  FALSE
    BY Zenon, <1>7, <1>10 DEF TakeDropped, ReleaseDone, ApplyDefer, FlushEnd,
                       ReleaseEntity, ApplyNotify, ApplyActivation
  <1>11. ASSUME NEW jd \in observers!SubscriberIds, PassVisit(jd)
         PROVE  StillDue(id)'
    <2> DEFINE f == [observers!Top EXCEPT !.rest = @ \ {jd}, !.calling = jd]
               g == [observers!Top EXCEPT !.rest = @ \ {jd}, !.kept = @ \cup {jd}]
    <2>1. /\ FlushAt("pass") /\ stack' = stack
          /\ observers!Top.calling = observers!None
          /\ \/ jd \in active /\ observers!SetTop(f)
             \/ jd \notin active /\ observers!SetTop(g)
      BY Zenon, <1>11 DEF PassVisit, observers!RetainVisit
    <2>2. id \in observers!Top.rest
      BY Zenon, <1>0, <2>1
    <2>3. /\ f.rest = observers!Top.rest \ {jd} /\ f.calling = jd
          /\ g.rest = observers!Top.rest \ {jd}
      BY Zenon, <1>1 DEF observers!Frame
    <2> HIDE DEF f, g
    <2>4. CASE jd # id
      BY Zenon, <1>4, <2>1, <2>2, <2>3, <2>4
    <2>5. CASE jd = id
      <3>1. observers!SetTop(f)
        BY Zenon, <2>1, <2>5
      <3>2. frames' # << >> /\ observers!Top' = f
        BY Zenon, <1>0, <3>1, PassGoesOn
      <3>3. FlushAt("pass")'
        BY Zenon, <2>1 DEF FlushAt, Here
      <3> QED
        BY ZenonT(30), <2>3, <2>5, <3>2, <3>3 DEF StillDue
    <2> QED
      BY Zenon, <2>4, <2>5
  <1>12. ASSUME NEW keep \in BOOLEAN, observers!RetainReturn(keep),
                id \in observers!Top.rest
         PROVE  StillDue(id)'
    <2> DEFINE f == [observers!Top EXCEPT
                       !.calling = observers!None,
                       !.kept = IF keep THEN @ \cup {observers!Top.calling} ELSE @]
    <2>1. observers!SetTop(f)
      BY Zenon, <1>12 DEF observers!RetainReturn
    <2>2. f.rest = observers!Top.rest
      BY Zenon, <1>1 DEF observers!Frame
    <2> HIDE DEF f
    <2> QED
      BY Zenon, <1>4, <1>12, <2>1, <2>2
  <1>13. CASE \E keep \in BOOLEAN : ObserverReturn(keep)
    BY Zenon, <1>5, <1>6, <1>12, <1>13 DEF ObserverReturn
  <1>14. CASE PassCall
    <2>1. CASE life[key[observers!Top.calling]] = "referenced"
      <3>1. frames' = frames /\ owed' = Settled(observers!Top.calling)
        BY Zenon, <1>14, <2>1 DEF PassCall, obsVars
      <3>2. id # observers!Top.calling
        BY Zenon, <3>1, SettledDebts
      <3> QED
        BY <1>0, <1>2, <3>1, <3>2
    <2>2. CASE life[key[observers!Top.calling]] # "referenced"
      <3>1. observers!RetainReturn(FALSE)
        BY Zenon, <1>14, <2>2 DEF PassCall
      <3>2. id # observers!Top.calling
        BY Zenon, <2>2
      <3> QED
        BY Zenon, <1>0, <1>12, <3>1, <3>2
    <2> QED
      BY Zenon, <2>1, <2>2
  <1>15. ASSUME PassEnd PROVE FALSE
    BY Zenon, <1>0, <1>15 DEF PassEnd, observers!RetainEnd
  <1>16. ~ Shutdown
    BY Zenon, ShutStays
  <1> QED
    BY <1>8, <1>9, <1>10, <1>11, <1>13, <1>14, <1>15, <1>16
    DEF Next, UserStep, AppStep

\* A queued notification stays queued until the flush takes it up.
LEMMA PendingStep ==
  ASSUME [Next]_vars, NEW e \in pending_notifications,
         e \notin pending_notifications'
  PROVE  ApplyNotify(e)
  <1>1. ASSUME NEW g \in Entities, NotifyEntity(g) PROVE FALSE
    BY Zenon, <1>1 DEF NotifyEntity, PushNotify
  <1>2. ASSUME NEW g \in Entities, ApplyNotify(g) PROVE g = e
    BY Zenon, <1>2 DEF ApplyNotify, ClearPending
  <1>3. ASSUME StartUpdate \/ BareCall \/ Defer
               \/ (\E g \in Entities : Observe(g) \/ DropLastHandle(g))
               \/ (\E jd \in observers!SubscriberIds : DropSubscription(jd))
               \/ Shutdown \/ UNCHANGED vars
        PROVE  FALSE
    BY Zenon, <1>3 DEF StartUpdate, BareCall, Defer, Observe, DropLastHandle,
                DropSubscription, Shutdown, vars, queueVars
  <1>4. ASSUME FinishUpdate \/ BareReturn \/ CallbackReturn \/ QuitObserversReturn
               \/ (\E keep \in BOOLEAN : ObserverReturn(keep))
               \/ TakeDropped \/ ReleaseDone \/ ApplyDefer
               \/ (\E g \in Entities : ReleaseEntity(g))
               \/ (\E jd \in observers!SubscriberIds :
                     ApplyActivation(jd) \/ PassVisit(jd))
               \/ PassCall \/ PassEnd \/ FlushEnd
        PROVE  FALSE
    BY Zenon, <1>4 DEF FinishUpdate, BareReturn, CallbackReturn, QuitObserversReturn,
                ObserverReturn, TakeDropped, ReleaseDone, ApplyDefer,
                ReleaseEntity, ApplyActivation, PassVisit, PassCall, PassEnd,
                FlushEnd, queueVars
  <1> QED
    BY ZenonT(60), <1>1, <1>2, <1>3, <1>4 DEF Next, UserStep, AppStep

\* No observer comes back that the registry had forgotten.
NobodyBack ==
  \A id \in observers!Issued : id \in observers!Stored' => id \in observers!Stored

\* Every step keeps the debts covered.
LEMMA NextToldInv ==
  ASSUME RegistryInv, ShutdownBelow, FlushInv, LifeOK, OwedInv, ToldInv,
         [Next]_vars, RegistryInv', NobodyBack
  PROVE  ToldInv'
  <1> SUFFICES ASSUME ~ shut', NEW id, id \in observers!Stored',
                      <<id, TRUE>> \in owed', life'[key'[id]] = "referenced"
               PROVE  key'[id] \in pending_notifications' \/ StillDue(id)'
    BY Zenon DEF ToldInv
  <1>1. ~ shut
    BY Zenon, ShutStays
  <1>2. CASE <<id, TRUE>> \notin owed
    <2>1. PICK e \in Entities : NotifyEntity(e) /\ id \in ObserversOf(e)
      BY Zenon, <1>2, OwedStep
    <2> QED
      BY Zenon, <2>1 DEF NotifyEntity, PushNotify, ObserversOf, obsVars
  <1>3. CASE <<id, TRUE>> \in owed
    <2>1. id \in observers!Issued /\ id \in active
      BY Zenon, <1>3 DEF OwedInv
    <2>2. id \in observers!Stored /\ key'[id] = key[id]
      BY Zenon, <2>1, IdsStay DEF NobodyBack
    <2>3. key[id] \in Entities
      BY Zenon, <2>2, WithItsEntity
    <2>4. life[key[id]] = "referenced"
      BY Zenon, <2>2, <2>3, LifeStep
    <2>5. CASE StillDue(id)
      BY Zenon, <1>1, <2>1, <2>4, <2>5, DueStep
    <2>6. CASE key[id] \in pending_notifications /\ ~ ApplyNotify(key[id])
      BY Zenon, <2>2, <2>6, PendingStep
    <2>7. CASE ApplyNotify(key[id])
      <3>1. FlushAt("pop")
        BY Zenon, <2>7 DEF ApplyNotify
      <3>2. frames = << >>
        BY Zenon, <1>1, <3>1, FlushPlace
      <3>3. id \in held[key[id]] /\ slot[key[id]] = "some"
        BY Zenon, <2>2, <3>2, WithItsEntity
      <3>4. PICK f : f.rest = held[key[id]] /\ frames' = Append(frames, f)
        BY Zenon, <2>7, <3>3 DEF ApplyNotify, observers!RetainBegin
      <3>5. frames' # << >> /\ frames'[Len(frames')] = f
        BY <3>2, <3>4
      <3> QED
        BY Zenon, <3>3, <3>4, <3>5 DEF StillDue, observers!Top
    <2> QED
      BY ZenonT(60), <1>1, <1>3, <2>2, <2>4, <2>5, <2>6, <2>7 DEF ToldInv
  <1> QED
    BY Zenon, <1>2, <1>3

----------------------------------------------------------------------------
\* The theorems about every use of a SubscriberSet, for the one of the App.
proofs == INSTANCE SubscriberSetProofs WITH
  EmitterKeys <- Entities, RemoveInPass <- TRUE

\* The two instances of SubscriberSet are the same state machine.
LEMMA SameRegistry ==
  /\ proofs!SubscriberSetAssumption
  /\ observers!Init => proofs!Init
  /\ [observers!Next]_observers!vars => [proofs!Next]_proofs!vars
  <1>1. proofs!SubscriberSetAssumption
    BY AppAssumption DEF proofs!SubscriberSetAssumption
  <1>2. observers!Init => proofs!Init
    BY DEF
      observers!Init, proofs!Init, observers!SubscriberIds,
      proofs!SubscriberIds, observers!None, proofs!None
  <1>3. [observers!Next]_observers!vars => [proofs!Next]_proofs!vars
    BY Zenon DEF
      observers!SubscriberIds, proofs!SubscriberIds, observers!None,
      proofs!None, observers!Top, proofs!Top, observers!Depth, proofs!Depth,
      observers!InPass, proofs!InPass, observers!UserCodeRuns,
      proofs!UserCodeRuns, observers!Issued, proofs!Issued, observers!SetTop,
      proofs!SetTop, observers!PopFrame, proofs!PopFrame, observers!FreshId,
      proofs!FreshId, observers!Insert, proofs!Insert, observers!Activate,
      proofs!Activate, observers!Unsubscribe, proofs!Unsubscribe,
      observers!DropSubscription, proofs!DropSubscription, observers!Detach,
      proofs!Detach, observers!Remove, proofs!Remove, observers!TakeMap,
      proofs!TakeMap, observers!RetainBegin, proofs!RetainBegin,
      observers!RetainVisit, proofs!RetainVisit, observers!RetainReturn,
      proofs!RetainReturn, observers!Restored, proofs!Restored,
      observers!PutBack, proofs!PutBack, observers!RetainEnd, proofs!RetainEnd,
      observers!Next, proofs!Next, observers!vars, proofs!vars,
      observers!mapVars, proofs!mapVars
  <1> QED
    BY <1>1, <1>2, <1>3

\* The properties of the two instances are the same.
LEMMA SameProperties ==
  /\ proofs!TypeOK <=> observers!TypeOK
  /\ proofs!NoStuckEmitter <=> observers!NoStuckEmitter
  /\ proofs!OnePlace <=> observers!OnePlace
  /\ proofs!Stored = observers!Stored
  /\ proofs!Issued = observers!Issued
  <1>1. /\ proofs!SubscriberIds = observers!SubscriberIds
        /\ proofs!None = observers!None /\ proofs!Depth = observers!Depth
        /\ \A f : proofs!FrameIds(f) = observers!FrameIds(f)
    BY Zenon DEF observers!SubscriberIds, proofs!SubscriberIds, observers!None,
           proofs!None, observers!Depth, proofs!Depth, observers!FrameIds,
           proofs!FrameIds
  <1>2. proofs!Frame = observers!Frame /\ proofs!Issued = observers!Issued
    BY <1>1 DEF observers!Frame, proofs!Frame, observers!Issued, proofs!Issued
  <1>3. proofs!InFrames = observers!InFrames
    <2>1. \A i \in proofs!Depth :
            proofs!FrameIds(frames[i]) = observers!FrameIds(frames[i])
      BY <1>1
    <2> QED
      BY <1>1, <2>1, ZenonT(60) DEF observers!InFrames, proofs!InFrames
  <1>4. proofs!Stored = observers!Stored
    BY <1>3 DEF observers!Stored, proofs!Stored
  <1>5. proofs!TypeOK <=> observers!TypeOK
    BY <1>1, <1>2 DEF observers!TypeOK, proofs!TypeOK
  <1>6. proofs!NoStuckEmitter <=> observers!NoStuckEmitter
    BY Zenon DEF observers!NoStuckEmitter, proofs!NoStuckEmitter
  <1>7. proofs!OnePlace <=> observers!OnePlace
    BY ZenonT(60), <1>1, <1>3 DEF observers!OnePlace, proofs!OnePlace
  <1> QED
    BY ZenonT(60), <1>2, <1>4, <1>5, <1>6, <1>7

\* Every theorem about the registry holds of the App's.
LEMMA RegistryHolds == Spec => []RegistryInv
  <1>1. observers!Spec => proofs!Spec
    BY SameRegistry, PTL DEF observers!Spec, proofs!Spec
  <1>2. proofs!TypeOK /\ proofs!NoStuckEmitter /\ proofs!OnePlace
        /\ (proofs!Stored \subseteq proofs!Issued) => RegistryInv
    BY Zenon, SameProperties DEF RegistryInv
  <1> QED
    BY Zenon, <1>1, <1>2, SameRegistry, RegistryIsRefined, proofs!TypeCorrect,
       proofs!NeverStuck, proofs!InOnePlace, proofs!KnownIsIssued, PTL

\* In the App no entity is left with a taken map that no pass puts back, and no
\* observer is in two places, however calls nest.
THEOREM RegistryIsSound == Spec => []RegistrySurvivesShutdown
  <1>1. RegistryInv => RegistrySurvivesShutdown
    BY Zenon DEF RegistryInv, RegistrySurvivesShutdown
  <1> QED
    BY <1>1, RegistryHolds, PTL

\* An observer the registry knows is in a map or in a pass.
LEMMA KnownIsSomewhere == \A x : x \in proofs!Stored <=> proofs!Somewhere(x)
  BY SameRegistry, proofs!StoredIsSomewhere

\* A step of the App brings no observer back that the registry had forgotten.
LEMMA StoredStays ==
  ASSUME RegistryInv, [Next]_vars
  PROVE  NobodyBack
  <1> SUFFICES ASSUME NEW id \in observers!Issued, id \in observers!Stored'
               PROVE  id \in observers!Stored
    BY Zenon DEF NobodyBack
  <1>1. [proofs!Next]_proofs!vars
    BY ZenonT(60), RegistryStep, SameRegistry DEF obsVars, observers!vars
  <1>2. proofs!TypeOK /\ id \in proofs!Issued
    BY SameProperties DEF RegistryInv
  <1>3. ~ proofs!Somewhere(id) => ~ proofs!Somewhere(id)'
    BY ZenonT(60), <1>1, <1>2, SameRegistry, proofs!NobodyReturns
  <1>4. (proofs!Stored = observers!Stored)'
    BY SameProperties, PTL
  <1>5. (\A x : x \in proofs!Stored <=> proofs!Somewhere(x))'
    BY KnownIsSomewhere, PTL
  <1> QED
    BY <1>3, <1>4, <1>5, KnownIsSomewhere, SameProperties

\* The state of the stack and of the registry, in every state.
LEMMA StackHolds == Spec => [](ShutdownBelow /\ RegistryInv /\ FlushInv)
  <1>1. Init => ShutdownBelow
    BY DEF Init, ShutdownBelow
  <1> QED
    BY <1>1, InitFlushInv, NextShutdownBelow, NextFlushInv, RegistryHolds, PTL
    DEF Spec

\* However updates, callbacks and passes nest, outside shutdown one flush runs
\* at a time: no pass starts inside a pass and no entity is released inside one.
THEOREM FlushIsExclusive == Spec => []FlushNotReentered
  <1>1. ShutdownBelow /\ FlushInv => FlushNotReentered
    <2> SUFFICES ASSUME ShutdownBelow, FlushInv, ~ shut
                 PROVE  /\ Len(frames) <= 1
                        /\ \A i, j \in Records("flush") : i = j
                        /\ FlushAt("release") => frames = << >>
      BY Zenon DEF FlushNotReentered
    <2>1. \A i, j \in Records("flush") : i = j
      BY Zenon DEF FlushInv, Shape, Records
    <2>3. FlushAt("release") => frames = << >>
      BY ZenonT(60), FlushPlace
    <2> QED
      BY ZenonT(60), <2>1, <2>3 DEF FlushInv
  <1> QED
    BY <1>1, StackHolds, PTL

\* The life of the entities in every state.
LEMMA LivesHold == Spec => [](LifeOK /\ ReleasedInv)
  <1>1. Init => LifeOK /\ ReleasedInv
    BY SMTT(30) DEF Init, observers!Init, LifeOK, ReleasedInv
  <1>2. LifeOK /\ [Next]_vars => LifeOK'
    BY ZenonT(60), LifeStep
  <1> QED
    BY <1>1, <1>2, NextReleasedInv, StackHolds, PTL DEF Spec

\* Outside shutdown no order of drops, passes and releases leaves an observer
\* of a released entity in the registry.
THEOREM ReleaseForgetsObservers == Spec => []ReleasedHasNoObservers
  <1>1. ReleasedInv => ReleasedHasNoObservers
    BY Zenon DEF ReleasedInv, ReleasedHasNoObservers
  <1> QED
    BY <1>1, LivesHold, PTL

\* Outside shutdown, and however notifications, registrations, cancellations
\* and passes nest, an observer that was active when its entity called notify
\* has been called when the effects are flushed.
THEOREM ObserversAreTold == Spec => []ActiveObserverTold
  <1>1. Init => OwedInv /\ ToldInv
    BY Zenon DEF Init, OwedInv, ToldInv
  <1>2. /\ QueueInv /\ RegistryInv /\ ShutdownBelow /\ FlushInv /\ ToldInv
        => ActiveObserverTold
    <2> SUFFICES ASSUME QueueInv, RegistryInv, ShutdownBelow, FlushInv, ToldInv,
                        Quiescent, ~ shut, pending_effects = << >>,
                        NEW id \in observers!Stored,
                        life[key[id]] = "referenced", <<id, TRUE>> \in owed
                 PROVE  FALSE
      BY ZenonT(60) DEF ActiveObserverTold
    <2>1. frames = << >>
      BY DEF Quiescent, FlushInv, Shape
    <2>2. key[id] \in pending_notifications
      BY ZenonT(60), <2>1 DEF ToldInv, StillDue
    <2>3. Notify(key[id]) \in QueuedEffects(pending_effects)
      BY ZenonT(60), <2>2, WithItsEntity DEF QueueInv
    <2> QED
      BY <2>3 DEF QueuedEffects
  <1> QED
    BY <1>1, <1>2, InitQueueInv, NextQueueInv, StackHolds, LivesHold, NextOwedInv,
       StoredStays, NextToldInv, PTL
    DEF Spec
=============================================================================
