------------------------ MODULE SubscriberSetProofs ------------------------
(***************************************************************************)
(* What SubscriberSet guarantees for every set of keys, every number of    *)
(* subscribers and every nesting of passes.                                *)
(***************************************************************************)
EXTENDS SubscriberSet, SequenceTheorems, TLAPS

\* Replacing the top frame keeps the stack a sequence of frames and touches
\* no other frame.
LEMMA SetTopFrames ==
  ASSUME frames \in Seq(Frame), frames # << >>, NEW f \in Frame, SetTop(f)
  PROVE  /\ frames' \in Seq(Frame)
         /\ Len(frames') = Len(frames)
         /\ frames'[Len(frames)] = f
         /\ \A i \in 1 .. Len(frames) - 1 : frames'[i] = frames[i]
  BY DEF SetTop

\* Popping the top frame keeps the frames below it.
LEMMA PopFrames ==
  ASSUME frames \in Seq(Frame), frames # << >>, PopFrame
  PROVE  /\ frames' \in Seq(Frame)
         /\ Len(frames') = Len(frames) - 1
         /\ \A i \in 1 .. Len(frames) - 1 : frames'[i] = frames[i]
  <1>1. Len(frames) \in Nat \ {0} /\ \A i \in 1 .. Len(frames) : frames[i] \in Frame
    OBVIOUS
  <1> DEFINE n == Len(frames) - 1
  <1>2. n \in Nat /\ \A i \in 1 .. n : frames[i] \in Frame
    BY <1>1
  <1> HIDE DEF n
  <1>3. /\ SubSeq(frames, 1, n) \in Seq(Frame)
        /\ Len(SubSeq(frames, 1, n)) = IF 1 <= n THEN n - 1 + 1 ELSE 0
        /\ \A i \in 1 .. n - 1 + 1 : SubSeq(frames, 1, n)[i] = frames[1 + i - 1]
    BY <1>2, SubSeqProperties
  <1>4. /\ SubSeq(frames, 1, n) \in Seq(Frame)
        /\ Len(SubSeq(frames, 1, n)) = n
        /\ \A i \in 1 .. n : SubSeq(frames, 1, n)[i] = frames[i]
    BY <1>2, <1>3
  <1> QED
    BY Zenon, <1>4 DEF PopFrame, n

\* The top of a non-empty stack is a frame.
LEMMA TopIsFrame ==
  ASSUME frames \in Seq(Frame), frames # << >>
  PROVE  /\ Top \in Frame
         /\ Len(frames) \in Nat \ {0}
  BY DEF Top

\* A new pass is pushed above the frames that are there.
LEMMA PushFrames ==
  ASSUME frames \in Seq(Frame), NEW f \in Frame, frames' = Append(frames, f)
  PROVE  /\ frames' \in Seq(Frame)
         /\ Len(frames') = Len(frames) + 1
         /\ frames'[Len(frames')] = f
         /\ \A i \in 1 .. Len(frames) : frames'[i] = frames[i]
  OBVIOUS

\* The registry starts with the shape of its Rust types.
LEMMA InitTypeOK == Init => TypeOK
  BY SubscriberSetAssumption DEF Init, TypeOK, SubscriberIds, None

\* Every step keeps the shape.
LEMMA NextTypeOK == TypeOK /\ [Next]_vars => TypeOK'
  <1> SUFFICES ASSUME TypeOK, [Next]_vars PROVE TypeOK'
    BY Zenon
  <1> USE SubscriberSetAssumption
  <1>1. ASSUME NEW e \in EmitterKeys, Insert(e) PROVE TypeOK'
    BY <1>1 DEF Insert, FreshId, TypeOK, SubscriberIds
  <1>2. ASSUME NEW e \in EmitterKeys, Remove(e) PROVE TypeOK'
    BY Zenon, <1>2 DEF Remove, TypeOK
  <1>3. ASSUME NEW e \in EmitterKeys, RetainBegin(e) PROVE TypeOK'
    <2> DEFINE f == [ emitter |-> e, rest |-> held[e], kept |-> {},
                      calling |-> None ]
    <2>1. f \in Frame
      BY Zenon DEF TypeOK, Frame
    <2>2. frames' \in Seq(Frame)
      BY Zenon, <1>3, <2>1, PushFrames DEF RetainBegin, TypeOK
    <2> QED
      BY Zenon, <1>3, <2>2 DEF RetainBegin, TakeMap, TypeOK
  <1>4. ASSUME NEW id \in SubscriberIds, Activate(id) PROVE TypeOK'
    BY Zenon, <1>4 DEF Activate, mapVars, TypeOK
  <1>5. ASSUME NEW id \in SubscriberIds, DropSubscription(id) PROVE TypeOK'
    <2>1. key[id] \in EmitterKeys
      BY Zenon, <1>5 DEF DropSubscription, TypeOK
    <2>2. /\ slot' \in [EmitterKeys -> {"vacant", "taken", "some"}]
          /\ held' \in [EmitterKeys -> SUBSET SubscriberIds]
          /\ \A e \in EmitterKeys : slot'[e] # "some" => held'[e] = {}
          /\ dropped_subscribers' \subseteq EmitterKeys \X SubscriberIds
      <3>1. CASE slot[key[id]] = "some"
        <4>1. /\ held' = [held EXCEPT ![key[id]] = @ \ {id}]
              /\ slot' = [slot EXCEPT ![key[id]] =
                            IF held[key[id]] \subseteq {id}
                              THEN "vacant" ELSE "some"]
              /\ UNCHANGED dropped_subscribers
          BY Zenon, <1>5, <3>1 DEF DropSubscription, Unsubscribe
        <4> QED
          BY Zenon, <2>1, <3>1, <4>1 DEF TypeOK
      <3>2. CASE slot[key[id]] = "taken"
        <4>1. /\ dropped_subscribers' = dropped_subscribers \cup {<<key[id], id>>}
              /\ UNCHANGED mapVars
          BY Zenon, <1>5, <3>2 DEF DropSubscription, Unsubscribe
        <4>2. <<key[id], id>> \in EmitterKeys \X SubscriberIds
          BY Zenon, <2>1
        <4> QED
          BY Zenon, <4>1, <4>2 DEF mapVars, TypeOK
      <3>3. CASE slot[key[id]] = "vacant"
        BY Zenon, <1>5, <2>1, <3>3 DEF DropSubscription, Unsubscribe, mapVars, TypeOK
      <3> QED
        BY Zenon, <2>1, <3>1, <3>2, <3>3 DEF TypeOK
    <2> QED
      BY Zenon, <1>5, <2>1, <2>2 DEF DropSubscription, TypeOK
  <1>6. ASSUME NEW id \in SubscriberIds, Detach(id) PROVE TypeOK'
    BY Zenon, <1>6 DEF Detach, mapVars, TypeOK
  <1>7. ASSUME NEW id \in SubscriberIds, RetainVisit(id) PROVE TypeOK'
    <2>1. frames' \in Seq(Frame)
      BY Zenon, <1>7, TopIsFrame, SetTopFrames DEF RetainVisit, TypeOK, Frame
    <2> QED
      BY Zenon, <1>7, <2>1 DEF RetainVisit, mapVars, TypeOK
  <1>8. ASSUME NEW keep \in BOOLEAN, RetainReturn(keep) PROVE TypeOK'
    <2>1. Top \in Frame /\ Top.calling \in SubscriberIds
      BY Zenon, <1>8, TopIsFrame DEF RetainReturn, TypeOK, Frame
    <2> DEFINE f == [Top EXCEPT !.calling = None,
                       !.kept = IF keep THEN @ \cup {Top.calling} ELSE @]
    <2>2. f \in Frame
      BY Zenon, <2>1 DEF Frame
    <2>3. frames' \in Seq(Frame)
      BY Zenon, <1>8, <2>2, SetTopFrames DEF RetainReturn, TypeOK
    <2> QED
      BY Zenon, <1>8, <2>1, <2>3 DEF RetainReturn, mapVars, TypeOK
  <1>9. ASSUME RetainEnd PROVE TypeOK'
    <2>1. frames' \in Seq(Frame)
      BY Zenon, <1>9, PopFrames DEF RetainEnd, TypeOK
    <2>2. Top \in Frame
      BY Zenon, <1>9, TopIsFrame DEF RetainEnd, TypeOK
    <2> QED
      BY Zenon, <1>9, <2>1, <2>2
      DEF RetainEnd, PutBack, Restored, TypeOK, Frame
  <1>10. CASE UNCHANGED vars
    BY Zenon, <1>10 DEF vars, TypeOK
  <1> QED
    BY Zenon, <1>1, <1>2, <1>3, <1>4, <1>5, <1>6, <1>7, <1>8, <1>9, <1>10 DEF Next

\* The registry keeps the shape of its Rust types forever.
THEOREM TypeCorrect == Spec => []TypeOK
  <1> QED
    BY InitTypeOK, NextTypeOK, PTL DEF Spec

----------------------------------------------------------------------------
\* The strengthening of NoStuckEmitter: a taken key has a pass of its own on
\* the stack, and marks exist only while a pass runs.
TakenHasPass ==
  /\ \A e \in EmitterKeys : slot[e] = "taken" => InPass(e)
  /\ dropped_subscribers # {} => frames # << >>

\* Passes nest: when the pass on top ends, the passes of the other taken keys
\* are below it.
LEMMA NextTakenHasPass == TypeOK /\ TakenHasPass /\ [Next]_vars => TakenHasPass'
  <1> SUFFICES ASSUME TypeOK, TakenHasPass, [Next]_vars PROVE TakenHasPass'
    BY Zenon
  <1> USE DEF InPass, Depth
  <1>1. ASSUME NEW e \in EmitterKeys, Insert(e) PROVE TakenHasPass'
    BY Zenon, <1>1 DEF Insert, TakenHasPass, TypeOK
  <1>2. ASSUME NEW e \in EmitterKeys, Remove(e) PROVE TakenHasPass'
    BY Zenon, <1>2 DEF Remove, TakenHasPass, TypeOK
  <1>3. ASSUME NEW e \in EmitterKeys, RetainBegin(e) PROVE TakenHasPass'
    <2> DEFINE f == [ emitter |-> e, rest |-> held[e], kept |-> {},
                      calling |-> None ]
    <2>1. f \in Frame /\ f.emitter = e
      BY Zenon DEF TypeOK, Frame
    <2>2. /\ Len(frames) \in Nat /\ Len(frames') = Len(frames) + 1
          /\ frames'[Len(frames')].emitter = e
          /\ \A i \in 1 .. Len(frames) : frames'[i] = frames[i]
      BY <1>3, <2>1, PushFrames DEF RetainBegin, TypeOK
    <2>3. frames' # << >>
      BY <2>2
    <2> QED
      BY <1>3, <2>2, <2>3 DEF RetainBegin, TakeMap, TakenHasPass, TypeOK
  <1>4. ASSUME NEW id \in SubscriberIds, Activate(id) PROVE TakenHasPass'
    BY Zenon, <1>4 DEF Activate, mapVars, TakenHasPass
  <1>5. ASSUME NEW id \in SubscriberIds, DropSubscription(id) PROVE TakenHasPass'
    <2>1. key[id] \in EmitterKeys /\ frames' = frames
      BY Zenon, <1>5 DEF DropSubscription, TypeOK
    <2>2. CASE slot[key[id]] = "taken"
      <3>1. frames # << >>
        BY <2>1, <2>2 DEF TakenHasPass
      <3> QED
        BY Zenon, <1>5, <2>1, <2>2, <3>1
        DEF DropSubscription, Unsubscribe, mapVars, TakenHasPass
    <2>3. CASE slot[key[id]] # "taken"
      BY ZenonT(60), <1>5, <2>1, <2>3
      DEF DropSubscription, Unsubscribe, mapVars, TakenHasPass, TypeOK
    <2> QED
      BY Zenon, <2>2, <2>3
  <1>6. ASSUME NEW id \in SubscriberIds, Detach(id) PROVE TakenHasPass'
    BY Zenon, <1>6 DEF Detach, mapVars, TakenHasPass
  <1>7. ASSUME NEW f \in Frame, frames # << >>, SetTop(f),
               f.emitter = Top.emitter, UNCHANGED << mapVars, dropped_subscribers >>
        PROVE  TakenHasPass'
    <2>1. /\ Len(frames) \in Nat \ {0} /\ Len(frames') = Len(frames)
          /\ \A i \in 1 .. Len(frames) : frames'[i].emitter = frames[i].emitter
      BY <1>7, SetTopFrames, TopIsFrame DEF TypeOK, Top
    <2>2. frames' # << >>
      BY Zenon, <2>1
    <2> QED
      BY Zenon, <1>7, <2>1, <2>2 DEF mapVars, TakenHasPass
  <1>8. ASSUME NEW id \in SubscriberIds, RetainVisit(id) PROVE TakenHasPass'
    BY Zenon, <1>7, <1>8, TopIsFrame DEF RetainVisit, TypeOK, Frame
  <1>9. ASSUME NEW keep \in BOOLEAN, RetainReturn(keep) PROVE TakenHasPass'
    <2>1. Top \in Frame /\ Top.calling \in SubscriberIds
      BY Zenon, <1>9, TopIsFrame DEF RetainReturn, TypeOK, Frame
    <2> DEFINE f == [Top EXCEPT !.calling = None,
                       !.kept = IF keep THEN @ \cup {Top.calling} ELSE @]
    <2>2. f \in Frame /\ f.emitter = Top.emitter
      BY Zenon, <2>1 DEF Frame
    <2> QED
      BY Zenon, <1>7, <1>9, <2>2 DEF RetainReturn
  <1>10. ASSUME RetainEnd PROVE TakenHasPass'
    <2>1. /\ Top \in Frame /\ Len(frames) \in Nat \ {0}
          /\ Len(frames') = Len(frames) - 1
          /\ \A i \in 1 .. Len(frames) - 1 : frames'[i] = frames[i]
      BY Zenon, <1>10, PopFrames, TopIsFrame DEF RetainEnd, TypeOK
    <2>2. ASSUME NEW e \in EmitterKeys, slot'[e] = "taken" PROVE InPass(e)'
      <3>1. e # Top.emitter /\ slot[e] = "taken"
        BY Zenon, <1>10, <2>1, <2>2 DEF RetainEnd, PutBack, TypeOK, Frame
      <3>2. PICK i \in 1 .. Len(frames) : frames[i].emitter = e
        BY Zenon, <3>1 DEF TakenHasPass
      <3>3. i # Len(frames)
        BY Zenon, <3>1, <3>2 DEF Top
      <3> QED
        BY <2>1, <3>2, <3>3
    <2> QED
      BY Zenon, <1>10, <2>2 DEF RetainEnd, TakenHasPass
  <1>11. CASE UNCHANGED vars
    BY Zenon, <1>11 DEF vars, TakenHasPass
  <1> QED
    BY Zenon, <1>1, <1>2, <1>3, <1>4, <1>5, <1>6, <1>8, <1>9, <1>10, <1>11 DEF Next

\* Whatever callbacks do during a pass, an emitter is never left taken and no
\* mark is left behind once `retain` has returned.
THEOREM NeverStuck == Spec => []NoStuckEmitter
  <1>1. Init => TakenHasPass
    BY Zenon DEF Init, TakenHasPass
  <1>2. TypeOK /\ TakenHasPass => NoStuckEmitter
    BY DEF TypeOK, TakenHasPass, NoStuckEmitter, InPass, Depth
  <1> QED
    BY <1>1, <1>2, InitTypeOK, NextTypeOK, NextTakenHasPass, PTL DEF Spec

----------------------------------------------------------------------------
\* The strengthening of OnePlace: a subscriber that the registry knows has been
\* inserted, so a new id is in no place yet.
Placed ==
  /\ \A e \in EmitterKeys : \A id \in held[e] :
       /\ key[id] = e /\ id < next_subscriber_id
       /\ \A i \in Depth : id \notin FrameIds(frames[i])
  /\ \A i \in Depth : \A id \in FrameIds(frames[i]) :
       /\ key[id] = frames[i].emitter /\ id < next_subscriber_id
       /\ \A j \in Depth \ {i} : id \notin FrameIds(frames[j])

\* The ids of a frame are subscriber ids.
LEMMA FrameIdsType ==
  ASSUME TypeOK, NEW i \in Depth
  PROVE  frames[i] \in Frame /\ FrameIds(frames[i]) \subseteq SubscriberIds
  <1>1. frames[i] \in Frame
    BY DEF TypeOK, Depth
  <1> QED
    BY Zenon, <1>1 DEF Frame, FrameIds

\* A step that only takes subscribers away from where they are, and inserts
\* nobody, keeps them in one place.
LEMMA ShrinkKeepsPlaced ==
  ASSUME Placed, TypeOK, key' = key, next_subscriber_id' = next_subscriber_id,
         \A e \in EmitterKeys : held'[e] \subseteq held[e],
         Len(frames') = Len(frames),
         \A i \in Depth : /\ frames'[i].emitter = frames[i].emitter
                          /\ FrameIds(frames'[i]) \subseteq FrameIds(frames[i])
  PROVE  Placed'
  <1>1. Depth' = Depth
    BY Zenon DEF Depth
  <1>2. ASSUME NEW e \in EmitterKeys, NEW id \in held'[e]
        PROVE  /\ key'[id] = e /\ id < next_subscriber_id'
               /\ \A i \in Depth : id \notin FrameIds(frames'[i])
    BY Zenon, <1>2 DEF Placed
  <1>3. ASSUME NEW i \in Depth, NEW id \in FrameIds(frames'[i])
        PROVE  /\ key'[id] = frames'[i].emitter /\ id < next_subscriber_id'
               /\ \A j \in Depth \ {i} : id \notin FrameIds(frames'[j])
    BY Zenon, <1>3 DEF Placed
  <1>4. /\ \A e \in EmitterKeys : \A id \in held'[e] :
             /\ key'[id] = e /\ id < next_subscriber_id'
             /\ \A i \in Depth' : id \notin FrameIds(frames'[i])
        /\ \A i \in Depth' : \A id \in FrameIds(frames'[i]) :
             /\ key'[id] = frames'[i].emitter /\ id < next_subscriber_id'
             /\ \A j \in Depth' \ {i} : id \notin FrameIds(frames'[j])
    BY <1>1, <1>2, <1>3
  <1> QED
    BY Zenon, <1>4 DEF Placed, FrameIds

\* Whatever state the key is in, a drop takes that subscriber, and no other,
\* out of the map of the key.
LEMMA DropTakesOneAway ==
  ASSUME TypeOK, NEW id \in SubscriberIds, DropSubscription(id)
  PROVE  /\ key[id] \in EmitterKeys
         /\ held' = [held EXCEPT ![key[id]] = @ \ {id}]
  <1>1. key[id] \in EmitterKeys
    BY Zenon DEF DropSubscription, TypeOK
  <1>2. CASE slot[key[id]] = "some"
    BY Zenon, <1>1, <1>2 DEF DropSubscription, Unsubscribe
  <1>3. CASE slot[key[id]] # "some"
    <2>1. held' = held
      <3>1. CASE slot[key[id]] = "taken"
        BY Zenon, <3>1 DEF DropSubscription, Unsubscribe, mapVars
      <3>2. CASE slot[key[id]] = "vacant"
        BY Zenon, <3>2 DEF DropSubscription, Unsubscribe, mapVars
      <3> QED
        BY Zenon, <1>1, <1>3, <3>1, <3>2 DEF TypeOK
    <2>2. held[key[id]] \ {id} = held[key[id]]
      BY Zenon, <1>1, <1>3 DEF TypeOK
    <2> QED
      BY Zenon, <1>1, <2>1, <2>2 DEF TypeOK
  <1> QED
    BY Zenon, <1>1, <1>2, <1>3

\* Insert uses a new id, retain moves a whole map into its frame and back, and
\* nothing else moves a subscriber.
LEMMA NextPlaced == TypeOK /\ TypeOK' /\ Placed /\ [Next]_vars => Placed'
  <1> SUFFICES ASSUME TypeOK, TypeOK', Placed, [Next]_vars PROVE Placed'
    BY Zenon
  <1>1. ASSUME NEW e \in EmitterKeys, Insert(e) PROVE Placed'
    <2>1. /\ frames' = frames /\ next_subscriber_id' = next_subscriber_id + 1
          /\ next_subscriber_id \in SubscriberIds
          /\ held' = [held EXCEPT ![e] = @ \cup {next_subscriber_id}]
          /\ key' = [key EXCEPT ![next_subscriber_id] = e]
      BY Zenon, <1>1, SubscriberSetAssumption
      DEF Insert, FreshId, TypeOK, SubscriberIds
    <2>2. \A i \in Depth : next_subscriber_id \notin FrameIds(frames[i])
      BY <2>1 DEF Placed, SubscriberIds
    <2>3. \A i \in Depth : FrameIds(frames[i]) \subseteq SubscriberIds
      BY Zenon, FrameIdsType
    <2>4. ASSUME NEW k \in EmitterKeys, NEW id \in held'[k]
          PROVE  /\ key'[id] = k /\ id < next_subscriber_id'
                 /\ \A i \in Depth : id \notin FrameIds(frames[i])
      <3>1. CASE id = next_subscriber_id /\ k = e
        BY <2>1, <2>2, <3>1 DEF TypeOK, SubscriberIds
      <3>2. CASE id \in held[k]
        <4>1. /\ key[id] = k /\ id < next_subscriber_id /\ id \in SubscriberIds
              /\ \A i \in Depth : id \notin FrameIds(frames[i])
          BY Zenon, <3>2 DEF Placed, TypeOK
        <4> QED
          BY <2>1, <4>1 DEF TypeOK, SubscriberIds
      <3>3. \/ id = next_subscriber_id /\ k = e
            \/ id \in held[k]
        <4>1. CASE k = e
          BY <2>1, <2>4, <4>1 DEF TypeOK
        <4>2. CASE k # e
          BY <2>1, <2>4, <4>2 DEF TypeOK
        <4> QED
          BY Zenon, <4>1, <4>2
      <3> QED
        BY Zenon, <3>1, <3>2, <3>3
    <2>5. ASSUME NEW i \in Depth, NEW id \in FrameIds(frames[i])
          PROVE  /\ key'[id] = frames[i].emitter /\ id < next_subscriber_id'
                 /\ \A j \in Depth \ {i} : id \notin FrameIds(frames[j])
      <3>1. /\ key[id] = frames[i].emitter /\ id < next_subscriber_id
            /\ id \in SubscriberIds
            /\ \A j \in Depth \ {i} : id \notin FrameIds(frames[j])
        BY Zenon, <2>3, <2>5 DEF Placed
      <3> QED
        BY <2>1, <3>1 DEF TypeOK, SubscriberIds
    <2> QED
      BY <2>1, <2>4, <2>5 DEF Placed, Depth
  <1>2. ASSUME frames' = frames, key' = key,
               next_subscriber_id' = next_subscriber_id,
               \A e \in EmitterKeys : held'[e] \subseteq held[e]
        PROVE  Placed'
    BY Zenon, <1>2, ShrinkKeepsPlaced
  <1>3. ASSUME NEW e \in EmitterKeys, Remove(e) PROVE Placed'
    BY Zenon, <1>2, <1>3 DEF Remove, TypeOK
  <1>4. ASSUME NEW id \in SubscriberIds, Activate(id) \/ Detach(id) PROVE Placed'
    BY Zenon, <1>2, <1>4 DEF Activate, Detach, mapVars
  <1>5. ASSUME NEW id \in SubscriberIds, DropSubscription(id) PROVE Placed'
    <2>1. key[id] \in EmitterKeys
      BY Zenon, <1>5 DEF DropSubscription, TypeOK
    <2>2. \A e \in EmitterKeys : held'[e] \subseteq held[e]
      BY <1>5, <2>1, DropTakesOneAway DEF TypeOK
    <2> QED
      BY Zenon, <1>2, <1>5, <2>2 DEF DropSubscription
  <1>6. ASSUME NEW f \in Frame, frames # << >>, SetTop(f),
               f.emitter = Top.emitter, FrameIds(f) \subseteq FrameIds(Top),
               UNCHANGED << held, key, next_subscriber_id >>
        PROVE  Placed'
    <2>1. /\ Len(frames) \in Nat \ {0} /\ Len(frames') = Len(frames)
          /\ frames'[Len(frames)] = f
          /\ \A i \in 1 .. Len(frames) - 1 : frames'[i] = frames[i]
      BY Zenon, <1>6, SetTopFrames, TopIsFrame DEF TypeOK
    <2>2. ASSUME NEW i \in Depth
          PROVE  /\ frames'[i].emitter = frames[i].emitter
                 /\ FrameIds(frames'[i]) \subseteq FrameIds(frames[i])
      <3>1. CASE i = Len(frames)
        BY Zenon, <1>6, <2>1, <3>1 DEF Top
      <3>2. CASE i # Len(frames)
        BY <2>1, <3>2 DEF Depth
      <3> QED
        BY Zenon, <3>1, <3>2
    <2> QED
      BY Zenon, <1>6, <2>1, <2>2, ShrinkKeepsPlaced
  <1>7. ASSUME NEW id \in SubscriberIds, RetainVisit(id) PROVE Placed'
    <2>1. Top \in Frame
      BY Zenon, <1>7, TopIsFrame DEF RetainVisit, TypeOK
    <2>2. CASE SetTop([Top EXCEPT !.rest = @ \ {id}, !.calling = id])
      BY Zenon, <1>6, <1>7, <2>1, <2>2 DEF RetainVisit, mapVars, Frame, FrameIds
    <2>3. CASE SetTop([Top EXCEPT !.rest = @ \ {id}, !.kept = @ \cup {id}])
      BY Zenon, <1>6, <1>7, <2>1, <2>3 DEF RetainVisit, mapVars, Frame, FrameIds
    <2> QED
      BY Zenon, <1>7, <2>2, <2>3 DEF RetainVisit
  <1>8. ASSUME NEW keep \in BOOLEAN, RetainReturn(keep) PROVE Placed'
    <2>1. Top \in Frame /\ Top.calling \in SubscriberIds
      BY Zenon, <1>8, TopIsFrame DEF RetainReturn, TypeOK, Frame
    <2> DEFINE f == [Top EXCEPT !.calling = None,
                       !.kept = IF keep THEN @ \cup {Top.calling} ELSE @]
    <2>2. /\ f \in Frame /\ f.emitter = Top.emitter
          /\ FrameIds(f) \subseteq FrameIds(Top)
      BY Zenon, <1>8, <2>1 DEF RetainReturn, Frame, FrameIds
    <2> QED
      BY Zenon, <1>6, <1>8, <2>2 DEF RetainReturn, mapVars
  <1>9. ASSUME NEW e \in EmitterKeys, RetainBegin(e) PROVE Placed'
    <2> DEFINE f == [ emitter |-> e, rest |-> held[e], kept |-> {},
                      calling |-> None ]
               n == Len(frames)
    <2>1. f \in Frame /\ f.emitter = e /\ FrameIds(f) = held[e]
      BY Zenon DEF TypeOK, Frame, FrameIds
    <2>2. /\ n \in Nat /\ Len(frames') = n + 1 /\ frames'[n + 1] = f
          /\ \A i \in 1 .. n : frames'[i] = frames[i]
      BY <1>9, <2>1, PushFrames DEF RetainBegin, TypeOK
    <2> HIDE DEF f, n
    <2>3. /\ Depth = 1 .. n /\ Depth' = 1 .. n + 1
      BY Zenon, <2>2 DEF Depth, n
    <2>4. /\ key' = key /\ next_subscriber_id' = next_subscriber_id
          /\ held' = [held EXCEPT ![e] = {}]
      BY Zenon, <1>9 DEF RetainBegin, TakeMap
    <2>5. /\ FrameIds(frames'[n + 1]) = held[e] /\ frames'[n + 1].emitter = e
          /\ \A i \in 1 .. n : FrameIds(frames'[i]) = FrameIds(frames[i])
      BY Zenon, <2>1, <2>2
    <2>6. ASSUME NEW k \in EmitterKeys, NEW id \in held'[k]
          PROVE  /\ key'[id] = k /\ id < next_subscriber_id'
                 /\ \A i \in Depth' : id \notin FrameIds(frames'[i])
      <3>1. k # e /\ id \in held[k]
        BY Zenon, <2>4, <2>6 DEF TypeOK
      <3>2. /\ key[id] = k /\ id < next_subscriber_id
            /\ \A i \in 1 .. n : id \notin FrameIds(frames[i])
        BY Zenon, <2>3, <3>1 DEF Placed
      <3>3. id \notin held[e]
        BY Zenon, <3>1, <3>2 DEF Placed
      <3> QED
        BY <2>2, <2>3, <2>4, <2>5, <3>2, <3>3
    <2>7. ASSUME NEW i \in Depth', NEW id \in FrameIds(frames'[i])
          PROVE  /\ key'[id] = frames'[i].emitter /\ id < next_subscriber_id'
                 /\ \A j \in Depth' \ {i} : id \notin FrameIds(frames'[j])
      <3>1. CASE i = n + 1
        <4>1. id \in held[e]
          BY Zenon, <2>5, <2>7, <3>1
        <4>2. /\ key[id] = e /\ id < next_subscriber_id
              /\ \A j \in 1 .. n : id \notin FrameIds(frames[j])
          BY Zenon, <2>3, <4>1 DEF Placed
        <4> QED
          BY <2>2, <2>3, <2>4, <2>5, <3>1, <4>2
      <3>2. CASE i \in 1 .. n
        <4>1. id \in FrameIds(frames[i])
          BY Zenon, <2>5, <2>7, <3>2
        <4>2. /\ key[id] = frames[i].emitter /\ id < next_subscriber_id
              /\ \A j \in (1 .. n) \ {i} : id \notin FrameIds(frames[j])
              /\ id \notin held[e]
          BY Zenon, <2>3, <3>2, <4>1 DEF Placed
        <4> QED
          BY <2>2, <2>3, <2>4, <2>5, <3>2, <4>2
      <3> QED
        BY <2>2, <2>3, <2>7, <3>1, <3>2
    <2> QED
      BY Zenon, <2>6, <2>7 DEF Placed, FrameIds
  <1>10. ASSUME RetainEnd PROVE Placed'
    <2> DEFINE n == Len(frames)
               back == Restored(Top)
    <2>1. /\ Top \in Frame /\ n \in Nat \ {0} /\ Len(frames') = n - 1
          /\ \A i \in 1 .. n - 1 : frames'[i] = frames[i]
      BY Zenon, <1>10, PopFrames, TopIsFrame DEF RetainEnd, TypeOK
    <2>2. Depth = 1 .. n /\ Depth' = 1 .. n - 1 /\ n \in Depth /\ frames[n] = Top
      BY <2>1 DEF Depth, Top
    <2>3. /\ key' = key /\ next_subscriber_id' = next_subscriber_id
          /\ held' = [held EXCEPT ![Top.emitter] = back]
      BY Zenon, <1>10 DEF RetainEnd, PutBack
    <2>4. back \subseteq FrameIds(Top) \cup held[Top.emitter]
      BY Zenon DEF Restored, FrameIds
    <2> HIDE DEF n, back
    <2>5. ASSUME NEW k \in EmitterKeys, NEW id \in held'[k]
          PROVE  /\ key'[id] = k /\ id < next_subscriber_id'
                 /\ \A i \in Depth' : id \notin FrameIds(frames'[i])
      <3>1. id \in held[k] \/ (k = Top.emitter /\ id \in FrameIds(frames[n]))
        BY <2>1, <2>2, <2>3, <2>4, <2>5 DEF TypeOK, Frame
      <3>2. /\ key[id] = k /\ id < next_subscriber_id
            /\ \A i \in 1 .. n - 1 : id \notin FrameIds(frames[i])
        <4>1. CASE id \in held[k]
          BY <2>1, <2>2, <4>1 DEF Placed
        <4>2. CASE k = Top.emitter /\ id \in FrameIds(frames[n])
          <5>1. 1 .. n - 1 \subseteq Depth \ {n}
            BY <2>1, <2>2
          <5> QED
            BY Zenon, <2>2, <4>2, <5>1 DEF Placed
        <4> QED
          BY Zenon, <3>1, <4>1, <4>2
      <3> QED
        BY Zenon, <2>1, <2>2, <2>3, <3>2
    <2>6. ASSUME NEW i \in Depth', NEW id \in FrameIds(frames'[i])
          PROVE  /\ key'[id] = frames'[i].emitter /\ id < next_subscriber_id'
                 /\ \A j \in Depth' \ {i} : id \notin FrameIds(frames'[j])
      <3>1. i \in Depth /\ frames'[i] = frames[i] /\ id \in FrameIds(frames[i])
        BY <2>1, <2>2, <2>6
      <3>2. /\ key[id] = frames[i].emitter /\ id < next_subscriber_id
            /\ \A j \in Depth \ {i} : id \notin FrameIds(frames[j])
        BY Zenon, <3>1 DEF Placed
      <3> QED
        BY <2>1, <2>2, <2>3, <3>1, <3>2
    <2> QED
      BY Zenon, <2>5, <2>6 DEF Placed, FrameIds
  <1>11. CASE UNCHANGED vars
    BY Zenon, <1>2, <1>11 DEF vars
  <1> QED
    BY Zenon, <1>1, <1>3, <1>4, <1>5, <1>7, <1>8, <1>9, <1>10, <1>11 DEF Next

\* Every reachable registry has its subscribers in one place.
LEMMA StaysPlaced == Spec => []Placed
  <1>1. Init => Placed
    BY DEF Init, Placed, Depth
  <1> QED
    BY <1>1, InitTypeOK, NextTypeOK, NextPlaced, PTL DEF Spec

\* No subscriber is ever in two maps, in a map and in a running pass, or in two
\* passes, however callbacks re-enter the registry: no FnMut is called while
\* it is running.
THEOREM InOnePlace == Spec => []OnePlace
  <1>1. Placed => OnePlace
    BY DEF Placed, OnePlace, InFrames
  <1> QED
    BY <1>1, StaysPlaced, PTL

----------------------------------------------------------------------------
Somewhere(id) ==
  \/ \E e \in EmitterKeys : id \in held[e]
  \/ \E i \in Depth : id \in FrameIds(frames[i])

\* Somewhere says the same as membership in Stored.
LEMMA StoredIsSomewhere == \A id : id \in Stored <=> Somewhere(id)
  <1> SUFFICES ASSUME NEW id PROVE id \in Stored <=> Somewhere(id)
    BY Zenon
  <1>1. id \in InFrames <=> \E i \in Depth : id \in FrameIds(frames[i])
    BY Zenon DEF InFrames
  <1>2. id \in UNION { held[e] : e \in EmitterKeys }
          <=> \E e \in EmitterKeys : id \in held[e]
    BY Zenon
  <1> QED
    BY <1>1, <1>2, Zenon DEF Stored, Somewhere

\* The registry knows only subscribers that were inserted.
LEMMA KnownIsIssued == Spec => [](Stored \subseteq Issued)
  <1>1. ASSUME TypeOK, Placed, NEW id \in Stored PROVE id \in Issued
    <2>1. Somewhere(id)
      BY Zenon, StoredIsSomewhere
    <2>2. CASE \E e \in EmitterKeys : id \in held[e]
      BY Zenon, <1>1, <2>2 DEF Placed, TypeOK, Issued
    <2>3. CASE \E i \in Depth : id \in FrameIds(frames[i])
      <3>1. PICK i \in Depth : id \in FrameIds(frames[i])
        BY Zenon, <2>3
      <3> QED
        BY Zenon, <1>1, <3>1, FrameIdsType DEF Placed, Issued
    <2> QED
      BY Zenon, <2>1, <2>2, <2>3 DEF Somewhere
  <1>2. TypeOK /\ Placed => Stored \subseteq Issued
    BY Zenon, <1>1
  <1> QED
    BY <1>2, TypeCorrect, StaysPlaced, PTL

\* The strengthening of NoLostSubscriber: marks only name dropped subscriptions,
\* so the end of a pass forgets nobody else, and only an inserted subscriber
\* has a handle, so a new one is not marked.
Remembered ==
  /\ \A id \in SubscriberIds :
       id < next_subscriber_id /\ handle[id] # "dropped" /\ id \notin ended
         => Somewhere(id)
  /\ \A mark \in dropped_subscribers : handle[mark[2]] = "dropped"
  /\ \A id \in SubscriberIds : handle[id] # "none" => id < next_subscriber_id

\* A step that leaves handles, marks and ids alone, and puts every subscriber
\* that it does not retire somewhere, forgets nobody.
LEMMA MoveKeepsRemembered ==
  ASSUME Remembered, handle' = handle, dropped_subscribers' \subseteq dropped_subscribers,
         next_subscriber_id' = next_subscriber_id, ended \subseteq ended',
         \A id \in SubscriberIds :
           Somewhere(id) /\ handle[id] # "dropped" /\ id \notin ended'
             => Somewhere(id)'
  PROVE  Remembered'
  <1>1. ASSUME NEW id \in SubscriberIds, id < next_subscriber_id',
               handle'[id] # "dropped", id \notin ended'
        PROVE  Somewhere(id)'
    <2>1. Somewhere(id)
      BY Zenon, <1>1 DEF Remembered
    <2> QED
      BY Zenon, <1>1, <2>1
  <1>2. \A mark \in dropped_subscribers' : handle'[mark[2]] = "dropped"
    BY Zenon DEF Remembered
  <1> QED
    BY Zenon, <1>1, <1>2 DEF Remembered

\* The ids in the frames stay where they are unless the top frame changes, and
\* then only what the new top does not hold can go.
LEMMA TopKeepsSomewhere ==
  ASSUME TypeOK, frames # << >>, NEW f \in Frame, SetTop(f), held' = held,
         NEW id, Somewhere(id), id \in FrameIds(Top) => id \in FrameIds(f)
  PROVE  Somewhere(id)'
  <1>1. /\ Len(frames) \in Nat \ {0} /\ Len(frames') = Len(frames)
        /\ frames'[Len(frames)] = f
        /\ \A i \in 1 .. Len(frames) - 1 : frames'[i] = frames[i]
    BY Zenon, SetTopFrames, TopIsFrame DEF TypeOK
  <1>2. Depth' = Depth /\ Len(frames) \in Depth
    BY <1>1 DEF Depth
  <1>3. CASE \E e \in EmitterKeys : id \in held[e]
    BY Zenon, <1>3 DEF Somewhere
  <1>4. ASSUME NEW i \in Depth, id \in FrameIds(frames[i])
        PROVE  Somewhere(id)'
    <2>1. id \in FrameIds(frames'[i])
      <3>1. CASE i = Len(frames)
        BY Zenon, <1>1, <1>4, <3>1 DEF Top
      <3>2. CASE i # Len(frames)
        BY <1>1, <1>4, <3>2 DEF Depth
      <3> QED
        BY Zenon, <3>1, <3>2
    <2> QED
      BY Zenon, <1>2, <2>1 DEF Somewhere, FrameIds
  <1> QED
    BY Zenon, <1>3, <1>4 DEF Somewhere

\* Taking the map, calling, putting it back, and inserting under a key whose map
\* is taken lose nobody.
LEMMA NextRemembered == TypeOK /\ Remembered /\ [Next]_vars => Remembered'
  <1> SUFFICES ASSUME TypeOK, Remembered, [Next]_vars PROVE Remembered'
    BY Zenon
  <1>1. ASSUME NEW e \in EmitterKeys, Insert(e) PROVE Remembered'
    <2>1. /\ frames' = frames /\ next_subscriber_id' = next_subscriber_id + 1
          /\ next_subscriber_id \in SubscriberIds
          /\ held' = [held EXCEPT ![e] = @ \cup {next_subscriber_id}]
          /\ handle' = [handle EXCEPT ![next_subscriber_id] = "live"]
          /\ UNCHANGED << dropped_subscribers, ended >>
      BY <1>1, SubscriberSetAssumption
      DEF Insert, FreshId, TypeOK, SubscriberIds
    <2>2. \A id : Somewhere(id) => Somewhere(id)'
      BY Zenon, <2>1 DEF Somewhere, Depth, TypeOK
    <2>3. next_subscriber_id \in held'[e]
      BY Zenon, <2>1 DEF TypeOK
    <2>4. ASSUME NEW id \in SubscriberIds, id < next_subscriber_id',
                 handle'[id] # "dropped", id \notin ended'
          PROVE  Somewhere(id)'
      <3>1. CASE id = next_subscriber_id
        BY Zenon, <2>3, <3>1 DEF Somewhere
      <3>2. CASE id # next_subscriber_id
        <4>1. id < next_subscriber_id /\ handle'[id] = handle[id]
          BY <2>1, <2>4, <3>2 DEF TypeOK, SubscriberIds
        <4> QED
          BY Zenon, <2>1, <2>2, <2>4, <4>1 DEF Remembered
      <3> QED
        BY Zenon, <3>1, <3>2
    <2>5. ASSUME NEW mark \in dropped_subscribers
          PROVE  handle'[mark[2]] = "dropped"
      <3>1. mark[2] \in SubscriberIds /\ handle[mark[2]] = "dropped"
        BY Zenon, <2>5 DEF Remembered, TypeOK
      <3>2. mark[2] < next_subscriber_id
        BY Zenon, <3>1 DEF Remembered
      <3> QED
        BY <2>1, <3>1, <3>2 DEF TypeOK, SubscriberIds
    <2>6. \A id \in SubscriberIds :
            handle'[id] # "none" => id < next_subscriber_id'
      BY <2>1 DEF Remembered, TypeOK, SubscriberIds
    <2> QED
      BY Zenon, <2>1, <2>4, <2>5, <2>6 DEF Remembered
  <1>2. ASSUME NEW e \in EmitterKeys, Remove(e) PROVE Remembered'
    <2>1. \A id \in SubscriberIds :
            Somewhere(id) /\ id \notin ended' => Somewhere(id)'
      BY Zenon, <1>2 DEF Remove, Somewhere, Depth, TypeOK
    <2> QED
      BY Zenon, <1>2, <2>1, MoveKeepsRemembered DEF Remove
  <1>3. ASSUME NEW id \in SubscriberIds, Activate(id) PROVE Remembered'
    BY Zenon, <1>3 DEF Activate, mapVars, Remembered, Somewhere, Depth
  <1>4. ASSUME NEW id \in SubscriberIds, Detach(id) PROVE Remembered'
    BY Zenon, <1>4 DEF Detach, mapVars, Remembered, Somewhere, Depth, TypeOK
  <1>5. ASSUME NEW id \in SubscriberIds, DropSubscription(id) PROVE Remembered'
    <2>1. /\ handle' = [handle EXCEPT ![id] = "dropped"]
          /\ key[id] \in EmitterKeys
          /\ held' = [held EXCEPT ![key[id]] = @ \ {id}]
          /\ UNCHANGED << frames, ended, next_subscriber_id >>
      BY Zenon, <1>5, DropTakesOneAway DEF DropSubscription
    <2>2. \A other : other # id /\ Somewhere(other) => Somewhere(other)'
      BY Zenon, <2>1 DEF Somewhere, Depth, TypeOK
    <2>3. \A mark \in dropped_subscribers' : handle'[mark[2]] = "dropped"
      <3>1. dropped_subscribers' \subseteq dropped_subscribers \cup {<<key[id], id>>}
        BY Zenon, <1>5, <2>1 DEF DropSubscription, Unsubscribe, TypeOK
      <3>2. \A mark \in dropped_subscribers : mark[2] \in SubscriberIds
        BY Zenon DEF TypeOK
      <3> QED
        BY <2>1, <3>1, <3>2 DEF Remembered, TypeOK
    <2>4. ASSUME NEW other \in SubscriberIds, other < next_subscriber_id',
                 handle'[other] # "dropped", other \notin ended'
          PROVE  Somewhere(other)'
      <3>1. other # id /\ handle[other] # "dropped"
        BY Zenon, <2>1, <2>4 DEF TypeOK
      <3> QED
        BY Zenon, <2>1, <2>2, <2>4, <3>1 DEF Remembered
    <2>5. \A other \in SubscriberIds :
            handle'[other] # "none" => other < next_subscriber_id'
      BY <1>5, <2>1 DEF DropSubscription, Remembered, TypeOK
    <2> QED
      BY Zenon, <2>3, <2>4, <2>5 DEF Remembered
  <1>6. ASSUME NEW id \in SubscriberIds, RetainVisit(id) PROVE Remembered'
    <2>1. Top \in Frame
      BY Zenon, <1>6, TopIsFrame DEF RetainVisit, TypeOK
    <2>2. ASSUME NEW f \in Frame, SetTop(f), FrameIds(Top) \subseteq FrameIds(f)
          PROVE  Remembered'
      BY Zenon, <1>6, <2>2, TopKeepsSomewhere, MoveKeepsRemembered
      DEF RetainVisit, mapVars
    <2>3. CASE SetTop([Top EXCEPT !.rest = @ \ {id}, !.calling = id])
      <3> DEFINE f == [Top EXCEPT !.rest = @ \ {id}, !.calling = id]
      <3>1. f \in Frame
        BY Zenon, <2>1 DEF Frame
      <3>2. id # None
        BY SubscriberSetAssumption DEF SubscriberIds, None
      <3>3. FrameIds(Top) \subseteq FrameIds(f)
        BY Zenon, <1>6, <2>1, <3>2 DEF RetainVisit, Frame, FrameIds
      <3> QED
        BY Zenon, <2>2, <2>3, <3>1, <3>3
    <2>4. CASE SetTop([Top EXCEPT !.rest = @ \ {id}, !.kept = @ \cup {id}])
      BY Zenon, <1>6, <2>1, <2>2, <2>4 DEF RetainVisit, Frame, FrameIds
    <2> QED
      BY Zenon, <1>6, <2>3, <2>4 DEF RetainVisit
  <1>7. ASSUME NEW keep \in BOOLEAN, RetainReturn(keep) PROVE Remembered'
    <2>1. Top \in Frame /\ Top.calling \in SubscriberIds
      BY Zenon, <1>7, TopIsFrame DEF RetainReturn, TypeOK, Frame
    <2> DEFINE f == [Top EXCEPT !.calling = None,
                       !.kept = IF keep THEN @ \cup {Top.calling} ELSE @]
    <2>2. f \in Frame /\ ended \subseteq ended'
      BY Zenon, <1>7, <2>1 DEF RetainReturn, Frame
    <2>3. \A id : id \in FrameIds(Top) /\ id \notin ended' => id \in FrameIds(f)
      BY Zenon, <1>7, <2>1 DEF RetainReturn, Frame, FrameIds
    <2> HIDE DEF f
    <2>4. SetTop(f)
      BY Zenon, <1>7 DEF RetainReturn, f
    <2> QED
      BY Zenon, <1>7, <2>2, <2>3, <2>4, TopKeepsSomewhere, MoveKeepsRemembered
      DEF RetainReturn, mapVars
  <1>8. ASSUME NEW e \in EmitterKeys, RetainBegin(e) PROVE Remembered'
    <2> DEFINE f == [ emitter |-> e, rest |-> held[e], kept |-> {},
                      calling |-> None ]
               n == Len(frames)
    <2>1. f \in Frame /\ FrameIds(f) = held[e]
      BY Zenon DEF TypeOK, Frame, FrameIds
    <2>2. /\ n \in Nat /\ Len(frames') = n + 1 /\ frames'[n + 1] = f
          /\ \A i \in 1 .. n : frames'[i] = frames[i]
      BY <1>8, <2>1, PushFrames DEF RetainBegin, TypeOK
    <2>3. held' = [held EXCEPT ![e] = {}]
      BY Zenon, <1>8 DEF RetainBegin, TakeMap
    <2> HIDE DEF f
    <2>4. ASSUME NEW id, Somewhere(id) PROVE Somewhere(id)'
      <3>1. CASE id \in held[e]
        <4>1. n + 1 \in Depth' /\ id \in FrameIds(frames'[n + 1])
          BY <2>1, <2>2, <3>1 DEF Depth
        <4> QED
          BY Zenon, <4>1 DEF Somewhere, FrameIds
      <3>2. ASSUME NEW k \in EmitterKeys, id \in held[k], k # e
            PROVE  Somewhere(id)'
        BY Zenon, <2>3, <3>2 DEF Somewhere, TypeOK
      <3>3. ASSUME NEW i \in Depth, id \in FrameIds(frames[i])
            PROVE  Somewhere(id)'
        <4>1. i \in Depth' /\ id \in FrameIds(frames'[i])
          BY <2>2, <3>3 DEF Depth
        <4> QED
          BY Zenon, <4>1 DEF Somewhere, FrameIds
      <3> QED
        BY Zenon, <2>4, <3>1, <3>2, <3>3 DEF Somewhere
    <2> QED
      BY Zenon, <1>8, <2>4, MoveKeepsRemembered DEF RetainBegin
  <1>9. ASSUME RetainEnd PROVE Remembered'
    <2> DEFINE n == Len(frames)
               back == Restored(Top)
    <2>1. /\ Top \in Frame /\ n \in Nat \ {0} /\ Len(frames') = n - 1
          /\ \A i \in 1 .. n - 1 : frames'[i] = frames[i]
      BY Zenon, <1>9, PopFrames, TopIsFrame DEF RetainEnd, TypeOK
    <2>2. /\ held' = [held EXCEPT ![Top.emitter] = back]
          /\ Top.emitter \in EmitterKeys /\ FrameIds(Top) = Top.kept
      BY Zenon, <1>9, <2>1 DEF RetainEnd, PutBack, Frame, FrameIds
    <2>3. \A id \in FrameIds(Top) \cup held[Top.emitter] :
            handle[id] # "dropped" => id \in back
      BY Zenon, <2>2 DEF Restored, Remembered
    <2> HIDE DEF back
    <2>4. ASSUME NEW id \in SubscriberIds, Somewhere(id), handle[id] # "dropped"
          PROVE  Somewhere(id)'
      <3>1. CASE id \in FrameIds(Top) \cup held[Top.emitter]
        BY Zenon, <2>2, <2>3, <2>4, <3>1 DEF Somewhere, TypeOK
      <3>2. ASSUME NEW k \in EmitterKeys, id \in held[k], k # Top.emitter
            PROVE  Somewhere(id)'
        BY Zenon, <2>2, <3>2 DEF Somewhere, TypeOK
      <3>3. ASSUME NEW i \in Depth, id \in FrameIds(frames[i]), i # n
            PROVE  Somewhere(id)'
        <4>1. i \in Depth' /\ id \in FrameIds(frames'[i])
          BY <2>1, <3>3 DEF Depth
        <4> QED
          BY Zenon, <4>1 DEF Somewhere, FrameIds
      <3> QED
        BY Zenon, <2>4, <3>1, <3>2, <3>3 DEF Somewhere, Top
    <2> QED
      BY Zenon, <1>9, <2>4, MoveKeepsRemembered DEF RetainEnd
  <1>10. CASE UNCHANGED vars
    BY Zenon, <1>10 DEF vars, Remembered, Somewhere, Depth
  <1> QED
    BY Zenon, <1>1, <1>2, <1>3, <1>4, <1>5, <1>6, <1>7, <1>8, <1>9, <1>10 DEF Next

\* Whatever callbacks do, a subscriber that nobody dropped, removed or ended by
\* returning false stays registered.
THEOREM NobodyIsLost == Spec => []NoLostSubscriber
  <1>1. Init => Remembered
    BY DEF Init, Remembered, SubscriberIds
  <1>2. Remembered => NoLostSubscriber
    BY Zenon, StoredIsSomewhere DEF Remembered, NoLostSubscriber, Issued
  <1> QED
    BY <1>1, <1>2, InitTypeOK, NextTypeOK, NextRemembered, PTL DEF Spec

----------------------------------------------------------------------------
\* A step puts a subscriber that was nowhere somewhere only by inserting it.
LEMMA NobodyReturns ==
  ASSUME TypeOK, [Next]_vars, NEW id \in Issued, ~ Somewhere(id)
  PROVE  ~ Somewhere(id)'
  <1>0. id \in SubscriberIds /\ id < next_subscriber_id
    BY Zenon DEF Issued
  <1>1. /\ \A e \in EmitterKeys : id \notin held[e]
        /\ \A i \in Depth : id \notin FrameIds(frames[i])
    BY Zenon DEF Somewhere
  <1>2. ASSUME frames' = frames, \A e \in EmitterKeys : id \notin held'[e]
        PROVE  ~ Somewhere(id)'
    BY Zenon, <1>1, <1>2 DEF Somewhere, Depth
  <1>3. ASSUME NEW e \in EmitterKeys, Insert(e) PROVE ~ Somewhere(id)'
    <2>1. id # FreshId
      BY <1>0 DEF FreshId, TypeOK, SubscriberIds
    <2> QED
      BY Zenon, <1>1, <1>2, <1>3, <2>1 DEF Insert, TypeOK
  <1>4. ASSUME NEW e \in EmitterKeys, Remove(e) PROVE ~ Somewhere(id)'
    BY Zenon, <1>1, <1>2, <1>4 DEF Remove, TypeOK
  <1>5. ASSUME NEW other \in SubscriberIds, Activate(other) \/ Detach(other)
        PROVE  ~ Somewhere(id)'
    BY Zenon, <1>1, <1>2, <1>5 DEF Activate, Detach, mapVars
  <1>6. ASSUME NEW other \in SubscriberIds, DropSubscription(other)
        PROVE  ~ Somewhere(id)'
    <2>1. /\ key[other] \in EmitterKeys /\ frames' = frames
          /\ held' = [held EXCEPT ![key[other]] = @ \ {other}]
      BY Zenon, <1>6, DropTakesOneAway DEF DropSubscription
    <2>2. \A e \in EmitterKeys : held'[e] \subseteq held[e]
      BY Zenon, <2>1 DEF TypeOK
    <2> QED
      BY Zenon, <1>1, <1>2, <2>1, <2>2
  <1>7. ASSUME NEW f \in Frame, frames # << >>, SetTop(f), held' = held,
               FrameIds(f) \subseteq FrameIds(Top)
        PROVE  ~ Somewhere(id)'
    <2>1. /\ Len(frames) \in Nat \ {0} /\ Len(frames') = Len(frames)
          /\ frames'[Len(frames)] = f
          /\ \A i \in 1 .. Len(frames) - 1 : frames'[i] = frames[i]
      BY Zenon, <1>7, SetTopFrames, TopIsFrame DEF TypeOK
    <2>2. Depth' = Depth /\ Len(frames) \in Depth
      BY <2>1 DEF Depth
    <2>3. id \notin FrameIds(f)
      BY Zenon, <1>1, <1>7, <2>2 DEF Top
    <2>4. ASSUME NEW i \in Depth PROVE id \notin FrameIds(frames'[i])
      <3>1. CASE i = Len(frames)
        BY Zenon, <2>1, <2>3, <3>1
      <3>2. CASE i # Len(frames)
        BY <1>1, <2>1, <3>2 DEF Depth
      <3> QED
        BY Zenon, <3>1, <3>2
    <2> QED
      BY Zenon, <1>1, <1>7, <2>2, <2>4 DEF Somewhere, FrameIds
  <1>8. ASSUME NEW other \in SubscriberIds, RetainVisit(other)
        PROVE  ~ Somewhere(id)'
    <2>1. Top \in Frame
      BY Zenon, <1>8, TopIsFrame DEF RetainVisit, TypeOK
    <2>2. CASE SetTop([Top EXCEPT !.rest = @ \ {other}, !.calling = other])
      BY Zenon, <1>7, <1>8, <2>1, <2>2 DEF RetainVisit, mapVars, Frame, FrameIds
    <2>3. CASE SetTop([Top EXCEPT !.rest = @ \ {other}, !.kept = @ \cup {other}])
      BY Zenon, <1>7, <1>8, <2>1, <2>3 DEF RetainVisit, mapVars, Frame, FrameIds
    <2> QED
      BY Zenon, <1>8, <2>2, <2>3 DEF RetainVisit
  <1>9. ASSUME NEW keep \in BOOLEAN, RetainReturn(keep) PROVE ~ Somewhere(id)'
    <2>1. Top \in Frame /\ Top.calling \in SubscriberIds
      BY Zenon, <1>9, TopIsFrame DEF RetainReturn, TypeOK, Frame
    <2> DEFINE f == [Top EXCEPT !.calling = None,
                       !.kept = IF keep THEN @ \cup {Top.calling} ELSE @]
    <2>2. f \in Frame /\ FrameIds(f) \subseteq FrameIds(Top)
      BY Zenon, <1>9, <2>1 DEF RetainReturn, Frame, FrameIds
    <2> QED
      BY Zenon, <1>7, <1>9, <2>2 DEF RetainReturn, mapVars
  <1>10. ASSUME NEW e \in EmitterKeys, RetainBegin(e) PROVE ~ Somewhere(id)'
    <2> DEFINE f == [ emitter |-> e, rest |-> held[e], kept |-> {},
                      calling |-> None ]
               n == Len(frames)
    <2>1. f \in Frame /\ FrameIds(f) = held[e]
      BY Zenon DEF TypeOK, Frame, FrameIds
    <2>2. /\ n \in Nat /\ Len(frames') = n + 1 /\ frames'[n + 1] = f
          /\ \A i \in 1 .. n : frames'[i] = frames[i]
      BY <1>10, <2>1, PushFrames DEF RetainBegin, TypeOK
    <2> HIDE DEF f
    <2>3. \A i \in Depth' : id \notin FrameIds(frames'[i])
      BY <1>1, <2>1, <2>2 DEF Depth
    <2>4. \A k \in EmitterKeys : id \notin held'[k]
      BY Zenon, <1>1, <1>10 DEF RetainBegin, TakeMap, TypeOK
    <2> QED
      BY Zenon, <2>3, <2>4 DEF Somewhere, FrameIds
  <1>11. ASSUME RetainEnd PROVE ~ Somewhere(id)'
    <2> DEFINE n == Len(frames)
    <2>1. /\ Top \in Frame /\ n \in Nat \ {0} /\ Len(frames') = n - 1
          /\ \A i \in 1 .. n - 1 : frames'[i] = frames[i]
      BY Zenon, <1>11, PopFrames, TopIsFrame DEF RetainEnd, TypeOK
    <2>2. id \notin FrameIds(Top) /\ Top.emitter \in EmitterKeys
      BY <1>1, <2>1 DEF Depth, Top, Frame
    <2>3. id \notin Restored(Top)
      BY Zenon, <1>1, <2>2 DEF Restored, FrameIds
    <2>4. \A k \in EmitterKeys : id \notin held'[k]
      BY Zenon, <1>1, <1>11, <2>2, <2>3 DEF RetainEnd, PutBack, TypeOK
    <2>5. \A i \in Depth' : id \notin FrameIds(frames'[i])
      BY SMTT(30), <1>1, <2>1 DEF Depth
    <2> QED
      BY Zenon, <2>4, <2>5 DEF Somewhere, FrameIds
  <1>12. CASE UNCHANGED vars
    BY Zenon, <1>1, <1>2, <1>12 DEF vars
  <1> QED
    BY Zenon, <1>3, <1>4, <1>5, <1>6, <1>8, <1>9, <1>10, <1>11, <1>12 DEF Next

\* DropSubscription takes a subscriber that no pass holds out of the map of its
\* key, which is the only map it is in.
LEMMA CleanDropStep ==
  ASSUME TypeOK, Placed, [Next]_vars, NEW id \in Issued,
         handle'[id] = "dropped", \A i \in Depth : id \notin FrameIds(frames[i]),
         handle[id] = "live" \/ ~ Somewhere(id)
  PROVE  ~ Somewhere(id)'
  <1>1. id \in SubscriberIds /\ id < next_subscriber_id
    BY Zenon DEF Issued
  <1>2. CASE handle[id] = "live"
    <2>1. ASSUME handle'[id] = handle[id] PROVE FALSE
      BY Zenon, <1>2, <2>1
    <2>2. ASSUME NEW other \in SubscriberIds, Activate(other) \/ RetainVisit(other)
          PROVE  FALSE
      BY Zenon, <2>1, <2>2 DEF Activate, RetainVisit
    <2>3. ASSUME NEW e \in EmitterKeys, Remove(e) \/ RetainBegin(e) PROVE FALSE
      BY Zenon, <2>1, <2>3 DEF Remove, RetainBegin
    <2>4. ASSUME NEW keep \in BOOLEAN, RetainReturn(keep) PROVE FALSE
      BY Zenon, <2>1, <2>4 DEF RetainReturn
    <2>5. ASSUME RetainEnd \/ UNCHANGED vars PROVE FALSE
      BY Zenon, <2>1, <2>5 DEF RetainEnd, vars
    <2>6. ASSUME NEW e \in EmitterKeys, Insert(e) PROVE FALSE
      BY Zenon, <1>1, <2>1, <2>6 DEF Insert, FreshId, TypeOK, SubscriberIds
    <2>7. ASSUME NEW other \in SubscriberIds, Detach(other) PROVE FALSE
      BY Zenon, <1>1, <1>2, <2>7 DEF Detach, TypeOK
    <2>8. PICK other \in SubscriberIds : DropSubscription(other)
      BY Zenon, <2>2, <2>3, <2>4, <2>5, <2>6, <2>7 DEF Next
    <2>9. other = id
      BY Zenon, <1>1, <2>1, <2>8 DEF DropSubscription, TypeOK
    <2>10. /\ key[id] \in EmitterKeys /\ frames' = frames
           /\ held' = [held EXCEPT ![key[id]] = @ \ {id}]
      BY Zenon, <2>8, <2>9, DropTakesOneAway DEF DropSubscription
    <2>11. \A e \in EmitterKeys : id \notin held'[e]
      BY Zenon, <2>10 DEF Placed, TypeOK
    <2> QED
      BY Zenon, <2>10, <2>11 DEF Somewhere, Depth
  <1>3. CASE ~ Somewhere(id)
    BY Zenon, <1>3, NobodyReturns
  <1> QED
    BY Zenon, <1>2, <1>3

\* Dropping a subscription that no running pass holds is immediate and final,
\* whichever passes are running over other emitters.
THEOREM CleanDrops == Spec => CleanDropIsFinal
  <1> DEFINE Step == \A id \in Issued :
                       /\ handle'[id] = "dropped"
                       /\ id \notin InFrames
                       /\ handle[id] = "live" \/ id \notin Stored
                       => id \notin Stored'
  <1>1. Init => Placed
    BY DEF Init, Placed, Depth
  <1>2. (\A id : id \in Stored <=> Somewhere(id))'
    BY StoredIsSomewhere, PTL
  <1>3. TypeOK /\ Placed /\ [Next]_vars => [Step]_vars
    <2> SUFFICES ASSUME TypeOK, Placed, [Next]_vars, NEW id \in Issued,
                        handle'[id] = "dropped", id \notin InFrames,
                        handle[id] = "live" \/ id \notin Stored
                 PROVE  id \notin Stored'
      BY Zenon
    <2>1. \A i \in Depth : id \notin FrameIds(frames[i])
      BY Zenon DEF InFrames
    <2>2. handle[id] = "live" \/ ~ Somewhere(id)
      BY Zenon, StoredIsSomewhere
    <2> QED
      BY Zenon, <1>2, <2>1, <2>2, CleanDropStep
  <1> QED
    BY <1>1, <1>3, InitTypeOK, NextTypeOK, NextPlaced, PTL
    DEF Spec, CleanDropIsFinal
=============================================================================
