--------------------------- MODULE SubscriberSet ---------------------------
(***************************************************************************)
(* The subscriber registry behind every observer list of the framework     *)
(* (crates/gpui/src/subscription.rs): entity observers, event listeners,   *)
(* release listeners, global observers, keystroke observers, ...           *)
(*                                                                         *)
(* The registry is single threaded but re-entrant: `retain` takes the map  *)
(* of an emitter out of the registry, runs user callbacks, and puts the    *)
(* map back.  While a callback runs the program may insert, drop, activate *)
(* or remove subscribers and may start further passes.  `frames` is the    *)
(* stack of `retain` calls that are in progress.                           *)
(*                                                                         *)
(* `subscribers: BTreeMap<EmitterKey, Option<BTreeMap<usize, _>>>` is the  *)
(* pair <<slot, held>>: slot[e] tells whether the key is absent            *)
(* ("vacant"), maps to None ("taken") or maps to Some(held[e]) ("some").   *)
(***************************************************************************)
EXTENDS Integers, Sequences, FiniteSets

CONSTANTS
  EmitterKeys,      \* the keys subscribers are registered under
  MaxSubscribers,   \* bound: how many subscribers are ever inserted
  MaxDepth,         \* bound: how many passes may be nested
  RemoveInPass      \* may a callback remove the key being notified?

ASSUME SubscriberSetAssumption ==
  /\ MaxSubscribers \in Nat
  /\ MaxDepth \in Nat
  /\ RemoveInPass \in BOOLEAN

\* Subscriber ids are handed out by post_inc(next_subscriber_id).
SubscriberIds == 0 .. (MaxSubscribers - 1)

None == -1

VARIABLES
  slot,                 \* [EmitterKeys -> {"vacant", "taken", "some"}]
  held,                 \* [EmitterKeys -> SUBSET SubscriberIds]
  dropped_subscribers,  \* marks left by drops during a pass
  next_subscriber_id,
  active,               \* ids whose shared `active` cell is true
  key,                  \* the emitter key each unsubscribe closure captured
  handle,               \* the state of each Subscription handle
  frames,               \* the stack of running `retain` calls
  ended                 \* history: ids retired by `remove` or by returning false

vars == << slot, held, dropped_subscribers, next_subscriber_id, active, key,
           handle, frames, ended >>

mapVars == << slot, held >>

\* One running `retain`: the part of the taken map not visited yet, the part
\* visited and kept, and the subscriber whose callback is on the stack.
Frame == [ emitter : EmitterKeys,
           rest    : SUBSET SubscriberIds,
           kept    : SUBSET SubscriberIds,
           calling : SubscriberIds \cup {None} ]

Top == frames[Len(frames)]
Depth == 1 .. Len(frames)

InPass(e) == \E i \in Depth : frames[i].emitter = e

\* User code runs outside every pass, or inside the callback of the last one.
UserCodeRuns == frames # << >> => Top.calling # None

FrameIds(f) == f.rest \cup f.kept \cup ({f.calling} \ {None})

InFrames == UNION { FrameIds(frames[i]) : i \in Depth }

\* Every subscriber the registry still knows, in the map or in a pass.
Stored == (UNION { held[e] : e \in EmitterKeys }) \cup InFrames

Issued == { id \in SubscriberIds : id < next_subscriber_id }

SetTop(f) == frames' = [frames EXCEPT ![Len(frames)] = f]
PopFrame == frames' = SubSeq(frames, 1, Len(frames) - 1)

----------------------------------------------------------------------------

\* SubscriberSet::new
Init ==
  /\ slot = [e \in EmitterKeys |-> "vacant"]
  /\ held = [e \in EmitterKeys |-> {}]
  /\ dropped_subscribers = {}
  /\ next_subscriber_id = 0
  /\ active = {}
  /\ key = [id \in SubscriberIds |-> None]
  /\ handle = [id \in SubscriberIds |-> "none"]
  /\ frames = << >>
  /\ ended = {}

\* post_inc(&mut next_subscriber_id)
FreshId == next_subscriber_id

\* SubscriberSet::insert.  A taken key gets a fresh map of its own.
Insert(e) ==
  /\ UserCodeRuns
  /\ next_subscriber_id < MaxSubscribers
  /\ LET id == FreshId IN
       /\ next_subscriber_id' = next_subscriber_id + 1
       /\ slot' = [slot EXCEPT ![e] = "some"]
       /\ held' = [held EXCEPT ![e] = @ \cup {id}]
       /\ key' = [key EXCEPT ![id] = e]
       /\ handle' = [handle EXCEPT ![id] = "live"]
  /\ UNCHANGED << dropped_subscribers, active, frames, ended >>

\* The FnOnce returned by insert.  It only sets the shared cell, so it works
\* wherever the subscriber is.
Activate(id) ==
  /\ UserCodeRuns
  /\ id \in Issued \ active
  /\ active' = active \cup {id}
  /\ UNCHANGED << mapVars, dropped_subscribers, next_subscriber_id, key,
                  handle, frames, ended >>

UnsubscribeMarksOnly(id) ==
  /\ dropped_subscribers' = dropped_subscribers \cup {<<key[id], id>>}
  /\ UNCHANGED mapVars

\* The effect of the unsubscribe closure on the registry.
Unsubscribe(id) ==
  LET e == key[id] IN
    CASE slot[e] = "some" ->
           /\ held' = [held EXCEPT ![e] = @ \ {id}]
           /\ slot' = [slot EXCEPT ![e] = IF held[e] \subseteq {id}
                                            THEN "vacant" ELSE "some"]
           /\ UNCHANGED dropped_subscribers
      [] slot[e] = "taken" ->
           /\ dropped_subscribers' = dropped_subscribers \cup {<<e, id>>}
           /\ UNCHANGED mapVars
      [] slot[e] = "vacant" ->
           UNCHANGED << mapVars, dropped_subscribers >>

\* Drop for Subscription.  Subscription::join drops both of its parts, one
\* after the other, which is two of these steps.
DropSubscription(id) ==
  /\ UserCodeRuns
  /\ handle[id] = "live"
  /\ handle' = [handle EXCEPT ![id] = "dropped"]
  /\ Unsubscribe(id)
  /\ UNCHANGED << next_subscriber_id, active, key, frames, ended >>

\* Subscription::detach forgets the unsubscribe closure.
Detach(id) ==
  /\ UserCodeRuns
  /\ handle[id] = "live"
  /\ handle' = [handle EXCEPT ![id] = "detached"]
  /\ UNCHANGED << mapVars, dropped_subscribers, next_subscriber_id, active,
                  key, frames, ended >>

\* SubscriberSet::remove: the map of the key leaves the registry; the caller
\* gets the active callbacks.
Remove(e) ==
  /\ UserCodeRuns
  /\ InPass(e) => RemoveInPass
  /\ slot[e] # "vacant"
  /\ slot' = [slot EXCEPT ![e] = "vacant"]
  /\ held' = [held EXCEPT ![e] = {}]
  /\ ended' = ended \cup held[e]
  /\ UNCHANGED << dropped_subscribers, next_subscriber_id, active, key,
                  handle, frames >>

----------------------------------------------------------------------------
\* SubscriberSet::retain, one step per callback invocation.

\* Option::take on the map of the key.
TakeMap(e) ==
  /\ slot' = [slot EXCEPT ![e] = "taken"]
  /\ held' = [held EXCEPT ![e] = {}]

\* The map is taken; a vacant or taken key returns at once.
RetainBegin(e) ==
  /\ UserCodeRuns
  /\ Len(frames) < MaxDepth
  /\ slot[e] = "some"
  /\ TakeMap(e)
  /\ frames' = Append(frames, [ emitter |-> e, rest |-> held[e],
                                kept |-> {}, calling |-> None ])
  /\ UNCHANGED << dropped_subscribers, next_subscriber_id, active, key,
                  handle, ended >>

\* BTreeMap::retain visits the ids in ascending order: an inactive
\* subscriber is kept, an active one is called.
RetainVisit(id) ==
  /\ frames # << >>
  /\ Top.calling = None
  /\ id \in Top.rest
  /\ \A other \in Top.rest : id <= other
  /\ \/ /\ id \in active
        /\ SetTop([Top EXCEPT !.rest = @ \ {id}, !.calling = id])
     \/ /\ id \notin active
        /\ SetTop([Top EXCEPT !.rest = @ \ {id}, !.kept = @ \cup {id}])
  /\ UNCHANGED << mapVars, dropped_subscribers, next_subscriber_id, active,
                  key, handle, ended >>

\* The callback returns whether to keep the subscriber.
RetainReturn(keep) ==
  /\ frames # << >>
  /\ Top.calling # None
  /\ SetTop([Top EXCEPT !.calling = None,
                        !.kept = IF keep THEN @ \cup {Top.calling} ELSE @])
  /\ ended' = IF keep THEN ended ELSE ended \cup {Top.calling}
  /\ UNCHANGED << mapVars, dropped_subscribers, next_subscriber_id, active,
                  key, handle >>

RestoredWithoutNew(f) ==
  f.kept \ { mark[2] : mark \in dropped_subscribers }

\* What retain puts back: what it kept, what was inserted meanwhile, minus
\* every marked id, whichever emitter the mark names.
Restored(f) ==
  (f.kept \cup held[f.emitter]) \ { mark[2] : mark \in dropped_subscribers }

PutBackNonEmpty(e, back) ==
  IF back = {}
    THEN UNCHANGED mapVars
    ELSE /\ slot' = [slot EXCEPT ![e] = "some"]
         /\ held' = [held EXCEPT ![e] = back]

\* The key is removed, and inserted again unless nothing is left.
PutBack(e, back) ==
  /\ slot' = [slot EXCEPT ![e] = IF back = {} THEN "vacant" ELSE "some"]
  /\ held' = [held EXCEPT ![e] = back]

\* The pass ends; it consumes every mark: mem::take(&mut dropped_subscribers).
RetainEnd ==
  /\ frames # << >>
  /\ Top.calling = None
  /\ Top.rest = {}
  /\ PutBack(Top.emitter, Restored(Top))
  /\ dropped_subscribers' = {}
  /\ PopFrame
  /\ UNCHANGED << next_subscriber_id, active, key, handle, ended >>

----------------------------------------------------------------------------

Next ==
  \/ \E e \in EmitterKeys : Insert(e) \/ Remove(e) \/ RetainBegin(e)
  \/ \E id \in SubscriberIds :
       Activate(id) \/ DropSubscription(id) \/ Detach(id) \/ RetainVisit(id)
  \/ \E keep \in BOOLEAN : RetainReturn(keep)
  \/ RetainEnd

Spec == Init /\ [][Next]_vars

----------------------------------------------------------------------------
\* Every variable has the shape the Rust types give it, and the taken or
\* absent map of a key holds nothing.  A handle knows its key.
TypeOK ==
  /\ slot \in [EmitterKeys -> {"vacant", "taken", "some"}]
  /\ held \in [EmitterKeys -> SUBSET SubscriberIds]
  /\ \A e \in EmitterKeys : slot[e] # "some" => held[e] = {}
  /\ dropped_subscribers \subseteq EmitterKeys \X SubscriberIds
  /\ next_subscriber_id \in 0 .. MaxSubscribers
  /\ active \subseteq SubscriberIds
  /\ key \in [SubscriberIds -> EmitterKeys \cup {None}]
  /\ handle \in [SubscriberIds -> {"none", "live", "dropped", "detached"}]
  /\ \A id \in SubscriberIds : handle[id] # "none" => key[id] \in EmitterKeys
  /\ frames \in Seq(Frame)
  /\ ended \subseteq SubscriberIds

\* Once the last pass is over no key is left taken and no mark is left over.
\* A key that stayed taken would swallow every later `retain` on it, since
\* `retain` returns at once when it finds None; a mark that stayed behind
\* would trip the assertion in the next pass.
NoStuckEmitter ==
  frames = << >> =>
    /\ \A e \in EmitterKeys : slot[e] # "taken"
    /\ dropped_subscribers = {}

\* A subscriber lives in one place: in the map of its own key or in one
\* running pass.  Two nested passes never hold the same FnMut callback, so
\* no callback is re-entered through the registry.
OnePlace ==
  /\ \A e \in EmitterKeys : \A id \in held[e] : key[id] = e /\ id \notin InFrames
  /\ \A i \in Depth : \A id \in FrameIds(frames[i]) :
       /\ key[id] = frames[i].emitter
       /\ \A j \in Depth \ {i} : id \notin FrameIds(frames[j])

\* Taking and putting back the map loses nobody: a subscriber whose handle
\* was not dropped, whose callback never returned false and whose key was
\* not removed is still registered, also when it was inserted under a key
\* whose map was taken.
NoLostSubscriber ==
  \A id \in Issued : handle[id] # "dropped" /\ id \notin ended => id \in Stored

\* Dropping a Subscription while no running pass holds its subscriber is
\* immediate and final: the subscriber leaves the registry in that step and
\* no later step brings it back.
CleanDropIsFinal ==
  [][\A id \in Issued :
       /\ handle'[id] = "dropped"
       /\ id \notin InFrames
       /\ handle[id] = "live" \/ id \notin Stored
       => id \notin Stored']_vars

\* After the passes are over no cancelled subscriber is registered: the
\* marks left by drops during a pass took effect ("Mark it as dropped so
\* that we can remove it later").
DroppedIsForgotten ==
  frames = << >> => \A id \in Issued : handle[id] = "dropped" => id \notin Stored

\* The debug_assert_eq! in retain: a mark found at the end of a pass names
\* the emitter of that pass.
MarksBelongToPass ==
  frames # << >> /\ Top.calling = None /\ Top.rest = {} =>
    \A mark \in dropped_subscribers : mark[1] = Top.emitter
=============================================================================
