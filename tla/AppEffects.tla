---------------------------- MODULE AppEffects -----------------------------
(***************************************************************************)
(* The update and effect cycle of the App (crates/gpui/src/app.rs):        *)
(* update / start_update / finish_update, push_effect, notify, defer,      *)
(* flush_effects, release_dropped_entities and shutdown, composed with the *)
(* registry of entity observers (SubscriberSet).                           *)
(*                                                                         *)
(* The App runs on one thread, but it is re-entrant: a flush runs user     *)
(* callbacks, which call back into the App.  `stack` is the main thread's  *)
(* call stack.  User code is on top when the top record is an update       *)
(* closure, an observer or deferred callback, a platform callback that     *)
(* borrows the App without an update ("bare"), or a quit observer; then    *)
(* it takes any of the user actions.  Otherwise a flush is on top and the  *)
(* App's own code takes its next step.  Handles of entities are dropped by *)
(* any thread at any time; of EntityMap only the life of an entity is kept *)
(* (referenced, unreferenced, taken by a flush, released).                 *)
(***************************************************************************)
EXTENDS Integers, Sequences, FiniteSets

CONSTANTS
  Entities,        \* entity ids that can be observed and notified
  MaxSubscribers,  \* bound: observers ever registered
  MaxDepth,        \* bound: nested observer passes
  MaxStack,        \* bound: depth of the call stack
  MaxOps           \* bound: user operations in a behaviour

ASSUME AppAssumption == MaxSubscribers \in Nat /\ MaxDepth \in Nat

VARIABLES
  pending_updates, flushing_effects, pending_effects, pending_notifications,
  stack,           \* the call stack of the main thread
  life,            \* the life of each entity
  shut,            \* shutdown has been called
  ops,             \* user operations so far
  owed,            \* history: <<observer, was active>> to be told of a notify
  slot, held, dropped_subscribers, next_subscriber_id, active, key, handle,
  frames, ended    \* App::observers

observers == INSTANCE SubscriberSet WITH
  EmitterKeys <- Entities, RemoveInPass <- TRUE

obsVars == << slot, held, dropped_subscribers, next_subscriber_id, active, key,
              handle, frames, ended >>
queueVars == << pending_effects, pending_notifications >>
updateVars == << pending_updates, flushing_effects >>
vars == << updateVars, queueVars, stack, life, shut, ops, owed, obsVars >>

----------------------------------------------------------------------------
\* The call stack.

Call(kind) == [kind |-> kind, pc |-> "user", batch |-> {}]
Flush(kind) == [kind |-> kind, pc |-> "release", batch |-> {}]

Here == stack[Len(stack)]
Push(rec) == stack' = Append(stack, rec)
Return == stack' = SubSeq(stack, 1, Len(stack) - 1)
Goto(rec) == stack' = [stack EXCEPT ![Len(stack)] = rec]

Quiescent == stack = << >>
UserCode == stack # << >> /\ Here.pc = "user"
FlushAt(pc) == stack # << >> /\ Here.pc = pc

\* The bound on the stack leaves every flush room for the callback it calls.
Room == Len(stack) + 1 < MaxStack

\* A user operation counts against the bound.
UserOp == ops < MaxOps /\ ops' = ops + 1

----------------------------------------------------------------------------
\* Effects.

\* Effect::Notify, and the two uses of Effect::Defer: the activation of an
\* observer and a callback of the user.
Notify(e) == <<"notify", e>>
Activation(id) == <<"activate", id>>
UserDefer == <<"defer", 0>>

Queue == 1 .. Len(pending_effects)
QueuedNotifications ==
  { e \in Entities : \E i \in Queue : pending_effects[i] = Notify(e) }

PushUndeduplicated(e) ==
  /\ pending_notifications' = pending_notifications \cup {e}
  /\ pending_effects' = Append(pending_effects, Notify(e))

\* push_effect(Effect::Notify), and notify without window invalidators: an
\* emitter that is pending already is not queued again.
PushNotify(e) ==
  /\ pending_notifications' = pending_notifications \cup {e}
  /\ pending_effects' = IF e \in pending_notifications THEN pending_effects
                        ELSE Append(pending_effects, Notify(e))

----------------------------------------------------------------------------

Init ==
  /\ pending_updates = 0
  /\ flushing_effects = FALSE
  /\ pending_effects = << >>
  /\ pending_notifications = {}
  /\ stack = << >>
  /\ life = [e \in Entities |-> "referenced"]
  /\ shut = FALSE
  /\ ops = 0
  /\ owed = {}
  /\ observers!Init

\* start_update, from the run loop or from user code.
StartUpdate ==
  /\ UserOp
  /\ Room
  /\ (Quiescent /\ ~ shut) \/ UserCode
  /\ pending_updates' = pending_updates + 1
  /\ Push(Call("update"))
  /\ UNCHANGED << flushing_effects, queueVars, life, shut, owed, obsVars >>

\* A platform callback (tray, hotkey, reopen, launch) borrows the App mutably
\* but opens no update.
BareCall ==
  /\ UserOp
  /\ Quiescent /\ ~ shut
  /\ Push(Call("bare"))
  /\ UNCHANGED << updateVars, queueVars, life, shut, owed, obsVars >>

FlushEveryUpdate == TRUE

\* The outermost update flushes, unless a flush is running.
MustFlush == ~ flushing_effects /\ pending_updates = 1

\* finish_update
FinishUpdate ==
  /\ UserCode /\ Here.kind = "update"
  /\ IF MustFlush
       THEN /\ flushing_effects' = TRUE
            /\ Goto(Flush("flush"))
            /\ UNCHANGED pending_updates
       ELSE /\ pending_updates' = pending_updates - 1
            /\ Return
            /\ UNCHANGED flushing_effects
  /\ UNCHANGED << queueVars, life, shut, ops, owed, obsVars >>

BareReturn ==
  /\ UserCode /\ Here.kind = "bare"
  /\ Return
  /\ UNCHANGED << updateVars, queueVars, life, shut, ops, owed, obsVars >>

ObserversOf(e) ==
  { id \in observers!Stored : key[id] = e /\ handle[id] # "dropped" }
Settled(id) == owed \ ({id} \X BOOLEAN)

\* App::notify of an entity no window has drawn.  (For one that a window has
\* drawn, invalidate_view marks the window dirty and pushes the effect with
\* push_effect, but queues nothing while that window is being drawn.)  Every
\* registered observer of the entity is owed a call; the history notes
\* whether it was active.
NotifyEntity(e) ==
  /\ UserOp
  /\ UserCode
  /\ life[e] = "referenced"
  /\ PushNotify(e)
  /\ owed' = owed \cup { <<id, id \in active>> : id \in ObserversOf(e) }
  /\ UNCHANGED << updateVars, stack, life, shut, obsVars >>

\* new_observer: insert, and defer the activation.
Observe(e) ==
  /\ UserOp
  /\ UserCode
  /\ life[e] = "referenced"
  /\ observers!Insert(e)
  /\ pending_effects' = Append(pending_effects, Activation(next_subscriber_id))
  /\ UNCHANGED << updateVars, pending_notifications, stack, life, shut, owed >>

\* Drop for Subscription; no context is needed.
DropSubscription(id) ==
  /\ UserOp
  /\ UserCode \/ Quiescent
  /\ observers!DropSubscription(id)
  /\ owed' = Settled(id)
  /\ UNCHANGED << updateVars, queueVars, stack, life, shut >>

\* App::defer
Defer ==
  /\ UserOp
  /\ UserCode
  /\ pending_effects' = Append(pending_effects, UserDefer)
  /\ UNCHANGED << updateVars, pending_notifications, stack, life, shut, owed,
                  obsVars >>

\* Some thread drops the last handle of an entity.
DropLastHandle(e) ==
  /\ UserOp
  /\ life[e] = "referenced"
  /\ life' = [life EXCEPT ![e] = "unreferenced"]
  /\ UNCHANGED << updateVars, queueVars, stack, shut, owed, obsVars >>

----------------------------------------------------------------------------
\* flush_effects, one step per observable state change.

\* release_dropped_entities: take_dropped.
TakeDropped ==
  /\ FlushAt("release") /\ Here.batch = {}
  /\ \E e \in Entities : life[e] = "unreferenced"
  /\ LET dropped == { e \in Entities : life[e] = "unreferenced" } IN
       /\ Goto([Here EXCEPT !.batch = dropped])
       /\ life' = [e \in Entities |->
                     IF e \in dropped THEN "taken" ELSE life[e]]
  /\ UNCHANGED << updateVars, queueVars, shut, ops, owed, obsVars >>

ForgetNobody(e) == UNCHANGED obsVars

\* self.observers.remove(&entity_id)
ForgetObservers(e) ==
  IF slot[e] = "vacant" THEN UNCHANGED obsVars ELSE observers!Remove(e)

\* The observers of a taken entity are forgotten; its release listeners run.
ReleaseEntity(e) ==
  /\ FlushAt("release") /\ e \in Here.batch
  /\ life' = [life EXCEPT ![e] = "released"]
  /\ ForgetObservers(e)
  /\ stack' = Append([stack EXCEPT ![Len(stack)].batch = @ \ {e}],
                     Call("callback"))
  /\ UNCHANGED << updateVars, queueVars, shut, ops, owed >>

\* Nothing is left to release.
ReleaseDone ==
  /\ FlushAt("release") /\ Here.batch = {}
  /\ \A e \in Entities : life[e] # "unreferenced"
  /\ Goto([Here EXCEPT !.pc = "pop"])
  /\ UNCHANGED << updateVars, queueVars, life, shut, ops, owed, obsVars >>

EffectsPeeked == pending_effects

\* self.pending_effects.pop_front()
EffectsAfterPop == Tail(pending_effects)

KeepPending(e) == pending_notifications

\* apply_notify_effect makes the emitter notifiable again before the pass.
ClearPending(e) == pending_notifications \ {e}

\* apply_notify_effect
ApplyNotify(e) ==
  /\ FlushAt("pop") /\ pending_effects # << >>
  /\ Head(pending_effects) = Notify(e)
  /\ pending_effects' = EffectsAfterPop
  /\ pending_notifications' = ClearPending(e)
  /\ IF slot[e] = "some"
       THEN observers!RetainBegin(e) /\ Goto([Here EXCEPT !.pc = "pass"])
       ELSE UNCHANGED obsVars /\ Goto([Here EXCEPT !.pc = "release"])
  /\ UNCHANGED << updateVars, life, shut, ops, owed >>

\* apply_defer_effect with the activation closure of new_observer.
ApplyActivation(id) ==
  /\ FlushAt("pop") /\ pending_effects # << >>
  /\ Head(pending_effects) = Activation(id)
  /\ pending_effects' = EffectsAfterPop
  /\ observers!Activate(id)
  /\ Goto([Here EXCEPT !.pc = "release"])
  /\ UNCHANGED << updateVars, pending_notifications, life, shut, ops, owed >>

\* apply_defer_effect with a callback of the user.
ApplyDefer ==
  /\ FlushAt("pop") /\ pending_effects # << >>
  /\ Head(pending_effects) = UserDefer
  /\ pending_effects' = EffectsAfterPop
  /\ stack' = Append([stack EXCEPT ![Len(stack)].pc = "release"],
                     Call("callback"))
  /\ UNCHANGED << updateVars, pending_notifications, life, shut, ops, owed,
                  obsVars >>

\* The pass visits the next observer.
PassVisit(id) ==
  /\ FlushAt("pass")
  /\ observers!RetainVisit(id)
  /\ UNCHANGED << updateVars, queueVars, stack, life, shut, ops, owed >>

\* The handler made by observe_internal upgrades the entity first: if it is
\* gone the handler returns false, else the user's callback runs.
PassCall ==
  /\ FlushAt("pass") /\ observers!Top.calling # -1
  /\ LET id == observers!Top.calling IN
       IF life[key[id]] = "referenced"
         THEN /\ Push(Call("observer"))
              /\ owed' = Settled(id)
              /\ UNCHANGED obsVars
         ELSE /\ observers!RetainReturn(FALSE)
              /\ UNCHANGED << stack, owed >>
  /\ UNCHANGED << updateVars, queueVars, life, shut, ops >>

\* The user's callback returns; a Context::observe whose observer is gone
\* returns false.
ObserverReturn(keep) ==
  /\ UserCode /\ Here.kind = "observer"
  /\ observers!RetainReturn(keep)
  /\ Return
  /\ owed' = IF keep THEN owed ELSE Settled(observers!Top.calling)
  /\ UNCHANGED << updateVars, queueVars, life, shut, ops >>

\* A release listener or deferred callback returns.
CallbackReturn ==
  /\ UserCode /\ Here.kind = "callback"
  /\ Return
  /\ UNCHANGED << updateVars, queueVars, life, shut, ops, owed, obsVars >>

\* The pass puts the observers back.
PassEnd ==
  /\ FlushAt("pass")
  /\ observers!RetainEnd
  /\ Goto([Here EXCEPT !.pc = "release"])
  /\ UNCHANGED << updateVars, queueVars, life, shut, ops, owed >>

\* finish_update after its flush.
FlagAfterFlush == FALSE

\* The queue is empty: flush_effects returns, to finish_update or to shutdown.
FlushEnd ==
  /\ FlushAt("pop") /\ pending_effects = << >>
  /\ Return
  /\ IF Here.kind = "flush"
       THEN /\ flushing_effects' = FlagAfterFlush
            /\ pending_updates' = pending_updates - 1
       ELSE UNCHANGED updateVars
  /\ UNCHANGED << queueVars, life, shut, ops, owed, obsVars >>

----------------------------------------------------------------------------
\* App::shutdown, called by the platform when the App is not borrowed.  Its
\* flush does not go through finish_update and leaves flushing_effects alone.

Shutdown ==
  /\ ~ shut /\ Quiescent
  /\ shut' = TRUE
  /\ Push(Call("quit"))
  /\ UNCHANGED << updateVars, queueVars, life, ops, owed, obsVars >>

QuitWithoutFlush ==
  /\ UserCode /\ Here.kind = "quit"
  /\ Return
  /\ UNCHANGED << updateVars, queueVars, life, shut, ops, owed, obsVars >>

\* The quit observers have run.
QuitObserversReturn ==
  /\ UserCode /\ Here.kind = "quit"
  /\ Goto(Flush("shutdown"))
  /\ UNCHANGED << updateVars, queueVars, life, shut, ops, owed, obsVars >>

----------------------------------------------------------------------------

UserStep ==
  \/ StartUpdate \/ BareCall \/ Defer
  \/ \E e \in Entities : NotifyEntity(e) \/ Observe(e) \/ DropLastHandle(e)
  \/ \E id \in observers!SubscriberIds : DropSubscription(id)

AppStep ==
  \/ FinishUpdate \/ BareReturn \/ CallbackReturn \/ QuitObserversReturn
  \/ \E keep \in BOOLEAN : ObserverReturn(keep)
  \/ TakeDropped \/ ReleaseDone \/ ApplyDefer
  \/ \E e \in Entities : ReleaseEntity(e) \/ ApplyNotify(e)
  \/ \E id \in observers!SubscriberIds : ApplyActivation(id) \/ PassVisit(id)
  \/ PassCall \/ PassEnd \/ FlushEnd

Next == UserStep \/ AppStep \/ Shutdown

Spec == Init /\ [][Next]_vars

\* The main thread keeps executing.
FairSpec == Spec /\ WF_vars(AppStep)

----------------------------------------------------------------------------
Records(kind) == { i \in 1 .. Len(stack) : stack[i].kind = kind }

\* The shape of the state, and what the two counters mean: pending_updates
\* counts the updates on the stack, finished ones that are flushing included,
\* and flushing_effects says whether such a flush is running.
TypeOK ==
  /\ observers!TypeOK
  /\ pending_updates = Cardinality(Records("update") \cup Records("flush"))
  /\ flushing_effects = (Records("flush") # {})
  /\ \A i \in Queue : pending_effects[i] \in
       {Notify(e) : e \in Entities} \cup {UserDefer}
         \cup {Activation(id) : id \in observers!SubscriberIds}
  /\ life \in [Entities -> {"referenced", "unreferenced", "taken", "released"}]

\* The set that push_effect consults is the set of queued notifications, and
\* none is queued twice.  If the set ran ahead of the queue, later calls of
\* notify would be swallowed for ever.
PendingMatchesQueue ==
  /\ pending_notifications = QueuedNotifications
  /\ \A i, j \in Queue :
       /\ pending_effects[i] = pending_effects[j]
       /\ pending_effects[i][1] = "notify"
       => i = j

\* An observer that is not active yet has its activation in the queue, once:
\* no flush order and no nesting leaves a registered observer inert.
InactiveWillActivate ==
  \A id \in observers!Issued :
    LET At == {i \in Queue : pending_effects[i] = Activation(id)}
    IN  IF id \in active THEN At = {} ELSE \E i \in Queue : At = {i}

\* Outside shutdown flush_effects is not re-entered: observer passes never
\* nest and no entity is released while a pass is running, which is what
\* SubscriberSet::retain relies on.
FlushNotReentered ==
  ~ shut =>
    /\ Len(frames) <= 1
    /\ \A i, j \in Records("flush") : i = j
    /\ FlushAt("release") => frames = << >>

\* An observer that was active when the entity called notify has been called
\* since, once the effects are flushed, unless it was cancelled or the entity
\* is gone.  (In the re-entered flush of shutdown a nested notification finds
\* the observers of its entity taken by the pass around it.  A notify of an
\* entity drawn by a window that is being drawn queues nothing; no window is
\* part of this module.)
ActiveObserverTold ==
  Quiescent /\ ~ shut /\ pending_effects = << >> =>
    \A id \in observers!Stored :
      life[key[id]] = "referenced" => <<id, TRUE>> \notin owed

\* A released entity has no observers left, so the registry does not grow
\* with dead entities.  (In the re-entered flush of shutdown a pass can put
\* back the observers of an entity that was released inside it.)
ReleasedHasNoObservers ==
  ~ shut => \A e \in Entities : life[e] = "released" => slot[e] = "vacant"

\* Every effect queued when shutdown flushes, or queued by the callbacks it
\* runs, is applied before the application exits, though that flush may re-enter
\* itself through the updates of those callbacks.
ShutdownFlushesAll == shut /\ Quiescent => pending_effects = << >>

\* Even then the observer registry keeps its shape: no entity is left with a
\* taken map that no pass will put back, and no observer is in two places.
RegistrySurvivesShutdown == observers!NoStuckEmitter /\ observers!OnePlace

\* Every update, callback and flush returns: the App is idle again and again
\* (as long as user code stops adding work, which the bound on operations
\* makes it do).
FlushTerminates == []<>Quiescent

\* The assertion at the end of SubscriberSet::retain, in the context of the
\* App: debug_assert_eq!(*emitter, dropped_emitter).
RetainAssertion == observers!MarksBelongToPass
=============================================================================
