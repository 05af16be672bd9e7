# TLA+ verification of GPUI

This directory specifies the parts of the repository whose correctness depends
on the order of events: registries that are changed while they are being
walked, reference counts shared by threads, an effect queue that feeds itself,
worker threads and condition variables, processes racing for a lock, a frame
loop that must never fall asleep with work left, keystrokes that wait for
others, a clipboard shared with other programs, and a scene that is partly
replayed from the one before. The specifications are translated from the Rust
source. TLC checks them on small instances, and TLAPS proves the safety
properties for every value of the constants.

`PROJECT.json` lists the components, the runs, the lines each definition
models, the hazards, the disagreements found and the theorems.

## The system

| Part | Source (crates/) | Specification |
|---|---|---|
| Subscriber registry | gpui/src/subscription.rs | `SubscriberSet` |
| Ownership of entities | gpui/src/app/entity_map.rs, util.rs | `EntityMap`, `EntityLife` |
| Updates, effects, observers, shutdown | gpui/src/app.rs | `AppEffects` |
| Threaded dispatcher | gpui/src/platform/threaded_dispatcher.rs | `ThreadedDispatcher` |
| Single instance | gpui/src/platform/single_instance.rs | `SingleInstance` |
| Frame loop of a Wayland window | gpui-linux/src/linux/wayland/window.rs, client.rs | `WaylandFrame` |
| Frame requests, dirty flags | gpui/src/window.rs | `WaylandFrame` |
| Renderer (outcome of a draw only) | gpui-wgpu/src | `WaylandFrame` |
| Executors and tasks, the Linux dispatcher | gpui/src/executor.rs, gpui-linux/src/linux/dispatcher.rs | `LinuxExecutor` |
| Keymap, key dispatch, pending input | gpui/src/keymap.rs, key_dispatch.rs, window.rs | `Keymap`, `KeyInput` |
| Bounds tree, scene, batches, cached views | gpui/src/bounds_tree.rs, scene.rs, view.rs, window.rs | `BoundsTree`, `Scene` |
| Clipboard on X11 | gpui-linux/src/linux/x11/clipboard.rs, client.rs | `X11Clipboard` |
| Globals, events, actions, windows of the App; async contexts | gpui/src/app.rs, app/ | not modelled: forwarded to the queue and the registry above |
| Elements, lists, caches, sum tree | gpui/src/elements, text_system, sum_tree/src | not modelled: sequential data structures and layout |
| Styles, geometry, colours, layout, text shaping | gpui/src | not modelled: computation without state over time |
| macOS and Windows backends, tray, hotkeys, portals | gpui-macos, gpui-windows, gpui-linux | not modelled: calls of system services |
| Macros, util, http_client, perf, facades | the other crates | not modelled: helpers and generated code |

The modelled parts fit together as follows. The App keeps one `SubscriberSet`
for each kind of subscription; `AppEffects` INSTANCEs `SubscriberSet` as
`observers` and runs its passes from the effect queue. The App learns from the
entity map which entities nobody refers to; `AppEffects` is written against
`EntityLife`, three transitions, and `EntityMap` is shown to implement
`EntityLife` with counters, a lock and threads. The end of a flush schedules a
frame for every window with something to do, which is where `WaylandFrame`
takes over. A frame that is drawn builds a `Scene`, with the orders of a
`BoundsTree`; a keystroke is dispatched by `KeyInput` along the tree of the
rendered frame, with the bindings of `Keymap`. The threaded dispatcher, the
executors on the Linux dispatcher, the X11 clipboard and the single-instance
lock stand by themselves.

## The specifications

**SubscriberSet.** The entry of an emitter `e` in `subscribers` is `slot[e]`
(vacant, taken while a pass has its map, or some) and `held[e]`, the ids in the
map. `frames` is the stack of
running `retain` calls, so a callback may insert, drop, activate, remove or
start a nested pass before it returns. `dropped_subscribers` holds the marks of
subscriptions dropped during a pass. One action per operation; `retain` is
`RetainBegin` (take the map), `RetainVisit` (call one subscriber),
`RetainReturn` (its answer) and `RetainEnd` (merge, consume the marks, put
back). Constants bound the ids and the depth of nesting, and say whether a
callback may remove the emitter it is called for.

**EntityMap.** A thread is `idle` or inside an operation. Clone, reserve and
collect are one critical section of the `RwLock` each. The last drop is two
steps, decrement and push, with the upgrade of the lock in between, and
`WeakEntity::upgrade` is a load followed by compare-and-swap rounds. Readers
block writers as parking_lot does. `EntityLife` says what the App sees: vacant,
referenced, unreferenced for good, collected.

**AppEffects.** `stack` is the call stack of the main thread: updates, bare
borrows of the App, the flush loop, a callback. A user operation (notify,
observe, defer, drop a subscription or the last handle, open an update) is
possible wherever user code runs. `ApplyNotify`, `ApplyDefer` and
`ApplyActivation` are the arms of `flush_effects`; `TakeDropped`,
`ReleaseEntity` and `ReleaseDone` are `release_dropped_entities`. `owed` is a
history variable: who should be told of what.

**ThreadedDispatcher.** Every lock, wait and notify of the main thread, the
workers, the timer thread and an outside thread is a step. A condition variable
is the set of its sleepers.

**SingleInstance.** Every system call of `acquire` is a step; processes crash
between any two. The socket path, the listener's queue and the Windows mutex
are external and modelled as the code uses them. `Faults` names the calls that
may also fail for reasons of their own: `bind` and `CreateMutexW`, whose error
becomes `AlreadyRunning` whatever it is; `remove_file`, whose error is ignored;
`dup` and `accept`, which leave an instance without an activation thread; and
`connect`, the probe. `failed` is the history of the processes this happened to.
An instance may never call `on_activate`.

**WaylandFrame.** `tick` is the step of the tick that is running: the request,
the next-frame callbacks, the decision, drawing, presenting, completing. User
code runs between ticks, in the callbacks and while drawing. `owed` is the
history of what was changed and not yet presented. The renderer is reduced to
what `draw` returns, and a failed `draw` may ask for another one.

**Keymap, KeyInput.** `Keymap` holds the pure part: which bindings an input
resolves to, with depth, order of addition and NoAction, whether a longer one
may still come, and how pending keystrokes are cut into replays. A context
predicate is the depth at which it matches on the path of a node. `KeyInput` is
the window: `work` is the dispatch in progress, one action per place where
`dispatch_key_event` calls the program's code (interceptors, replayed actions,
the actions of a binding, key listeners), and at each of them that code may
move the focus, blur, pause or resume the timeout, drop the owner of a pause or
change the keymap. Between dispatches the application menu may open, which drops
the pending input and leaves the focus. `tasks` are the live timeout tasks, so a timer that should
have been dropped can fire. `typed`, `handled`, `discarded` and `last` are
history: where each keystroke went. The earlier keystrokes of a sequence whose
last one goes out as a key event, because text is preferred or every binding
propagates, get no event of their own (window.rs:4939-4964) and count as handled
with it.

**LinuxExecutor.** There is a worker for each processor, at least one: `started`
is the main thread, the timer and one of `Pools`. A thread is idle, runs the code of a task, polls, drops a
future or is in `block_internal`; every lock of the shared Parker is a step. A
task may await others, run them in a `Scope`, block on them with or without a
timeout, hang, or end, and its handle may be dropped at any time. What
`async_task` does when a task is woken, cancelled or finished is external. A
queue is the set of its tasks. `crowded` is history: the threads whose blocking
call overlaps with that of another. A `block_with_timeout` of zero, which returns at
once, is not distinguished from not calling it.

**X11Clipboard.** The main thread writes (two steps: ownership, then data),
reads (one step per event of the reader's connection) and drops the clipboard;
the serving thread handles its events in order. The X server, the other client
and the clipboard manager are external and answer late, in chunks or not at
all. A transfer in chunks has finitely many: each one starts the reader's timeout
anew (clipboard.rs:660), so a sender that never ends keeps the read going. A
write is known by its number.

**BoundsTree, Scene.** `BoundsTree` follows the vector of nodes: the search
with its two prunings, the descent by half perimeter, the split of a full node
and the way back up. A loop of the code is a function on its number of turns,
of which there are at most as many as nodes: a turn after the last one changes
nothing. `Scene` paints views one after the other into the next frame, or
replays them by their range of paint operations, sorts (equal keys in any order,
as an unstable sort may) and swaps. `DrawBatch` is one call of the iterator over
the finished scene: `begin` is how far it is in each vector, `drawn` what it has
returned. A frame is drawn as a whole, or not at all. A primitive carries what
it was ordered by: the rectangle that went into the tree (`space`) and the
length of the tree before (`since`). Coordinates are whole numbers.

## Runs

| Run | Checks | Result |
|---|---|---|
| `subscribers_reentrant` | registry under arbitrary re-entrancy: `NoStuckEmitter`, `NoLostSubscriber`, `CleanDropIsFinal` | holds |
| `entities` | handles keep entities, refinement of `EntityLife`, release | holds |
| `app` | queue and dedup set, delivery, re-entrance, cleanup, shutdown, every call returns | holds |
| `dispatcher` | in-flight count, no lost wakeup, every entry point returns, and when | holds |
| `instance` | exclusion, reachability, stale sockets, activation, on Unix and Windows, with crashes and failing calls | holds |
| `instance_race` | `AtMostOneInstance` with overlapping starts on Unix | violated |
| `wayland` | armed wake-ups, all presented, waiters served, under faults, hides and shows | holds |
| `keys` | every keystroke delivered, pending or discarded, once and in order; one timeout, never early; pending input ends | holds |
| `executor` | scoped and local futures, blocking calls, cancellation | holds |
| `clipboard` | the owner has its data, a read gets the best format, calls return | holds |
| `scene` | orders, batches, drawing order, reuse of cached views | holds |
| `scene_cached_replay` | `CachedPaintIsRecycled` | violated |

A behaviour of `dispatcher` calls the three entry points in any order; one of
`instance` and `wayland` chooses its platform or role at the start, one of
`keys` its keymap, one of `executor` where its tasks run. Where a property holds
only outside a known disagreement, its definition names the exception:
`RemapFault` and `LayerRemapped` in `WaylandFrame`, `~ shut` in `AppEffects`, the
constant `Overlap` in `SingleInstance`, `silent` in `KeyInput`, `crowded` in
`LinuxExecutor`, `stale`, `late` and `changed` in `X11Clipboard`, `moved` in
`Scene`. `SingleInstance` has two more, `failed` and `Unattended`, and
`LinuxExecutor` has `Starved`. `RemapFault` covers every behaviour with both a
hide and a fault, more than those that go wrong. The type invariants that are proved are repeated by no run.

What the violations show (the quotes are in `PROJECT.json`):

- Two processes that start together can both get the Unix lock.
- `Scene::finish` sorts the primitives, but the paint operations keep their
  indices from before the sort. In the trace one view paints a sprite and the next
  view another, elsewhere and so of the same order, whose tile sorts first. In
  the next frame the first view, cached, is replayed with the sprite of the
  second.

### Known disagreements

Some statements of the documentation, of comments or of assertions are written
down beside the properties and do not hold in the model. They are in no run;
adding one to the configuration named gives TLC's counterexample.

| Definition | Configuration | What happens |
|---|---|---|
| `SubscriberSet!DroppedIsForgotten` | `subscribers_reentrant` | A subscription dropped in a pass, after the same callback inserted another one for that emitter, is looked for in the new map and is never removed (subscription.rs:77). |
| `AppEffects!RetainAssertion` | `app` | `shutdown` flushes without `flushing_effects`, so passes nest and the debug assertion of `retain` fails (app.rs:858, subscription.rs:146). |
| `ThreadedDispatcher!MainTaskRuns` | `dispatcher`, with `OneThread`, `OneWorker`, `UntilOnly`, `TwoTasks`, `TwoPriorities`, no timers and the goal `FirstTask` | A runnable pushed by an outside thread between the check and the wait of `run_until` does not wake it (threaded_dispatcher.rs:357). |
| `SingleInstance!RefusedOnlyWhileRunning` | `instance` | Every error of `bind` and `CreateMutexW` is reported as `AlreadyRunning`, with no other instance running (single_instance.rs:95, 165). |
| `SingleInstance!AcquireAlwaysReturns` | `instance` | The probe blocks when the queue of an instance that has no activation thread is full (single_instance.rs:90, 112, 130). |
| `SingleInstance!AtMostOneInstance` | `instance`, with `"connect"` in `Faults` | A probe that fails although an instance is running counts as nobody running (single_instance.rs:90). |
| `WaylandFrame!WakeArmed` | `wayland` | A toplevel whose first presentation after `show` fails waits for a frame callback that cannot come (window.rs:758). |
| `WaylandFrame!ShownIsMapped` | `wayland` | A layer surface shown again without a new size is not drawn (window.rs:1816). |
| `KeyInput!ObserversAlwaysTold` | `keys` | `focus` takes the pending input and tells no observer (window.rs:2109). |
| `KeyInput!NextBindingsWait` | `keys` | `possible_next_bindings_for_input` lists a binding that the window does not wait for, when a NoAction in another context stands after it (keymap.rs:219). |
| `LinuxExecutor!OverlappingBlocksReturn` | `executor` | Two threads that block at the same time share one Parker: one may take the token of the other (dispatcher.rs:144). |
| `LinuxExecutor!LastWorkerReturns` | `executor` | The only worker blocks, in `block` or in the drop of a `Scope`, on a task that is queued for the workers (dispatcher.rs:33, executor.rs:723). |
| `X11Clipboard!OwnerAlwaysHasData` | `clipboard` | A late `SelectionClear` erases data written after it was sent (clipboard.rs:859). |
| `X11Clipboard!FinishedMeansSaved` | `clipboard` | A request of another client during the handover counts as the manager's (clipboard.rs:898). |

### Bounds

- Registry: 2 emitters, 3 subscribers, 2 nested passes. Every defect needs at
  most an outer and an inner pass and a subscriber for each role (dropped,
  calling, inserted).
- Entities: 2 threads, 2 entities, 3 handles: the last drop, an upgrade that
  races it and a handle to another entity.
- App: 2 entities, 2 observers, 6 user operations, a stack of 6 records and 3
  nested passes: a callback inside a flush inside an update that nests an
  update, and the flush of shutdown re-entered. To notify, flush, notify and
  observe that the second one is delivered takes 6 operations.
- Dispatcher: 3 tasks of different priorities, 2 workers, 1 timer.
- Single instance: 3 processes (2 where starts overlap on Unix), a backlog of 2;
  every call but the probe may fail, any number of times.
- Wayland: 2 faults and 2 calls of hide, in any order. The proofs have no
  bound on either.
- Keys: 2 keystrokes, 3 typed, 2 focus handles, two keymaps with a binding that
  is a prefix of another, a NoAction and a binding of one context; 2 calls of
  the program, a timeout of 2 ticks. Three keystrokes are the fewest for a
  replay of two that is interrupted by a third.
- Executor: a task of the main thread, two others (one of which may hang or be
  a timer) and 1 or 2 workers: a task, the one it waits for and the one that
  cancels. The proofs have no bound.
- Clipboard: 2 writes, 2 changes of owner, one read of 2 formats, transfers of
  2 chunks, a request each of the other client and the manager.
- Scene: 2 frames, 2 views, 5 insertions of 3 primitives of 2 kinds and a
  layer, along one axis, with 3 children to a node (the code has 12), so that
  nodes fill up and split. Two primitives overlap and the third is apart, so
  that its order is lower than that of primitives painted before it, and the
  sorts by order and by tile both have something to move. A replay of what was
  itself replayed, and batches of quads without a blend, are in the theorems of
  `SceneProofs` only.

Symmetry is used for emitters and entities where only safety is checked.
Deadlock is not checked where the bounded user code, or the bounded number of
tasks, may run out.

### Fairness

- Entities: a thread inside a critical section goes on (weak). Requests for the
  lock are strongly fair, since parking_lot is eventually fair, and a
  compare-and-swap does not lose every round. `take_dropped` is called by every
  finished update.
- App: the App's own steps are weakly fair; user code returns. User operations
  are not fair.
- Dispatcher: workers, main loop and timer thread are weakly fair; the timer
  thread strongly, because it contends for the in-flight mutex with a main
  thread that polls, and parking_lot hands the lock over eventually.
- Single instance: a process inside `acquire`, the activation thread (which
  accepts or fails to) and the exit of a dropped instance are weakly fair.
  Starts, crashes and the call of `on_activate` are not.
- Wayland: ticks, pings, timers and owed configures are weakly fair; a frame
  callback only while the surface shows a buffer, as the protocol has it.
- Keys: the main thread finishes a dispatch, timers and deferred effects run,
  and a dropped owner is released (weak): the event loop does each of them
  between two events. Keystrokes and calls of the program are not fair.
- Executor: the steps of a thread are strongly fair, since threads contend for
  the Parker's mutex; a deadline passes (weak). Cancelling and quitting are not
  fair.
- Clipboard: the main thread, with the time-outs of its waits, and the serving
  thread are weakly fair. The other client and the manager are not.

## Proofs

All theorems are checked by TLAPS for every value of the constants that
satisfies the named assumptions.

- `SubscriberSetProofs`: `TypeCorrect` and every property of its run,
  `NeverStuck`, `InOnePlace`, `NobodyIsLost` and `CleanDrops`. For the first, an
  emitter is without a map only while a pass over it is on the stack; the
  invariant ties each taken slot to a frame. For the others, `Placed` says
  that whoever the registry knows was inserted, so a new id is in no place
  yet, and `Remembered` that marks name only dropped subscriptions, so the end
  of a pass forgets nobody else.
- `EntityMapProofs`: `TypeCorrect`, `CountsAreExact`, `QueueIsRight`,
  `HandlesKeepEntities`, `Refinement`. `IInv` joins the invariants of
  `EntityMap` with `Locking`: one upgradable guard, none while the collector
  waits, and a reader's key stays live and its expected value is not zero.
  Without `Locking` an upgrade could bring a count back from zero. Counts are related to sets of handles by the
  cardinality of adding and removing one element. The refinement maps each step
  to `Reserve`, `LastDrop`, `Collect` or a stutter.
- `AppEffectsProofs`: `DeduplicationIsExact`, `ActivationsAreQueued`,
  `ShutdownDrains`, `RegistryIsRefined`, `RegistryIsSound`,
  `FlushIsExclusive`, `ReleaseForgetsObservers` and `ObserversAreTold`.
  `QueueInv` reads the set of pending notifications and the activations still
  due off the queue, in which only deferred callbacks repeat. `ShutdownBelow`
  keeps the record of `shutdown` at the bottom of the stack until its flush
  finds the queue empty. The App takes only steps of its `SubscriberSet`, so the
  theorems of `SubscriberSetProofs` carry over. `FlushInv` gives the stack its
  `Shape` until shutdown: `flushing_effects` says whether a flush is on it,
  which is then the only one, and a pass over observers runs exactly while that
  flush is at its pass. `ReleasedInv` adds that nobody observes what is released and that the
  entity of a running pass is not, since the end of the pass puts its observers
  back. `ToldInv` says that an observer who is owed a call has a notification
  of its entity queued or is still due in the running pass; one that was not
  active when the entity was notified is owed nothing.
- `PlatformProofs`, on the threaded dispatcher: `CountIsExact`, `IdleIsQuiet` and
  `BatchesAreClosed`. The count needs `OneCopy`: a runnable is undispatched, in
  the timer heap, in the hand of one thread, or once in one queue; and `InHand`,
  which ties what a thread carries to its label. From the count, zero under the
  mutex means that nobody has anything to do. `IdleIsQuiet` assumes that no
  outside thread dispatches: one could push right after the check. The batch
  of `run_ready_main_tasks` is the front of the queue, which only pops change.
- `PlatformProofs`, on the single-instance lock: `MutualExclusion`, `InstanceIsReachable` and
  `NobodyIsLockedOut`, with any of the other calls failing, assuming that starts
  on Unix do not overlap (`instance_race` shows that this is needed) and that the
  probe of a running instance does not fail (see Known disagreements). The
  invariant says that a failed probe stays true until the bind and that the
  holder of the Windows mutex has its handle open; `OpenIsRunning` adds that the
  open listeners and handles are those of the processes that hold the instance
  or are giving it up, and that the path is free at the bind unless its removal
  failed, so whoever is refused met one of them or had a call fail.
- `LinuxProofs`, on the X11 clipboard: `WritesAreKept` and
  `FirstFormatIsRead`, for any list of formats, any number of chunks and any
  traffic. The first is inductive as it stands. For the second, `InStep` says
  where an undisturbed read and the other client are: the request is on its way
  (`Asked`), refused (`Refused`), answered with the content or the start of a
  transfer (`Answered`), or in a transfer of which reader and sender have
  counted the same chunks (`Transfer`); `Stage`, that a read that asks for one
  format asks for the best, and one that tries them all has none to find; and
  `Closed`, that no event of one read is left for the next. Once a read was
  disturbed nothing is claimed of it.
- `LinuxProofs`, on the Wayland frame loop: `ParksWhenDone` and `WakesAreArmed`. For the first,
  `NothingForgotten` is the heart: what is not presented is held by the dirty
  flag, the requested redraw or the presentation state, or is being drawn. For
  the second, a buffer that was presented stays until a hide, and nothing is
  retried without a fault. The exceptions in the properties are needed:
  `WakeArmed` and `ShownIsMapped` leave them out and do not hold.
- `LinuxProofs`, on the Linux executors: `ScopeIsSafe` and `LocalIsSafe`. `ThreadsInv` ties a
  running task to the one thread that runs it, and how that task waits to where the
  thread is; `WaitInv` says how a task that nobody runs may be waiting; and
  `ScopeInv` that a live task of a `Scope` is one its maker still waits for, so
  that the drop of the `Scope` waits for it. Without the first two, a task could
  leave `scoped` by another way than that drop.
- `KeyInputProofs`: `TimeoutIsUnique`, `NoKeystrokeLost`, `TypingOrderIsKept`,
  `FlushIsNotEarly` and `ObserversSeePending`, for every keymap and whatever
  the listeners do, from `KeyInputAssumption` on the constants. First, what the
  recursive functions of `Keymap` compute: `FlushReplaysAll` and
  `DispatchGivesBackAll` say that the replays, what stays pending and what is
  dispatched are the typed keystrokes, in order. They are inductions on the
  length of the input, done by a least counterexample (`WellFounded`), since the
  induction theorems of the library cannot be applied; the order of the
  bindings of one keystroke plays no part and is left unexpanded. Then `KeyInv`: every
  keystroke is handled, discarded, pending or in flight, and none of the last
  two is older than the last one handled (`PlacesInv`, `QueueInv`); what is in
  flight follows the stage of the dispatch (`WorkInv`); the timer tasks alive
  are those that the pending input or the dispatch that took it holds, never
  both (`TimeoutInv`); the time left on the timer and the time without a key
  are at least the timeout (`QuietInv`); and outside the dispatch that took the
  pending input, observers know it, a notification is deferred, or `focus()`
  dropped it (`ToldInv`). The listeners' calls are one
  relation, `WindowStep`, so that each invariant is shown once for all of them.
- `BoundsTreeProofs`: lemmas on the bounds tree, for any branching factor from
  2 up and any rectangles. `IsTree` gives each node the set of its ancestors:
  two nodes below different children have nothing in common (`Branches`,
  `Chains`), and what is below a node lies in its bounds and is of no higher order
  (`Covers`). The search (`SearchTurn`) keeps on its stack disjoint subtrees
  that contain every leaf it could still report, and each turn has fewer nodes
  below the stack, so the loop ends within as many turns as nodes; what it
  returns is the highest order of the leaves that intersect. Attaching a leaf
  to a node with room (`GrowLeaf`), replacing a leaf by a pair (`GrowPair`) and
  a new root (`GrowRoot`) keep the tree, with the propagation along the path of
  the descent. That the children are in order of their highest order, as the
  code has it, only makes the search faster: the proof does not use it.
- `SceneProofs`: `OrdersAreMinimal`, `NothingIsLeftOut`, `BackToFront` and
  `ReplayKeepsPaint`, which are all properties of the run `scene`, and
  `SceneIsConsistent`, the invariant behind them. `IsScene` says that the tree
  is one, that the place of a primitive or layer is that of a leaf, and that an
  operation names a primitive; every operation of a scene keeps it and adds one
  operation that shows what it should (`Follows`), so a replay adds what it
  replays (`ReplayFacts`, by induction on its length), and a sort keeps it.
  `Draws` says that the batches so far are the vectors up to `begin`, none
  mixed, and no higher in order than what is left. That what overlaps is drawn
  in order then follows from the order of the tree: `since` grows with the
  tree, so a later overlap has a higher order. `PaintInv` has, for every view,
  that its range shows its content: in the next scene if it is painted, else in
  the rendered one.

`PlatformProofs` and `LinuxProofs` each extend several specifications that do not
interact. So that they can, the specifications of `SingleInstance`,
`WaylandFrame` and `LinuxExecutor` have names of their own: `InstanceSpec`,
`FrameSpec` and `ExecutorSpec`.

The theorems about loops and recursive functions (`KeyInputProofs`,
`BoundsTreeProofs`, `SceneProofs`) need induction over the natural numbers and
the existence of recursively defined functions. The library's theorems on both
take operators as parameters, which the provers cannot instantiate, so they are
derived for sets and functions (`Induction`, `Iteration`) from the
well-foundedness of the natural numbers.

Only model-checked: every liveness property (the provers have no rules for
fairness); the meaning of `pending_updates` in `AppEffects`; the type invariant
of `ThreadedDispatcher`; and the remaining invariants of `WaylandFrame`. The
statements that do not hold are shown by TLC's counterexamples.

## Not modelled

The definitions stand for about 3,900 of the repository's 133,000 lines of
Rust: the parts above, where the order of events, of threads or of other
programs decides. The rest falls into four groups.

- Computation without state over time: styles, geometry, colours, layout, text
  shaping and wrapping, path building, elements. It is floating point
  arithmetic and calls of libraries, which TLC cannot evaluate.
- Calls of system services: the macOS and Windows backends, portals, tray,
  hotkeys, renderers. What could be specified is the behaviour of the services,
  which the repository does not state.
- Sequential data structures: the sum tree, list state, tab stops, caches and
  the arena. The repository tests them against simple references.
- Macros, facades, test support, profilers.

Inside the modelled parts:

- `EntityMap`: the access log, leak detection and typed wrappers.
- `AppEffects`: events, globals, window and focus effects. `notify` is that of an
  entity that no window has drawn.
- `WaylandFrame`: input, geometry, closing, several windows, and an event loop
  that does not take a retry timer: the error is only logged (client.rs:592),
  and the retry is then never armed. The configures of an interactive resize
  that come while the throttle is set are dropped by the code (window.rs:887),
  and so they are here: nothing says that the last size of a resize is applied.
- `KeyInput`: keystrokes a listener sends during a dispatch, the input method,
  mouse input, tab order, other windows.
- `SingleInstance`: what the callback of `on_activate` does, and a connection that
  stays open without sending.
- `LinuxExecutor`: labels and priorities, `detach`, the test dispatcher.
- `X11Clipboard`: the primary selection, writes that wait, an error of the
  serving thread.
- `Scene`: clipping, element state, hitboxes and the other things a reused view
  takes over from the frame before.

Hazards that lie outside the models, and that no property covers:

- Dropping a callback inside `unsubscribe` runs the destructors of what it
  captured while the registry is borrowed (subscription.rs:78).
- Effects queued by a platform callback that borrows the App without an update
  wait for the next update (app.rs:143); `BareCall` reaches this, but nothing
  says when such effects are due.
- `release_dropped_focus_handles` updates every window while it holds the lock
  of the focus map (app.rs:1888), and an `EntityCreated` effect names a window
  that may be closed by then (app.rs:1937): windows are not part of `AppEffects`.
- `notify` while the window draws marks the view but queues no notification of
  its observers (window.rs:131).
- A toplevel shown again may draw before its new configure (wayland/window.rs:1819);
  the rule against it is that of the protocol.
