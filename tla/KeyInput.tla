------------------------------ MODULE KeyInput -----------------------------
(***************************************************************************)
(* Keystrokes of a window (crates/gpui/src/window.rs): dispatch_key_event, *)
(* the pending input of a multi-stroke binding, its timeout, and the pause *)
(* that another entity may put on it.                                      *)
(*                                                                         *)
(* All of it runs on the main thread, but between two steps of a dispatch  *)
(* the program's own code runs (interceptors, action and key listeners),   *)
(* and it may move the focus, blur, pause or resume the timeout, drop a    *)
(* pause owner or change the key bindings.  Between two dispatches timers  *)
(* expire, effects are flushed and frames are drawn.  A keystroke a        *)
(* listener sends with dispatch_keystroke while one is being dispatched is *)
(* not modelled.                                                           *)
(***************************************************************************)
EXTENDS Keymap

CONSTANTS
  Keys,          \* keystrokes
  Focuses,       \* focus handles
  Root, NoFocus, \* the root node of the dispatch tree; no focus
  Owners,        \* entities that may pause the timeout
  NoOwner,
  Trees,         \* the focus handles a frame may draw
  Keymaps,       \* the keymaps the program starts with
  MoreBindings,  \* the bindings it may add
  Timeout,       \* PENDING_INPUT_TIMEOUT, in ticks
  MaxKeys,       \* bound: keystrokes typed
  MaxCalls       \* bound: calls of the program's own code into the window

ASSUME KeyInputAssumption ==
  /\ NoFocus \notin Focuses /\ Root \notin Focuses
  /\ NoOwner \notin Owners
  /\ Timeout \in Nat \ {0} /\ MaxKeys \in Nat /\ MaxCalls \in Nat

VARIABLES
  keymap,
  focus, focusEnabled,
  tree,          \* focus handles with a node in the rendered frame
  pending,       \* Window::pending_input
  tasks,         \* live timeout tasks: how long each has waited and waits
  work,          \* the dispatch in progress
  owners,        \* pause owners with a handle
  dropped,       \* pause owners whose release has not been flushed
  told,          \* what the pending input observers last saw
  deferred,      \* a deferred notification of the observers is queued
  typed,         \* history: number of keystrokes typed
  last,          \* history: the keystroke that reached the program last
  handled,       \* history: keystrokes delivered or consumed by a binding
  discarded,     \* history: keystrokes dropped by a change of focus or a menu
  quiet,         \* history: ticks a timeout has run since the last keystroke
  silent,        \* history: focus() dropped pending input
  calls

vars == << keymap, focus, focusEnabled, tree, pending, tasks, work, owners,
           dropped, told, deferred, typed, last, handled, discarded, quiet,
           silent, calls >>

NoTimeout == [st |-> "none", task |-> 0, owner |-> NoOwner, rem |-> 0]
None == [keys |-> << >>, focus |-> NoFocus, timeout |-> NoTimeout]
Idle == [stage |-> "idle"]

\* focus_node_id_in_rendered_frame
NodeOf(f) == IF f \in tree THEN f ELSE Root

IsPending(p) == p.keys # << >>
\* PendingInputStatus, as Window::pending_input returns it
Status(p, f) == IF IsPending(p) /\ p.focus = f
                THEN [keys |-> KeysOf(p.keys), paused |-> p.timeout.st = "paused"]
                ELSE [keys |-> << >>, paused |-> FALSE]
SerialsOf(keys) == {keys[i].n : i \in DOMAIN keys}

FreshTask == CHOOSE t \in 1 .. (Max(DOMAIN tasks \cup {0}) + 1) : t \notin DOMAIN tasks
DetachTask(t) == tasks

\* Dropping a Task cancels it.
Drop(t) == [u \in DOMAIN tasks \ {t} |-> tasks[u]]
\* start_pending_input_timeout
Start(live, t, rem) == [u \in DOMAIN live \cup {t} |->
                          IF u = t THEN [age |-> 0, rem |-> rem] ELSE live[u]]

Init ==
  /\ keymap \in Keymaps
  /\ focus = NoFocus /\ focusEnabled = TRUE
  /\ tree \in Trees
  /\ pending = None /\ tasks = << >>
  /\ work = Idle
  /\ owners = Owners /\ dropped = {}
  /\ told = Status(None, NoFocus) /\ deferred = FALSE
  /\ typed = 0 /\ last = 0 /\ handled = {} /\ discarded = {}
  /\ quiet = 0 /\ silent = FALSE /\ calls = 0

----------------------------------------------------------------------------
(* Calls of the program's own code into the window.                        *)

appVars == << keymap, focus, focusEnabled, pending, tasks, owners, dropped,
              deferred, discarded, silent >>

\* Window::focus takes the pending input and tells nobody.
Focus(f) ==
  /\ focusEnabled /\ focus # f
  /\ focus' = f
  /\ pending' = None /\ tasks' = Drop(pending.timeout.task)
  /\ discarded' = discarded \cup SerialsOf(pending.keys)
  /\ silent' = (silent \/ IsPending(pending))
  /\ UNCHANGED << keymap, focusEnabled, owners, dropped, deferred >>

\* Window::clear_pending_keystrokes
ClearPendingKeystrokes ==
  /\ pending' = None /\ tasks' = Drop(pending.timeout.task)
  /\ discarded' = discarded \cup SerialsOf(pending.keys)
  /\ deferred' = (deferred \/ IsPending(pending))

\* Window::blur and disable_focus: clear_pending_keystrokes first.
Blur(disable) ==
  /\ ClearPendingKeystrokes
  /\ focus' = IF focusEnabled THEN NoFocus ELSE focus
  /\ focusEnabled' = (focusEnabled /\ ~disable)
  /\ UNCHANGED << keymap, owners, dropped, silent >>

\* set_pending_input_timeout_paused(owner, true); PendingInputTimeout::pause
Pause(o) ==
  /\ o \in owners
  /\ IsPending(pending) /\ pending.focus = focus
  /\ pending.timeout.st = "running"
  /\ LET t == pending.timeout.task
     IN  /\ pending' = [pending EXCEPT !.timeout =
                          [st |-> "paused", task |-> 0, owner |-> o,
                           rem |-> tasks[t].rem - tasks[t].age]]
         /\ tasks' = Drop(t)
  /\ deferred' = TRUE
  /\ UNCHANGED << keymap, focus, focusEnabled, owners, dropped, discarded, silent >>

\* resume_pending_input_timeout; PendingInputTimeout::resume
CanResume(o) == /\ IsPending(pending) /\ pending.focus = focus
                /\ pending.timeout.st = "paused" /\ pending.timeout.owner = o

ResumeTimeout ==
  /\ pending' = [pending EXCEPT !.timeout =
                   [@ EXCEPT !.st = "running", !.task = FreshTask, !.owner = NoOwner]]
  /\ tasks' = Start(tasks, FreshTask, pending.timeout.rem)
  /\ deferred' = TRUE

Resume(o) ==
  /\ o \in owners /\ CanResume(o)
  /\ ResumeTimeout
  /\ UNCHANGED << keymap, focus, focusEnabled, owners, dropped, discarded, silent >>

DropOwner(o) ==
  /\ o \in owners
  /\ owners' = owners \ {o} /\ dropped' = dropped \cup {o}
  /\ UNCHANGED << keymap, focus, focusEnabled, pending, tasks, deferred, discarded, silent >>

\* App::bind_keys and clear_key_bindings
ChangeBindings ==
  /\ \/ \E b \in MoreBindings : keymap' = Append(keymap, b)
     \/ keymap # << >> /\ keymap' = << >>
  /\ UNCHANGED << focus, focusEnabled, pending, tasks, owners, dropped, deferred,
                  discarded, silent >>

Call ==
  /\ calls < MaxCalls /\ calls' = calls + 1
  /\ \/ \E f \in Focuses : Focus(f)
     \/ \E d \in BOOLEAN : Blur(d)
     \/ \E o \in Owners : Pause(o) \/ Resume(o) \/ DropOwner(o)
     \/ ChangeBindings

\* on_will_open_app_menu, a callback of the platform:
\* App::clear_pending_keystrokes.  The focus stays where it is.
OpenAppMenu ==
  /\ calls < MaxCalls /\ calls' = calls + 1
  /\ ClearPendingKeystrokes
  /\ UNCHANGED << keymap, focus, focusEnabled, owners, dropped, silent >>

\* What a listener does before it returns.
Listener == Call \/ UNCHANGED << appVars, calls >>

----------------------------------------------------------------------------
(* dispatch_key_event                                                      *)

history == << typed, last, handled, quiet >>

\* A key event arrives; the path of the focused node is looked up first.
\* A modifier pressed and released alone arrives here as a keystroke too.
KeyDown(k, prefer) ==
  /\ work = Idle /\ ~deferred /\ typed < MaxKeys
  /\ typed' = typed + 1
  /\ work' = [stage |-> "intercept", key |-> [k |-> k, n |-> typed + 1],
              node |-> NodeOf(focus), prefer |-> prefer, fresh |-> TRUE,
              replay |-> << >>, next |-> << >>, bindings |-> << >>,
              keys |-> << >>, prev |-> NoTimeout]
  /\ UNCHANGED << appVars, tree, told, last, handled, quiet, calls >>

\* dispatch_keystroke_interceptors; an interceptor may stop the propagation,
\* and the key event is then dispatched with the pending input untouched.
Intercept(stop) ==
  /\ work.stage = "intercept"
  /\ Listener
  /\ work' = IF stop THEN [work EXCEPT !.stage = "event", !.fresh = FALSE,
                                       !.keys = << work.key >>]
             ELSE [work EXCEPT !.stage = "match"]
  /\ UNCHANGED << tree, told, history >>

\* The pending input is taken and matched together with the new keystroke.
Match ==
  /\ work.stage = "match"
  /\ LET stale == pending.focus # NoFocus /\ pending.focus # focus
         current == IF stale THEN None ELSE pending
         result == DispatchKey(keymap, current.keys, work.key, work.node)
     IN  /\ tasks' = IF stale THEN Drop(pending.timeout.task) ELSE tasks
         /\ work' = [work EXCEPT
              !.stage = IF result.replay # << >> THEN "replay"
                        ELSE IF result.pending # << >> THEN "pend" ELSE "prefer",
              !.replay = result.replay, !.next = result.pending,
              !.bindings = result.bindings, !.keys = result.keys,
              !.prev = current.timeout]
  /\ pending' = None
  /\ UNCHANGED << keymap, focus, focusEnabled, owners, dropped, deferred,
                  discarded, silent, tree, told, history, calls >>

\* The keystrokes keys reach the program in their turn: as an action, or
\* their last one as a key event.  The event alone goes out when text is
\* preferred or every binding propagates; the earlier keystrokes of the
\* sequence are then used up without an event of their own, and count as
\* handled with it.
Deliver(keys) ==
  /\ handled' = handled \cup SerialsOf(keys)
  /\ last' = keys[Len(keys)].n
  /\ UNCHANGED << typed, quiet >>

\* replay_pending_input: the actions of the first replay, then its key event.
AfterReplay ==
  IF Len(work.replay) > 1 THEN [work EXCEPT !.replay = Tail(@)]
  ELSE IF ~work.fresh THEN Idle
  ELSE [work EXCEPT !.replay = << >>,
                    !.stage = IF work.next # << >> THEN "pend" ELSE "prefer"]

Replay(stop) ==
  /\ work.stage = "replay"
  /\ Listener
  /\ LET r == Head(work.replay)
     IN  IF r.bindings # << >> /\ ~stop
         THEN /\ work' = [work EXCEPT !.replay[1].bindings = Tail(@)]
              /\ UNCHANGED history
         ELSE /\ work' = AfterReplay
              /\ Deliver(r.keys)
  /\ UNCHANGED << tree, told >>

\* The sequence is still the start of a binding: it becomes the pending
\* input again.  A paused timeout stays paused and gets its full duration;
\* any other is replaced by a new one.
Pend ==
  /\ work.stage = "pend"
  /\ IF work.prev.st = "paused"
     THEN /\ pending' = [keys |-> work.next, focus |-> focus,
                         timeout |-> [work.prev EXCEPT !.rem = Timeout]]
          /\ UNCHANGED tasks
     ELSE /\ pending' = [keys |-> work.next, focus |-> focus,
                         timeout |-> [st |-> "running", task |-> FreshTask,
                                      owner |-> NoOwner, rem |-> Timeout]]
          /\ tasks' = Start(Drop(work.prev.task), FreshTask, Timeout)
  /\ told' = Status(pending', focus)
  /\ quiet' = 0
  /\ work' = Idle
  /\ UNCHANGED << keymap, focus, focusEnabled, owners, dropped, deferred,
                  discarded, silent, tree, typed, last, handled, calls >>

\* input_preference, asked again: a keystroke that the platform prefers as
\* text and that the input handler accepts skips the bindings.
Prefer(text) ==
  /\ work.stage = "prefer"
  /\ text => work.prefer
  /\ work' = [work EXCEPT !.stage = "bind", !.bindings = IF text THEN << >> ELSE @]
  /\ UNCHANGED << appVars, tree, told, history, calls >>

\* The bindings of the keystroke in order of precedence; an action that stops
\* the propagation ends it.
Bind(stop) ==
  /\ work.stage = "bind" /\ work.bindings # << >>
  /\ Listener
  /\ IF stop
     THEN work' = [work EXCEPT !.stage = "done"] /\ Deliver(work.keys)
     ELSE work' = [work EXCEPT !.bindings = Tail(@)] /\ UNCHANGED history
  /\ UNCHANGED << tree, told >>

\* finish_dispatch_key_event: the key listeners of the path.
Event ==
  /\ \/ work.stage = "bind" /\ work.bindings = << >>
     \/ work.stage = "event"
  /\ Listener
  /\ IF work.fresh
     THEN work' = [work EXCEPT !.stage = "done"] /\ Deliver(work.keys)
     ELSE /\ work' = Idle
          /\ handled' = handled \cup SerialsOf(work.keys)
          /\ UNCHANGED << typed, last, quiet >>
  /\ UNCHANGED << tree, told >>

\* The end of the dispatch: pending_input_changed, and what is left of the
\* pending input it took is dropped.
Done ==
  /\ work.stage = "done"
  /\ tasks' = Drop(work.prev.task)
  /\ told' = Status(pending, focus)
  /\ work' = Idle
  /\ UNCHANGED << keymap, focus, focusEnabled, pending, owners, dropped, deferred,
                  discarded, silent, tree, history, calls >>

----------------------------------------------------------------------------
(* Between two dispatches                                                  *)

Tick ==
  /\ work = Idle /\ ~deferred
  /\ \E t \in DOMAIN tasks : tasks[t].age < tasks[t].rem
  /\ tasks' = [t \in DOMAIN tasks |->
                 IF tasks[t].age < tasks[t].rem THEN [tasks[t] EXCEPT !.age = @ + 1]
                 ELSE tasks[t]]
  /\ quiet' = IF quiet < Timeout THEN quiet + 1 ELSE quiet
  /\ UNCHANGED << keymap, focus, focusEnabled, tree, pending, work, owners, dropped,
                  told, deferred, typed, last, handled, discarded, silent, calls >>

\* The task of start_pending_input_timeout: what is pending is flushed.
TimerFires(t) ==
  /\ work = Idle /\ ~deferred
  /\ t \in DOMAIN tasks /\ tasks[t].age = tasks[t].rem
  /\ pending' = None
  /\ tasks' = [u \in DOMAIN tasks \ {t, pending.timeout.task} |-> tasks[u]]
  /\ IF IsPending(pending) /\ pending.focus = focus
     THEN /\ told' = Status(None, focus)
          /\ work' = [stage |-> "replay", key |-> [k |-> pending.keys[1].k, n |-> 0],
                      node |-> NodeOf(focus), prefer |-> TRUE, fresh |-> FALSE,
                      replay |-> FlushDispatch(keymap, pending.keys, NodeOf(focus)),
                      next |-> << >>, bindings |-> << >>, keys |-> << >>,
                      prev |-> NoTimeout]
     ELSE UNCHANGED << told, work >>
  /\ UNCHANGED << keymap, focus, focusEnabled, tree, owners, dropped, deferred,
                  discarded, silent, history, calls >>

DeferredForgotten ==
  /\ work = Idle /\ deferred
  /\ deferred' = FALSE
  /\ UNCHANGED << keymap, focus, focusEnabled, tree, pending, tasks, work, owners, told,
                  dropped, discarded, silent, history, calls >>

\* The deferred pending_input_changed of clear_pending_keystrokes, pause and
\* resume.
RunDeferred ==
  /\ work = Idle /\ deferred
  /\ deferred' = FALSE /\ told' = Status(pending, focus)
  /\ UNCHANGED << keymap, focus, focusEnabled, tree, pending, tasks, work, owners,
                  dropped, discarded, silent, history, calls >>

ReleaseUnobserved(o) ==
  /\ work = Idle /\ o \in dropped
  /\ dropped' = dropped \ {o}
  /\ UNCHANGED << keymap, focus, focusEnabled, tree, pending, tasks, work, owners, told,
                  deferred, discarded, silent, history, calls >>

\* The release of a dropped pause owner is flushed; its release listener
\* resumes the timeout.
Release(o) ==
  /\ work = Idle /\ o \in dropped
  /\ dropped' = dropped \ {o}
  /\ IF CanResume(o) THEN ResumeTimeout ELSE UNCHANGED << pending, tasks, deferred >>
  /\ UNCHANGED << keymap, focus, focusEnabled, tree, work, owners, told, discarded,
                  silent, history, calls >>

CallWhenIdle ==
  /\ work = Idle /\ ~deferred
  /\ Call \/ OpenAppMenu
  /\ UNCHANGED << tree, work, told, history >>

Draw ==
  /\ work = Idle /\ ~deferred
  /\ tree' \in Trees \ {tree}
  /\ UNCHANGED << appVars, work, told, history, calls >>

Dispatch == \/ Match \/ Pend \/ Event \/ Done
            \/ \E stop \in BOOLEAN : Intercept(stop) \/ Replay(stop) \/ Prefer(stop)
                                     \/ Bind(stop)

Next ==
  \/ \E k \in Keys, prefer \in BOOLEAN : KeyDown(k, prefer)
  \/ Dispatch
  \/ Tick \/ RunDeferred \/ CallWhenIdle \/ Draw
  \/ \E t \in DOMAIN tasks : TimerFires(t)
  \/ \E o \in Owners : Release(o)

Spec == Init /\ [][Next]_vars

\* The main thread finishes a dispatch, time passes, timers expire, and the
\* effects of an update are flushed.
Fairness ==
  /\ WF_vars(Dispatch) /\ WF_vars(Tick) /\ WF_vars(RunDeferred)
  /\ WF_vars(\E t \in DOMAIN tasks : TimerFires(t))
  /\ WF_vars(\E o \in Owners : Release(o))

LiveSpec == Spec /\ Fairness

----------------------------------------------------------------------------
(* Properties                                                              *)

\* The pending input belongs to the focused element and its timeout is the
\* only one alive: no timer of an earlier keystroke, focus or pause is left
\* that could flush keystrokes typed after it.
OneTimeout ==
  /\ IsPending(pending) => pending.focus = focus
  /\ work = Idle =>
       DOMAIN tasks = IF IsPending(pending) /\ pending.timeout.st = "running"
                      THEN {pending.timeout.task} ELSE {}

\* Between two dispatches every keystroke typed is in exactly one place:
\* delivered, still pending, or discarded by a change of focus or the opening
\* of the application menu.  Delivered counts the earlier keystrokes of a
\* sequence whose last one completed it (see Deliver).
KeysAccounted ==
  work = Idle =>
    LET p == SerialsOf(pending.keys)
    IN  /\ 1 .. typed = handled \cup discarded \cup p
        /\ handled \cap discarded = {} /\ p \cap (handled \cup discarded) = {}

\* Keystrokes reach the program in the order they were typed, whatever is
\* replayed and whenever the timeout expires (intercepted ones aside, which
\* overtake the pending input).
KeysInOrder == [][last' # last => last' > last]_vars

\* Pending input is flushed only after the whole timeout has run since the
\* last keystroke that was added to it; a pause does not count.
FlushNotEarly ==
  [][work = Idle /\ work' # Idle /\ typed' = typed => quiet >= Timeout]_vars

\* Between two updates the observers have seen the pending input as it is,
\* unless focus() took some of it away.
ObserversTold ==
  work = Idle /\ ~deferred /\ ~silent => told = Status(pending, focus)

\* What the documentation of observe_pending_input says: the observers are
\* told of every change.
ObserversAlwaysTold ==
  work = Idle /\ ~deferred => told = Status(pending, focus)

\* A binding that would run for the full sequence can be typed: after a
\* prefix that is no binding itself, the window waits for the rest.
NextBindingsWait ==
  \A node \in Focuses \cup {Root}, input \in {<< k >> : k \in Keys} \cup (Keys \X Keys) :
    Resolved(keymap, input, node) = {}
      => (PossibleNext(keymap, input, node) # {} => PendingFor(keymap, input, node))

\* Pending input does not stay for ever: it is completed, flushed or
\* discarded, unless a living owner keeps its timeout paused.
PendingResolves ==
  IsPending(pending) ~>
    \/ ~IsPending(pending)
    \/ pending.timeout.st = "paused" /\ pending.timeout.owner \in owners
============================================================================
