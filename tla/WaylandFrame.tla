---------------------------- MODULE WaylandFrame ---------------------------
(***************************************************************************)
(* The demand-driven frame loop of a window on Wayland: the loop in        *)
(* crates/gpui-linux/src/linux/wayland/window.rs (frame, complete_frame,   *)
(* schedule_frame, draw, show, hide), composed with the request-frame      *)
(* handler and the dirty flags of crates/gpui/src/window.rs and with the   *)
(* end of flush_effects in crates/gpui/src/app.rs.                         *)
(*                                                                         *)
(* A window that is not animating is parked: nobody polls it.  A tick is   *)
(* started by the first configure, by a compositor frame callback, by the  *)
(* frame ping or by a retry timer, and every path has to leave one of them *)
(* armed while there is something to draw.  Everything runs on one thread; *)
(* `tick` is where the tick is, and user code runs inside it (next-frame     *)
(* callbacks, views being drawn) or between ticks.                         *)
(***************************************************************************)
EXTENDS Integers

CONSTANTS
  Roles,        \* the roles of the surface: "toplevel", "layer"
  MaxFaults,    \* bound: failed presentations and lost devices
  MaxHides      \* bound: calls of hide

ASSUME WaylandFrameAssumption ==
  Roles \subseteq {"toplevel", "layer"} /\ MaxFaults \in Nat /\ MaxHides \in Nat

VARIABLES
  role,            \* the role of the surface, which does not change
  frame_loop, presentation, redraw_requested, visible, configured,
  pending_frame_callback,  \* "none", "requested", or "committed" with a commit
  dirty, needs_present, next_frame_callbacks, deferred_force_render,
  recent,          \* the last frame is more recent than the throttle interval
  tick,              \* where the tick is; "idle" between ticks
  options,         \* RequestFrameOptions of the tick
  force_render,    \* of the tick
  ping,            \* the frame ping is in flight
  timers,          \* retry timers in flight
  configure_due,   \* the compositor owes a configure for a commit
  mapped,          \* the surface has a buffer
  resize_throttle,
  owed,            \* history: "content", "surface" changes not yet presented
  faults, hides    \* counted against the bounds

loopVars == << frame_loop, ping, timers >>
wlVars == << presentation, redraw_requested, pending_frame_callback,
            resize_throttle >>
roleVars == << role, visible, configured, configure_due, mapped, hides >>
gpuiVars == << dirty, needs_present, next_frame_callbacks >>
tickVars == << tick, options, force_render, deferred_force_render, recent >>
frameVars == << loopVars, wlVars, roleVars, gpuiVars, tickVars, owed, faults >>

RequiresPresentation ==
  presentation \in {"RetryBeforeFirstPresent", "RetryAfterPresent"}
LayerShell == role = "layer"
UnconfiguredLayer == LayerShell /\ ~ configured

FrameInit ==
  /\ role \in Roles
  /\ frame_loop = "Unconfigured" /\ ping = FALSE /\ timers = 0
  /\ presentation = "Unpresented" /\ redraw_requested = FALSE
  /\ pending_frame_callback = "none"
  /\ resize_throttle = FALSE
  /\ visible = TRUE /\ configured = FALSE
  /\ configure_due = TRUE /\ mapped = FALSE /\ hides = 0
  /\ dirty = TRUE /\ needs_present = FALSE /\ next_frame_callbacks = FALSE
  /\ tick = "idle"
  /\ options = [force_render |-> FALSE, require_presentation |-> FALSE]
  /\ force_render = FALSE /\ deferred_force_render = FALSE /\ recent = FALSE
  /\ owed = {"content", "surface"} /\ faults = 0

----------------------------------------------------------------------------
\* Arming the loop.

ScheduleParkedOnly(on) ==
  IF on /\ visible /\ frame_loop = "Parked"
    THEN frame_loop' = "Scheduled" /\ ping' = TRUE
    ELSE UNCHANGED << frame_loop, ping >>

\* schedule_frame, called when `on`.
ScheduleFrame(on) ==
  CASE on /\ visible /\ frame_loop = "Parked" ->
         frame_loop' = "Scheduled" /\ ping' = TRUE
    [] on /\ visible /\ frame_loop = "Ticking" ->
         frame_loop' = "RescheduleRequested" /\ UNCHANGED ping
    [] OTHER -> UNCHANGED << frame_loop, ping >>

\* The window has something to do at the end of a flush.
HasWork == dirty \/ needs_present \/ next_frame_callbacks

RequestRedraw == redraw_requested' = TRUE /\ ScheduleFrame(TRUE)

\* A tick opens the resize throttle.
ThrottleAfterFrame == FALSE

\* frame, up to the request-frame callback.
Frame ==
  IF visible
    THEN /\ frame_loop' = "Ticking"
         /\ resize_throttle' = ThrottleAfterFrame
         /\ options' = [force_render |-> redraw_requested,
                        require_presentation |-> RequiresPresentation]
         /\ tick' = "request"
         /\ UNCHANGED redraw_requested
    ELSE /\ frame_loop' = "Parked"
         /\ redraw_requested' = TRUE
         /\ UNCHANGED << options, tick, resize_throttle >>

NoFrame ==
  UNCHANGED << frame_loop, resize_throttle, redraw_requested, options, tick >>

\* What no event-loop source touches, and what only a configure does.
SourceRest ==
  UNCHANGED << presentation, needs_present, next_frame_callbacks,
               deferred_force_render, force_render, recent, role, visible,
               mapped, hides, faults >>
NotConfigure == UNCHANGED << dirty, configured, configure_due, owed >>

\* A configure event that the resize throttle does not drop.  A new size makes
\* the window dirty.  The first configure of a surface ticks, a later one
\* requests a redraw.
HandleConfigure(resized) ==
  /\ configured' = TRUE
  /\ dirty' = (dirty \/ resized)
  /\ owed' = owed \cup {"surface"} \cup (IF resized THEN {"content"} ELSE {})
  /\ IF frame_loop = "Unconfigured"
       THEN Frame /\ UNCHANGED ping
       ELSE RequestRedraw /\ UNCHANGED << options, tick >>

Configure ==
  /\ tick = "idle" /\ configure_due
  /\ configure_due' = FALSE
  /\ \E resized \in BOOLEAN : HandleConfigure(resized)
  /\ frame_loop # "Unconfigured" => UNCHANGED resize_throttle
  /\ SourceRest
  /\ UNCHANGED << pending_frame_callback, timers >>

\* A configure of an interactive resize: at most one for each frame is handled.
ResizeConfigure ==
  /\ tick = "idle" /\ ~ LayerShell /\ configured
  /\ frame_loop # "Unconfigured"
  /\ ~ resize_throttle
  /\ resize_throttle' = TRUE
  /\ \E resized \in BOOLEAN : HandleConfigure(resized)
  /\ SourceRest
  /\ UNCHANGED << pending_frame_callback, timers, configure_due >>

\* frame_callback_fired
FrameCallbackFired ==
  /\ tick = "idle" /\ pending_frame_callback = "committed"
  /\ pending_frame_callback' = "none"
  /\ IF frame_loop = "AwaitingCallback" THEN Frame ELSE NoFrame
  /\ SourceRest
  /\ UNCHANGED << ping, timers >> /\ NotConfigure

\* dispatch_scheduled_frames
PingFired ==
  /\ tick = "idle" /\ ping
  /\ ping' = FALSE
  /\ IF frame_loop = "Scheduled" THEN Frame ELSE NoFrame
  /\ SourceRest
  /\ UNCHANGED << timers, pending_frame_callback >> /\ NotConfigure

\* The timer source drops itself when it has fired.
TimerDropped == timers - 1

\* retry_timer_fired
RetryTimerFired ==
  /\ tick = "idle" /\ timers > 0
  /\ timers' = TimerDropped
  /\ IF frame_loop = "RetryScheduled" THEN Frame ELSE NoFrame
  /\ SourceRest
  /\ UNCHANGED << ping, pending_frame_callback >> /\ NotConfigure

----------------------------------------------------------------------------
\* The request-frame handler.  Its updates end in a flush, which schedules a
\* frame for a window with something to do.

\* A request may be throttled when it forces a render or runs callbacks, does
\* not have to present, and comes soon after the last frame.  Whether the
\* window is inactive or the machine hot is up to the environment.
RequestThrottled ==
  /\ tick = "request" /\ recent
  /\ LET force == deferred_force_render \/ options.force_render IN
       /\ ~ options.require_presentation
       /\ force \/ next_frame_callbacks
       /\ deferred_force_render' = force
  /\ ScheduleFrame(TRUE)
  /\ tick' = "complete"
  /\ UNCHANGED << options, force_render, recent, timers, wlVars, roleVars,
                  gpuiVars, owed, faults >>

RequestFrame ==
  /\ tick = "request"
  /\ force_render' = (deferred_force_render \/ options.force_render)
  /\ deferred_force_render' = FALSE
  /\ recent' = TRUE
  /\ ScheduleFrame(HasWork)
  /\ next_frame_callbacks' = FALSE
  /\ tick' = IF next_frame_callbacks THEN "callbacks" ELSE "decide"
  /\ UNCHANGED << options, timers, wlVars, roleVars, dirty, needs_present,
                  owed, faults >>

\* The next-frame callbacks have run.
CallbacksReturn ==
  /\ tick = "callbacks"
  /\ ScheduleFrame(HasWork)
  /\ tick' = "decide"
  /\ UNCHANGED << options, force_render, deferred_force_render, recent, timers,
                  wlVars, roleVars, gpuiVars, owed, faults >>

\* Draw, present, or neither.  High-rate input may ask for a presentation.
Decide ==
  /\ tick = "decide"
  /\ IF dirty \/ force_render
       THEN dirty' = FALSE /\ tick' = "drawing"
       ELSE /\ UNCHANGED dirty
            /\ \/ tick' = "present"
               \/ /\ ~ options.require_presentation /\ ~ needs_present
                  /\ tick' = "finish"
  /\ UNCHANGED << options, force_render, deferred_force_render, recent,
                  loopVars, wlVars, roleVars, needs_present,
                  next_frame_callbacks, owed, faults >>

\* The views have been drawn.
Drawn ==
  /\ tick = "drawing"
  /\ needs_present' = TRUE
  /\ tick' = "present"
  /\ UNCHANGED << options, force_render, deferred_force_render, recent,
                  loopVars, wlVars, roleVars, dirty, next_frame_callbacks,
                  owed, faults >>

DrawSkippedForgets ==
  /\ ~ visible \/ UnconfiguredLayer
  /\ UNCHANGED << frame_loop, presentation, redraw_requested,
                  pending_frame_callback, mapped, owed, faults >>

\* WaylandWindow::draw: nothing to draw on, a lost device (whether or not it
\* can be recovered), or the renderer.
DrawSkipped ==
  /\ ~ visible \/ UnconfiguredLayer
  /\ redraw_requested' = TRUE
  /\ UNCHANGED << frame_loop, presentation, pending_frame_callback,
                  mapped, owed, faults >>

DeviceLost ==
  /\ visible /\ ~ UnconfiguredLayer
  /\ faults < MaxFaults
  /\ faults' = faults + 1
  /\ redraw_requested' = TRUE
  /\ UNCHANGED << frame_loop, presentation, pending_frame_callback, mapped,
                  owed >>

FailedAsIfPresented == "RetryAfterPresent"

\* PresentationState::failed
Failed ==
  IF presentation \in {"Unpresented", "RetryBeforeFirstPresent"}
    THEN "RetryBeforeFirstPresent" ELSE "RetryAfterPresent"

\* A renderer that fails may also have dropped its textures after a number of
\* GPU errors, and then needs_redraw asks for another frame.
RendererDraws(ok) ==
  /\ visible /\ ~ UnconfiguredLayer
  /\ redraw_requested' \in {FALSE, ~ ok}
  /\ IF ok
       THEN /\ presentation' = "Presented"
            /\ frame_loop' = "AwaitingCallback"
            /\ pending_frame_callback' = "committed"
            /\ mapped' = TRUE
            /\ owed' = {}
            /\ UNCHANGED faults
       ELSE /\ faults < MaxFaults
            /\ faults' = faults + 1
            /\ presentation' = Failed
            /\ frame_loop' = "PresentationFailed"
            /\ pending_frame_callback' =
                 IF pending_frame_callback = "none" THEN "requested"
                 ELSE pending_frame_callback
            /\ UNCHANGED << mapped, owed >>

Present ==
  /\ tick = "present"
  /\ DrawSkipped \/ DeviceLost \/ \E ok \in BOOLEAN : RendererDraws(ok)
  /\ needs_present' = FALSE
  /\ tick' = "finish"
  /\ UNCHANGED << options, force_render, deferred_force_render, recent, ping,
                  timers, resize_throttle, role, visible, configured,
                  configure_due, hides, dirty, next_frame_callbacks >>

\* The handler's last update.
Finish ==
  /\ tick = "finish"
  /\ ScheduleFrame(dirty \/ next_frame_callbacks)
  /\ tick' = "complete"
  /\ UNCHANGED << options, force_render, deferred_force_render, recent, timers,
                  wlVars, roleVars, gpuiVars, owed, faults >>

RetryUnarmed ==
  frame_loop' = "RetryScheduled"
    /\ UNCHANGED << timers, pending_frame_callback >>

\* schedule_frame_retry; the event loop takes the timer (an error of
\* insert_source is only logged, and not modelled).
ArmRetry ==
  /\ frame_loop' = "RetryScheduled"
  /\ timers' = timers + 1
  /\ UNCHANGED pending_frame_callback

Rest(state) ==
  /\ frame_loop' = state
  /\ UNCHANGED << timers, pending_frame_callback >>

\* The tick leaves something to draw.
RetryNeeded == frame_loop = "RescheduleRequested" \/ redraw_requested

CompleteFrame ==
  /\ tick = "complete"
  /\ tick' = "idle"
  /\ CASE ~ visible -> Rest("Parked")
       [] visible /\ UnconfiguredLayer -> Rest("Unconfigured")
       [] OTHER ->
            CASE frame_loop = "AwaitingCallback" -> Rest("AwaitingCallback")
              [] frame_loop # "AwaitingCallback" /\ RequiresPresentation ->
                   IF presentation = "RetryAfterPresent"
                     THEN /\ frame_loop' = "AwaitingCallback"
                          /\ pending_frame_callback' = "committed"
                          /\ UNCHANGED timers
                     ELSE ArmRetry
              [] OTHER -> IF RetryNeeded THEN ArmRetry ELSE Rest("Parked")
  /\ UNCHANGED << options, force_render, deferred_force_render, recent, ping,
                  presentation, redraw_requested, resize_throttle,
                  roleVars, gpuiVars, owed, faults >>

\* Time passes: the throttle interval since the last frame is over.
IntervalPasses ==
  /\ recent /\ recent' = FALSE
  /\ UNCHANGED << tick, options, force_render, deferred_force_render, loopVars,
                  wlVars, roleVars, gpuiVars, owed, faults >>

----------------------------------------------------------------------------
\* User code, between ticks or inside one.  Between ticks it runs in an update
\* whose flush schedules a frame for a window with something to do.

UserCodeRuns == tick \in {"idle", "callbacks", "drawing"}

\* A view is invalidated; while the window draws this does not make it dirty.
Notify ==
  /\ tick \in {"idle", "callbacks"}
  /\ dirty' = TRUE
  /\ owed' = owed \cup {"content"}
  /\ ScheduleFrame(tick = "idle")
  /\ UNCHANGED << timers, wlVars, roleVars, tickVars, needs_present,
                  next_frame_callbacks, faults >>

OnNextFrame ==
  /\ UserCodeRuns
  /\ next_frame_callbacks' = TRUE
  /\ ScheduleFrame(TRUE)
  /\ UNCHANGED << timers, wlVars, roleVars, tickVars, dirty, needs_present,
                  owed, faults >>

\* Surface state is changed: a resize, the decorations, the background.
ChangeSurface ==
  /\ UserCodeRuns
  /\ RequestRedraw
  /\ owed' = owed \cup {"surface"}
  /\ UNCHANGED << timers, presentation, pending_frame_callback,
                  resize_throttle, roleVars, gpuiVars, tickVars,
                  faults >>

\* A commit carries the frame callback requested so far.
CommitCallback ==
  pending_frame_callback' =
    IF pending_frame_callback = "none" THEN "none" ELSE "committed"

\* hide parks the loop.
HiddenLoop == "Parked"

Hide ==
  /\ UserCodeRuns /\ hides < MaxHides
  /\ hides' = hides + 1
  /\ visible' = FALSE
  /\ frame_loop' = HiddenLoop
  /\ IF UnconfiguredLayer
       THEN UNCHANGED << mapped, pending_frame_callback >>
       ELSE mapped' = FALSE /\ CommitCallback
  /\ UNCHANGED << ping, timers, presentation, redraw_requested,
                  resize_throttle, role, configured,
                  configure_due, gpuiVars, tickVars, owed, faults >>

\* show makes a layer surface wait for its configure.
ShowLayer ==
  /\ frame_loop' = "Unconfigured" /\ configured' = FALSE
  /\ UNCHANGED << ping, redraw_requested >>

\* show requests a redraw of a toplevel.
ShowToplevel ==
  /\ redraw_requested' = TRUE
  /\ IF frame_loop = "Parked"
       THEN frame_loop' = "Scheduled" /\ ping' = TRUE
       ELSE /\ frame_loop' = IF frame_loop = "Ticking"
                             THEN "RescheduleRequested" ELSE frame_loop
            /\ UNCHANGED ping
  /\ UNCHANGED configured

\* The compositor answers the commit of a surface without a buffer, and of a
\* layer surface whose size is set again, with a configure.
Show ==
  /\ UserCodeRuns /\ (visible => hides < MaxHides)
  /\ hides' = IF visible THEN hides + 1 ELSE hides
  /\ visible' = TRUE
  /\ configure_due' = (configure_due \/ LayerShell \/ ~ mapped)
  /\ owed' = owed \cup {"surface"}
  /\ CommitCallback
  /\ IF LayerShell THEN ShowLayer ELSE ShowToplevel
  /\ UNCHANGED << timers, presentation, resize_throttle, role,
                  mapped, gpuiVars, tickVars, faults >>

----------------------------------------------------------------------------
Tick == \/ RequestThrottled \/ RequestFrame \/ CallbacksReturn \/ Decide
        \/ Drawn \/ Present \/ Finish \/ CompleteFrame

Sources == \/ Configure \/ ResizeConfigure \/ FrameCallbackFired
           \/ PingFired \/ RetryTimerFired

User == Notify \/ OnNextFrame \/ ChangeSurface \/ Hide \/ Show

FrameNext == Tick \/ Sources \/ IntervalPasses \/ User

FrameSpec == FrameInit /\ [][FrameNext]_frameVars

\* The event loop runs the tick it started and serves its sources; time passes;
\* the compositor sends the configures it owes, and a frame callback for every
\* surface that shows a buffer.
FrameFairness ==
  /\ WF_frameVars(Tick) /\ WF_frameVars(Configure) /\ WF_frameVars(PingFired)
  /\ WF_frameVars(RetryTimerFired) /\ WF_frameVars(IntervalPasses)
  /\ WF_frameVars(mapped /\ FrameCallbackFired)

FairFrameSpec == FrameSpec /\ FrameFairness

----------------------------------------------------------------------------
\* The flags, the loop's states and the steps of a tick stay in their types.
FrameTypeOK ==
  /\ role \in Roles
  /\ frame_loop \in {"Unconfigured", "Ticking", "RescheduleRequested",
                     "PresentationFailed", "AwaitingCallback", "Scheduled",
                     "RetryScheduled", "Parked"}
  /\ presentation \in {"Unpresented", "Presented", "RetryBeforeFirstPresent",
                       "RetryAfterPresent"}
  /\ pending_frame_callback \in {"none", "requested", "committed"}
  /\ tick \in {"idle", "request", "callbacks", "decide", "drawing", "present",
             "finish", "complete"}
  /\ options \in [force_render : BOOLEAN, require_presentation : BOOLEAN]
  /\ timers \in 0 .. (MaxHides + 1)
  /\ owed \subseteq {"content", "surface"}
  /\ faults \in 0 .. MaxFaults /\ hides \in 0 .. MaxHides
  /\ {redraw_requested, visible, configured, dirty, needs_present,
      next_frame_callbacks, deferred_force_render, recent, force_render, ping,
      configure_due, mapped, resize_throttle} \subseteq BOOLEAN

\* The wake-up a state of the loop waits for is on its way.
Armed ==
  CASE frame_loop = "Unconfigured" -> configure_due
    [] frame_loop = "Scheduled" -> ping
    [] frame_loop = "RetryScheduled" -> timers > 0
    [] frame_loop = "AwaitingCallback" ->
         pending_frame_callback = "committed" /\ mapped
    [] OTHER -> FALSE

\* schedule_frame ignores a request made in a waiting state because "a wake is
\* already armed": between ticks, a visible window that is not parked has the
\* configure, the ping, the timer or the frame callback of its state coming.
WakeArmed == tick = "idle" /\ visible /\ frame_loop # "Parked" => Armed

\* What breaks it: a fault at a surface that was hidden and shown again.
RemapFault == hides > 0 /\ faults > 0

\* A wake is armed through failed presentations and lost devices, and through
\* hide and show, though not through both.
WakeArmedOrRemapFault == RemapFault \/ WakeArmed

\* A layer surface that was hidden.
LayerRemapped == LayerShell /\ hides > 0

\* A window parks only when it is done: between ticks, a visible parked window
\* has presented every change of its content and of its surface, and has no
\* callback waiting for a frame, since nothing would wake it to do so.  (A
\* layer surface that was hidden parks without its surface being presented.)
ParkedIsDone ==
  tick = "idle" /\ visible /\ frame_loop = "Parked" /\ ~ LayerRemapped =>
    ~ HasWork /\ ~ redraw_requested /\ ~ RequiresPresentation /\ owed = {}

\* A change of a view is presented while the window stays visible, whatever
\* failed presentations, lost devices, throttled requests, hides and shows
\* come in between.
ContentIsPresented ==
  "content" \in owed /\ visible
    ~> "content" \notin owed \/ ~ visible \/ RemapFault

\* A redraw requested for the surface (a configure, show, a new size) ends in a
\* presented buffer while the window stays visible.
SurfaceIsPresented ==
  "surface" \in owed /\ visible
    ~> "surface" \notin owed \/ ~ visible \/ RemapFault \/ LayerRemapped

\* A toplevel that is shown gets a buffer, at whatever point of a tick it was
\* hidden.
ToplevelIsMapped ==
  visible /\ ~ LayerShell ~> mapped \/ ~ visible \/ RemapFault

\* Window::show_window: "Show the current window at the platform level." A
\* window that is shown gets a buffer.
ShownIsMapped == visible ~> mapped \/ ~ visible

\* on_next_frame's callback is run while the window stays visible, though the
\* request for its frame may be throttled.
NextFrameRuns ==
  next_frame_callbacks /\ visible
    ~> ~ next_frame_callbacks \/ ~ visible \/ RemapFault

\* Interactive resizing goes on: the throttle that drops configures opens again.
ResizeGoesOn ==
  resize_throttle /\ visible
    ~> ~ resize_throttle \/ ~ visible \/ RemapFault

\* Whatever a visible window owes the screen is presented: changes of its
\* views, redraws of its surface, and the first buffer of a toplevel.
EverythingIsPresented == ContentIsPresented /\ SurfaceIsPresented /\ ToplevelIsMapped

\* Whoever waits for a frame of a visible window gets it: the callbacks of
\* on_next_frame, and an interactive resize, whose configures are dropped while
\* the throttle is set.
WaitersAreServed == NextFrameRuns /\ ResizeGoesOn
=============================================================================
