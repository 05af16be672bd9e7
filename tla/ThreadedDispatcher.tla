------------------------- MODULE ThreadedDispatcher ------------------------
(***************************************************************************)
(* The multithreaded dispatcher for tests and benchmarks                   *)
(* (crates/gpui/src/platform/threaded_dispatcher.rs): worker threads on a  *)
(* priority queue, a timer thread, and the main thread, which runs its own *)
(* queue in run_until_idle, run_until or run_ready_main_tasks and sleeps   *)
(* on the idle condvar.                                                    *)
(*                                                                         *)
(* A step is what a thread does between two points where another thread    *)
(* can see or change something: one critical section, or one notification. *)
(* The main thread holds the `inflight` mutex from MainLock until it       *)
(* sleeps or goes back to the top of its loop; dispatch_on_main_thread     *)
(* and the notification of the idle condvar do not take that mutex.        *)
(* A task is a runnable; while it runs it may dispatch new tasks.          *)
(***************************************************************************)
EXTENDS Integers, Sequences, FiniteSets

CONSTANTS
  Workers,       \* the worker threads
  Main, Timer,   \* the main thread and the timer thread
  External,      \* threads outside the dispatcher that dispatch tasks
  Tasks,         \* bound: the runnables of a behaviour
  PriorityOf,    \* the TaskPriority of each task
  Timers,        \* the tasks dispatched with dispatch_after
  Goal,          \* run_until waits until these tasks are done
  Modes,         \* the entry points the caller uses
  NoTask

Priorities == {"High", "Medium", "Low"}

ASSUME DispatcherAssumption ==
  /\ PriorityOf \in [Tasks -> Priorities]
  /\ Timers \subseteq Tasks /\ Goal \subseteq Tasks
  /\ Modes \subseteq {"run_until_idle", "run_until", "run_ready"}
  /\ NoTask \notin Tasks
  /\ Main # Timer /\ {Main, Timer} \cap (Workers \cup External) = {}
  /\ Workers \cap External = {}
  /\ IsFiniteSet(Workers) /\ IsFiniteSet(External) /\ IsFiniteSet(Tasks)

Threads == Workers \cup External \cup {Main, Timer}

VARIABLES
  background,     \* BackgroundQueueState: one queue per priority
  main,           \* the queue of the main thread
  heap,           \* pending timers
  due,            \* the timers whose deadline has passed
  inflight,       \* IdleTracker
  pc,             \* where each thread is
  cur,            \* the task a thread runs
  job,            \* the task a thread is about to push to the background
  mode,           \* the entry point the caller is in, or "none"
  seen,           \* run_until: the timer whose deadline it read
  quota,          \* run_ready_main_tasks: the turns left
  late,           \* history: what was queued for it since it began
  fresh,          \* tasks not dispatched yet
  done            \* tasks that have run

vars == << background, main, heap, due, inflight, pc, cur, job, mode, seen,
           quota, late, fresh, done >>

Elems(q) == {q[i] : i \in DOMAIN q}
Queued == UNION {Elems(background[p]) : p \in Priorities}
Ready == Goal \subseteq done
LockHeld == pc[Main] \in {"locked", "sleepy"}
Goto(t, label) == pc' = [pc EXCEPT ![t] = label]

\* The main thread is inside the entry point, or in a task it runs.
Calling ==
  \/ pc[Main] \in {"top", "nap", "lock", "locked", "sleepy", "wait"}
  \/ cur[Main] # NoTask

\* Notifying the idle condvar wakes the main thread if it waits on it.
Wake(f) == [f EXCEPT ![Main] = IF @ \in {"wait", "nap"} THEN "top" ELSE @]

Init ==
  /\ background = [p \in Priorities |-> << >>]
  /\ main = << >>
  /\ heap = {} /\ due = {}
  /\ inflight = 0
  /\ pc = [t \in Threads |-> CASE t \in Workers -> "pop"
                               [] t = Timer -> "scan"
                               [] OTHER -> "run"]
  /\ cur = [t \in Threads |-> NoTask]
  /\ job = [t \in Threads |-> NoTask]
  /\ mode = "none" /\ seen = NoTask
  /\ quota = 0 /\ late = {}
  /\ fresh = Tasks
  /\ done = {}

----------------------------------------------------------------------------
\* Dispatching, by a running task, by the caller of run_until and its kin, or
\* by an external thread.

\* dispatch: increment the in-flight count ...
DispatchCount(t, k) ==
  /\ pc[t] = "run" /\ k \in fresh \ Timers
  /\ ~ LockHeld
  /\ inflight' = inflight + 1
  /\ fresh' = fresh \ {k}
  /\ job' = [job EXCEPT ![t] = k]
  /\ Goto(t, "counted")
  /\ UNCHANGED << background, main, heap, due, cur, mode, seen, quota, late,
                  done >>

\* The timer thread pushes with TaskPriority::Medium.
PushPriority(t) == IF t = Timer THEN "Medium" ELSE PriorityOf[job[t]]

NotifyNoWorker(t) == Goto(t, "pushed")

\* notify_one: a waiting worker, if there is one, pops again.
NotifyWorker(t) ==
  \/ /\ \A w \in Workers : pc[w] # "waiting"
     /\ Goto(t, "pushed")
  \/ \E w \in Workers :
       /\ pc[w] = "waiting"
       /\ pc' = [pc EXCEPT ![w] = "pop", ![t] = "pushed"]

\* ... push the runnable and wake a worker, under the lock of the queue ...
DispatchPush(t) ==
  /\ pc[t] = "counted"
  /\ background' = [background EXCEPT ![PushPriority(t)] = Append(@, job[t])]
  /\ job' = [job EXCEPT ![t] = NoTask]
  /\ NotifyWorker(t)
  /\ UNCHANGED << main, heap, due, inflight, cur, mode, seen, quota, late,
                  fresh, done >>

\* ... and notify the idle condvar, without the mutex.
DispatchNotify(t) ==
  /\ pc[t] = "pushed"
  /\ pc' = Wake([pc EXCEPT ![t] = IF t = Timer THEN "scan" ELSE "run"])
  /\ UNCHANGED << background, main, heap, due, inflight, cur, job, mode,
                  seen, quota, late, fresh, done >>

\* dispatch_on_main_thread: push, then notify (DispatchNotify).
DispatchOnMain(t, k) ==
  /\ pc[t] = "run" /\ k \in fresh \ Timers
  /\ main' = Append(main, k)
  /\ late' = IF mode = "run_ready" /\ Calling THEN late \cup {k} ELSE late
  /\ fresh' = fresh \ {k}
  /\ Goto(t, "pushed")
  /\ UNCHANGED << background, heap, due, inflight, cur, job, mode, seen,
                  quota, done >>

\* dispatch_after: push a timer, then notify (DispatchNotify).
DispatchAfter(t, k) ==
  /\ pc[t] = "run" /\ k \in fresh \cap Timers
  /\ heap' = heap \cup {k}
  /\ fresh' = fresh \ {k}
  /\ Goto(t, "pushed")
  /\ UNCHANGED << background, main, due, inflight, cur, job, mode, seen,
                  quota, late, done >>

\* cancel_pending_timers drops the runnables.
CancelPendingTimers(t) ==
  /\ pc[t] = "run" /\ heap # {}
  /\ heap' = {}
  /\ UNCHANGED << background, main, due, inflight, pc, cur, job, mode, seen,
                  quota, late, fresh, done >>

Dispatch(t) ==
  \/ \E k \in Tasks :
       DispatchCount(t, k) \/ DispatchOnMain(t, k) \/ DispatchAfter(t, k)
  \/ DispatchPush(t) \/ DispatchNotify(t) \/ CancelPendingTimers(t)

----------------------------------------------------------------------------
\* Worker threads.

MostUrgent ==
  CASE background["High"] # << >> -> "High"
    [] background["High"] = << >> /\ background["Medium"] # << >> -> "Medium"
    [] OTHER -> "Low"

WorkerPop(w) ==
  /\ pc[w] = "pop" /\ Queued # {}
  /\ cur' = [cur EXCEPT ![w] = Head(background[MostUrgent])]
  /\ background' = [background EXCEPT ![MostUrgent] = Tail(@)]
  /\ Goto(w, "run")
  /\ UNCHANGED << main, heap, due, inflight, job, mode, seen, quota, late,
                  fresh, done >>

WorkerWait(w) ==
  /\ pc[w] = "pop" /\ Queued = {}
  /\ Goto(w, "waiting")
  /\ UNCHANGED << background, main, heap, due, inflight, cur, job, mode,
                  seen, quota, late, fresh, done >>

\* runnable.run() returns.
WorkerFinish(w) ==
  /\ pc[w] = "run"
  /\ done' = done \cup {cur[w]}
  /\ Goto(w, "finish")
  /\ UNCHANGED << background, main, heap, due, inflight, cur, job, mode,
                  seen, quota, late, fresh >>

DecrementSilently(w) == pc' = [pc EXCEPT ![w] = "pop"]
DecrementNotify(w) == pc' = Wake([pc EXCEPT ![w] = "pop"])

\* The InflightGuard is dropped: decrement, under the mutex, and notify.
WorkerDecrement(w) ==
  /\ pc[w] = "finish"
  /\ ~ LockHeld
  /\ inflight' = inflight - 1
  /\ cur' = [cur EXCEPT ![w] = NoTask]
  /\ DecrementNotify(w)
  /\ UNCHANGED << background, main, heap, due, job, mode, seen, quota, late,
                  fresh, done >>

Worker(w) ==
  WorkerPop(w) \/ WorkerWait(w) \/ WorkerFinish(w) \/ WorkerDecrement(w)

----------------------------------------------------------------------------
\* The timer thread, and time.

TimePasses(k) ==
  /\ k \in heap \ due
  /\ due' = due \cup {k}
  /\ UNCHANGED << background, main, heap, inflight, pc, cur, job, mode, seen,
                  quota, late, fresh, done >>

\* A due entry leaves the heap, and the heap is unlocked.
TimerPop(k) ==
  /\ pc[Timer] = "scan" /\ k \in heap \cap due
  /\ heap' = heap \ {k}
  /\ job' = [job EXCEPT ![Timer] = k]
  /\ Goto(Timer, "popped")
  /\ UNCHANGED << background, main, due, inflight, cur, mode, seen, quota,
                  late, fresh, done >>

TimerUncounted == inflight

\* idle.increment() of the timer thread.
TimerCounted == inflight + 1

\* DispatchPush and DispatchNotify follow.
TimerCount ==
  /\ pc[Timer] = "popped"
  /\ ~ LockHeld
  /\ inflight' = TimerCounted
  /\ Goto(Timer, "counted")
  /\ UNCHANGED << background, main, heap, due, cur, job, mode, seen, quota,
                  late, fresh, done >>

TimerThread == (\E k \in Timers : TimerPop(k)) \/ TimerCount

----------------------------------------------------------------------------
\* The main thread.

\* The turns run_ready_main_tasks takes: what is queued when it begins.
Quota == Len(main)

\* The caller's code, not a task, calls the entry point.
CallRun(m) ==
  /\ pc[Main] = "run" /\ cur[Main] = NoTask
  /\ mode' = m
  /\ quota' = IF m = "run_ready" THEN Quota ELSE 0
  /\ Goto(Main, "top")
  /\ UNCHANGED << background, main, heap, due, inflight, cur, job, seen,
                  late, fresh, done >>

MayRunTask ==
  CASE mode = "run_until_idle" -> TRUE
    [] mode = "run_until" -> ~ Ready
    [] mode = "run_ready" -> quota > 0

\* run_one_main_task
MainPop ==
  /\ pc[Main] = "top" /\ MayRunTask /\ main # << >>
  /\ cur' = [cur EXCEPT ![Main] = Head(main)]
  /\ main' = Tail(main)
  /\ quota' = IF mode = "run_ready" THEN quota - 1 ELSE 0
  /\ Goto(Main, "run")
  /\ UNCHANGED << background, heap, due, inflight, job, mode, seen, late,
                  fresh, done >>

MainFinish ==
  /\ pc[Main] = "run" /\ cur[Main] # NoTask
  /\ done' = done \cup {cur[Main]}
  /\ cur' = [cur EXCEPT ![Main] = NoTask]
  /\ Goto(Main, "top")
  /\ UNCHANGED << background, main, heap, due, inflight, job, mode, seen,
                  quota, late, fresh >>

\* run_until_idle: with a due timer pending, wait a millisecond or for a
\* notification; otherwise take the mutex.
MainIdleScan ==
  /\ pc[Main] = "top" /\ mode = "run_until_idle" /\ main = << >>
  /\ Goto(Main, IF heap \cap due # {} THEN "nap" ELSE "lock")
  /\ UNCHANGED << background, main, heap, due, inflight, cur, job, mode,
                  seen, quota, late, fresh, done >>

\* run_until: read the next deadline, then take the mutex.
MainUntilScan ==
  /\ pc[Main] = "top" /\ mode = "run_until" /\ ~ Ready /\ main = << >>
  /\ IF heap = {} THEN seen' = NoTask ELSE seen' \in heap
  /\ Goto(Main, "lock")
  /\ UNCHANGED << background, main, heap, due, inflight, cur, job, mode,
                  quota, late, fresh, done >>

MainLock ==
  /\ pc[Main] = "lock"
  /\ Goto(Main, "locked")
  /\ UNCHANGED << background, main, heap, due, inflight, cur, job, mode,
                  seen, quota, late, fresh, done >>

CheckSkipped == FALSE

\* What makes the loop start over instead of sleeping.
MoreToDo == main # << >> \/ (mode = "run_until" /\ Ready)

\* The checks under the mutex.
MainCheck ==
  /\ pc[Main] = "locked"
  /\ Goto(Main, CASE MoreToDo -> "top"
                  [] ~ MoreToDo /\ mode = "run_until_idle" /\ inflight = 0
                       -> "returned"
                  [] OTHER -> "sleepy")
  /\ UNCHANGED << background, main, heap, due, inflight, cur, job, mode,
                  seen, quota, late, fresh, done >>

\* condvar.wait releases the mutex.
MainSleep ==
  /\ pc[Main] = "sleepy"
  /\ Goto(Main, "wait")
  /\ UNCHANGED << background, main, heap, due, inflight, cur, job, mode,
                  seen, quota, late, fresh, done >>

\* wait_for(1 ms), or wait_until the deadline that was read.
MainTimeout ==
  /\ \/ pc[Main] = "nap"
     \/ pc[Main] = "wait" /\ seen # NoTask /\ seen \in due
  /\ Goto(Main, "top")
  /\ UNCHANGED << background, main, heap, due, inflight, cur, job, mode,
                  seen, quota, late, fresh, done >>

\* run_until and run_ready_main_tasks return.
MainReturn ==
  /\ pc[Main] = "top"
  /\ \/ mode = "run_until" /\ Ready
     \/ mode = "run_ready" /\ (quota = 0 \/ main = << >>)
  /\ Goto(Main, "returned")
  /\ UNCHANGED << background, main, heap, due, inflight, cur, job, mode,
                  seen, quota, late, fresh, done >>

MainLoop ==
  \/ MainPop \/ MainFinish \/ MainIdleScan \/ MainUntilScan \/ MainLock
  \/ MainCheck \/ MainSleep \/ MainTimeout \/ MainReturn

\* The caller goes on.
ReturnToCaller ==
  /\ pc[Main] = "returned"
  /\ Goto(Main, "run")
  /\ mode' = "none" /\ seen' = NoTask /\ quota' = 0 /\ late' = {}
  /\ UNCHANGED << background, main, heap, due, inflight, cur, job, fresh,
                  done >>

----------------------------------------------------------------------------
Next ==
  \/ \E t \in Threads : Dispatch(t)
  \/ \E w \in Workers : Worker(w)
  \/ \E k \in Timers : TimePasses(k)
  \/ TimerThread
  \/ \E m \in Modes : CallRun(m)
  \/ MainLoop \/ ReturnToCaller

Spec == Init /\ [][Next]_vars

\* Every thread that can go on does, a runnable returns, and time passes.  The
\* timer thread gets the mutex although the main thread takes it again and
\* again (parking_lot hands a contended mutex over after a while).  What
\* tasks, callers and external threads dispatch, and whether the caller calls
\* again, is up to them.
Fairness ==
  /\ \A t \in Threads : WF_vars(DispatchPush(t)) /\ WF_vars(DispatchNotify(t))
  /\ \A w \in Workers : WF_vars(Worker(w))
  /\ \A k \in Timers : WF_vars(TimePasses(k))
  /\ SF_vars(TimerThread)
  /\ WF_vars(MainLoop)

FairSpec == Spec /\ Fairness

----------------------------------------------------------------------------
\* The queues, the timer heap and the in-flight count have their types, and
\* each thread is at a label of its own loop.
TypeOK ==
  /\ background \in [Priorities -> Seq(Tasks)]
  /\ main \in Seq(Tasks)
  /\ heap \subseteq Timers /\ due \subseteq Timers
  /\ inflight \in Nat
  /\ \A t \in External : pc[t] \in {"run", "counted", "pushed"}
  /\ \A w \in Workers :
       pc[w] \in {"pop", "waiting", "run", "finish", "counted", "pushed"}
  /\ pc[Timer] \in {"scan", "popped", "counted", "pushed"}
  /\ pc[Main] \in {"run", "counted", "pushed", "top", "nap", "lock", "locked",
                   "sleepy", "wait", "returned"}
  /\ cur \in [Threads -> Tasks \cup {NoTask}]
  /\ job \in [Threads -> Tasks \cup {NoTask}]
  /\ mode \in Modes \cup {"none"} /\ seen \in Timers \cup {NoTask}
  /\ quota \in Nat
  /\ late \subseteq Tasks
  /\ fresh \subseteq Tasks /\ done \subseteq Tasks

\* The in-flight count is the number of runnables that are queued for the
\* workers, running on one, or between the increment of dispatch (or of the
\* timer thread) and their push: it never underflows and is zero only when
\* there is none.
InflightExact ==
  inflight = Cardinality(Queued)
             + Cardinality({w \in Workers : cur[w] # NoTask})
             + Cardinality({t \in Threads : pc[t] = "counted"})

\* run_until_idle returns only when no runnable is queued or running on a
\* worker and the queue of the main thread is empty, whoever dispatched what
\* while it looked, provided that no external thread dispatches and that no
\* timer was dispatched.
IdleMeansQuiet ==
  pc[Main] = "returned" /\ mode = "run_until_idle" /\ Timers \subseteq fresh
    => Queued = {} /\ main = << >> /\ \A w \in Workers : cur[w] = NoTask

\* run_ready_main_tasks runs only what was queued when it began: a task that
\* its runnables queue stays for the next call.
BatchOnly == [][ MainPop => Head(main) \notin late ]_vars

\* No wakeup of a worker is lost: a runnable that is queued is run.
BackgroundRuns == \A k \in Tasks : k \in Queued ~> k \in done

\* A pending timer leaves the heap, and one that the timer thread has taken is
\* run by a worker, though the main thread may be in a call or not.
TimersFire ==
  \A k \in Timers :
    /\ k \in heap ~> k \notin heap
    /\ k = job[Timer] ~> k \in done

\* No wakeup of the main thread is lost: inside run_until or run_until_idle, a
\* runnable queued for the main thread is run unless the call returns first.
MainTaskRuns ==
  \A k \in Tasks :
    k \in Elems(main) /\ Calling ~> k \in done \/ pc[Main] = "returned"

\* run_until returns once its condition holds, and run_until_idle returns.
CallReturns ==
  Calling /\ (mode = "run_until" => Ready) ~> pc[Main] = "returned"

\* Nothing that was dispatched is forgotten, to whichever queue it went.
EveryTaskRuns == BackgroundRuns /\ MainTaskRuns /\ TimersFire
=============================================================================
