---------------------------- MODULE LinuxExecutor --------------------------
(***************************************************************************)
(* The executors (crates/gpui/src/executor.rs) on the Linux dispatcher     *)
(* (crates/gpui-linux/src/linux/dispatcher.rs): tasks on a pool of worker  *)
(* threads, on the main thread and on the timer thread; tasks that await   *)
(* others, run them in a Scope, or block their thread on them with or      *)
(* without a timeout; cancellation by dropping a task; and the end of the  *)
(* main loop.                                                              *)
(*                                                                         *)
(* The dispatcher has one Parker behind a mutex for all threads.  A thread *)
(* that blocks takes the mutex once for the unparker, and holds it for as  *)
(* long as it is parked.                                                   *)
(*                                                                         *)
(* A task is its future and its runnable; async_task itself is external.   *)
(* A running task does what its code may do: it starts other tasks once    *)
(* and waits for them in one of the ways above, then ends.  A queue is the *)
(* set of its "queued" tasks: the executors promise no order.              *)
(***************************************************************************)
EXTENDS Integers, FiniteSets

CONSTANTS
  MainThread, Workers, Timer,   \* threads
  Pools,                  \* the sets of workers that new may start, one for each processor
  Tasks, Homes,           \* bound: the tasks; where they may run, see home
  Roots,                  \* tasks a callback of the main thread may start
  Endless,                \* tasks that may wait for something that never comes
  BlockingHomes,          \* the homes whose tasks may block their thread
  NoTask, NoThread

ASSUME LinuxExecutorAssumption ==
  /\ Homes \subseteq [Tasks -> {"main", "bg", "timer"}]
  /\ Roots \subseteq Tasks /\ Endless \subseteq Tasks /\ BlockingHomes \subseteq {"main", "bg"}
  /\ NoTask \notin Tasks
  /\ Pools \subseteq SUBSET Workers /\ {} \notin Pools
  /\ MainThread # Timer /\ {MainThread, Timer} \cap Workers = {}
  /\ NoThread \notin Workers \cup {MainThread, Timer}

Threads == Workers \cup {MainThread, Timer}

VARIABLES
  home,      \* the executor of a task: "main", "bg" or "timer"; never changes
  started,   \* the threads there are; never changes
  st,        \* fresh, queued, running, suspended, done, or lost (forgotten)
  closed,    \* tasks whose handle was dropped: cancelled
  parent,    \* the task that holds the handle
  waker,     \* what a task's end wakes: "none", "task" or "unpark"
  wait,      \* how a task waits for its kids
  kids,      \* the tasks it waits for
  chan,      \* tasks whose Scope has registered for the end of its channel
  dropping,  \* tasks whose future is being dropped
  doing, on,    \* where a thread is, and the task it runs
  token,     \* the token of the Parker
  lock,      \* the thread that holds the mutex of the Parker
  deadline,  \* of a thread's block_with_timeout: none, before, due or past
  mainOpen,  \* the receiver of the main thread's channel exists
  endedOn,   \* history: the thread that ended or dropped a task of the main thread
  scopeOf,   \* history: the task whose Scope a task was spawned into
  crowded    \* history: threads whose blocking call overlaps with another one

executorVars == << home, started, st, closed, parent, waker, wait, kids, chan, dropping, doing,
                   on, token, lock, deadline, mainOpen, endedOn, scopeOf, crowded >>

parker == << token, lock >>
blocking == {"unparker", "bpoll", "lock", "parked"}

\* Thread h begins to block: with others, their calls overlap.
Crowd(h) ==
  LET others == {g \in Threads : doing[g] \in blocking}
  IN  IF others = {} THEN crowded ELSE crowded \cup others \cup {h}

Fresh == {t \in Tasks : st[t] = "fresh"}
Live(t) == st[t] \in {"queued", "running", "suspended", "lost"}

ScheduledOrDropped(t) == IF home[t] = "main" /\ ~mainOpen THEN "done" ELSE "queued"

\* The schedule function of a task.  When the receiver is gone,
\* dispatch_on_main_thread forgets the runnable.
Scheduled(t) == IF home[t] = "main" /\ ~mainOpen THEN "lost" ELSE "queued"

ThreadsOf(t) == CASE home[t] = "main" -> {MainThread}
                  [] home[t] = "timer" -> {Timer}
                  [] OTHER -> Workers

ExecutorInit ==
  /\ home \in Homes
  /\ \E pool \in Pools : started = pool \cup {MainThread, Timer}
  /\ st = [t \in Tasks |-> "fresh"] /\ closed = {}
  /\ parent = [t \in Tasks |-> NoTask]
  /\ waker = [t \in Tasks |-> "none"]
  /\ wait = [t \in Tasks |-> "new"] /\ kids = [t \in Tasks |-> {}]
  /\ chan = {} /\ dropping = {}
  /\ doing = [h \in Threads |-> "idle"] /\ on = [h \in Threads |-> NoTask]
  /\ token = FALSE /\ lock = NoThread
  /\ deadline = [h \in Threads |-> "none"]
  /\ mainOpen = TRUE
  /\ endedOn = [t \in Tasks |-> NoThread]
  /\ scopeOf = [t \in Tasks |-> NoTask]
  /\ crowded = {}

----------------------------------------------------------------------------
(* Spawning, running, ending and cancelling a task                         *)

\* A callback of the main thread spawns a task (BackgroundExecutor::spawn,
\* timer, ForegroundExecutor::spawn) and keeps the handle.
SpawnRoot(t) ==
  /\ doing[MainThread] = "idle" /\ mainOpen /\ t \in Fresh \cap Roots
  /\ st' = [st EXCEPT ![t] = "queued"]
  /\ UNCHANGED << home, started, closed, parent, waker, wait, kids, chan, dropping, doing, on,
                  parker, deadline, mainOpen, endedOn, scopeOf, crowded >>

\* A thread takes a runnable and runs it: a cancelled task's future is
\* dropped, any other is polled where it left off.
Take(h, t) ==
  /\ doing[h] = "idle" /\ st[t] = "queued" /\ h \in started \cap ThreadsOf(t)
  /\ st' = [st EXCEPT ![t] = "running"]
  /\ on' = [on EXCEPT ![h] = t]
  /\ LET drop == t \in closed \/ (home[t] = "main" /\ ~mainOpen)
     IN  /\ doing' = [doing EXCEPT ![h] = IF drop THEN "drop"
                                    ELSE IF wait[t] = "new" THEN "code" ELSE "poll"]
         /\ dropping' = IF drop THEN dropping \cup {t} ELSE dropping
  /\ UNCHANGED << home, started, closed, parent, waker, wait, kids, chan, parker, deadline,
                  mainOpen, endedOn, scopeOf, crowded >>

\* The Scope keeps its own sender, or a future never drops its one.
NoSender(t) == FALSE

\* The wakes that the end of task t causes: the task that awaits it is
\* scheduled, the thread that blocks on it is unparked; so is the one whose
\* Scope waits for its last sender.
LastSender(t) == /\ parent[t] \in chan
                 /\ \A k \in kids[parent[t]] \ {t} : ~Live(k)

\* The code of the task returns, or the drop of its future is over.
End(h) ==
  LET t == on[h]
      p == parent[t]
  IN  /\ doing[h] \in {"code", "end"}
      /\ st' = [u \in Tasks |->
                  IF u = t THEN "done"
                  ELSE IF u = p /\ waker[t] = "task" /\ st[u] = "suspended"
                  THEN Scheduled(u) ELSE st[u]]
      /\ token' = (token \/ waker[t] = "unpark" \/ LastSender(t))
      /\ chan' = IF LastSender(t) THEN chan \ {p} ELSE chan
      /\ doing' = [doing EXCEPT ![h] = "idle"] /\ on' = [on EXCEPT ![h] = NoTask]
      /\ endedOn' = [endedOn EXCEPT ![t] = IF home[t] = "main" THEN h ELSE @]
      /\ dropping' = dropping \ {t} /\ closed' = closed \ {t}
      /\ parent' = [parent EXCEPT ![t] = NoTask] /\ waker' = [waker EXCEPT ![t] = "none"]
      /\ wait' = [wait EXCEPT ![t] = "over"] /\ kids' = [kids EXCEPT ![t] = {}]
      /\ scopeOf' = [scopeOf EXCEPT ![t] = NoTask]
      /\ UNCHANGED << home, started, lock, deadline, mainOpen, crowded >>

\* Dropping the handles of the tasks in K: each is closed, its awaiter is
\* woken, and one that is not scheduled is scheduled so that its future is
\* dropped where it belongs.
Cancelled(K) == [u \in Tasks |-> IF u \in K /\ st[u] = "suspended" THEN Scheduled(u)
                                 ELSE st[u]]
WokenByCancel(K) == \E k \in K : Live(k) /\ waker[k] = "unpark"

CancelRoot(t) ==
  /\ doing[MainThread] = "idle" /\ parent[t] = NoTask /\ Live(t) /\ t \notin closed
  /\ closed' = closed \cup {t} /\ st' = Cancelled({t})
  /\ UNCHANGED << home, started, parent, waker, wait, kids, chan, dropping, doing, on, parker,
                  deadline, mainOpen, endedOn, scopeOf, crowded >>

NoDropImpl(t) == FALSE

\* The future of the task holds a Scope, whose drop blocks.
HasScope(t) == wait[t] = "scope"

\* The future of the task is dropped: with it the handles of the tasks it
\* awaits, and its Scope, if it has one.
DropFuture(h) ==
  LET t == on[h]
  IN  /\ doing[h] = "drop"
      /\ closed' = closed \cup kids[t] /\ st' = Cancelled(kids[t])
      /\ token' = (token \/ WokenByCancel(kids[t]))
      /\ IF HasScope(t)
         THEN /\ wait' = [wait EXCEPT ![t] = "scopedrop"]
              /\ doing' = [doing EXCEPT ![h] = "unparker"]
              /\ crowded' = Crowd(h)
         ELSE /\ wait' = [wait EXCEPT ![t] = "over"]
              /\ doing' = [doing EXCEPT ![h] = "end"]
              /\ UNCHANGED crowded
      /\ UNCHANGED << home, started, parent, waker, kids, chan, dropping, on, lock, deadline,
                      mainOpen, endedOn, scopeOf >>

----------------------------------------------------------------------------
(* What the code of a task does                                            *)

\* The task waits for something that never comes.
Hang(h) ==
  /\ doing[h] = "code" /\ on[h] \in Endless /\ home[on[h]] # "timer" /\ wait[on[h]] = "new"
  /\ wait' = [wait EXCEPT ![on[h]] = "hang"]
  /\ doing' = [doing EXCEPT ![h] = "poll"]
  /\ UNCHANGED << home, started, st, closed, parent, waker, kids, chan, dropping, on, parker,
                  deadline, mainOpen, endedOn, scopeOf, crowded >>

MaySpawn(t, mode) ==
  CASE mode = "await" -> IF home[t] = "main" THEN Tasks
                         ELSE {u \in Tasks : home[u] # "main"}
    [] mode = "scope" -> {u \in Tasks : home[u] = "bg"}
    [] OTHER -> {u \in Tasks : home[u] # "main"}

\* The task spawns K and waits: .await, BackgroundExecutor::scoped, block or
\* block_with_timeout.
Begin(h, mode, K) ==
  LET t == on[h]
  IN  /\ doing[h] = "code" /\ wait[t] = "new" /\ home[t] # "timer"
      /\ mode # "await" => home[t] \in BlockingHomes
      /\ K # {} /\ K \subseteq Fresh \cap MaySpawn(t, mode)
      /\ st' = [u \in Tasks |-> IF u \in K THEN Scheduled(u) ELSE st[u]]
      /\ parent' = [u \in Tasks |-> IF u \in K THEN t ELSE parent[u]]
      /\ scopeOf' = [u \in Tasks |-> IF u \in K /\ mode = "scope" THEN t ELSE scopeOf[u]]
      /\ wait' = [wait EXCEPT ![t] = mode] /\ kids' = [kids EXCEPT ![t] = K]
      /\ IF mode \in {"block", "timeout"}
         THEN /\ doing' = [doing EXCEPT ![h] = "unparker"]
              /\ crowded' = Crowd(h)
         ELSE doing' = [doing EXCEPT ![h] = "poll"] /\ UNCHANGED crowded
      /\ deadline' = [deadline EXCEPT ![h] = IF mode = "timeout" THEN "before" ELSE @]
      /\ UNCHANGED << home, started, closed, waker, chan, dropping, on, parker, mainOpen,
                      endedOn >>

\* The task is polled: it goes on when all its kids have ended, otherwise it
\* registers with one of them and is suspended, or dropped if cancelled.
\* After the last await of scoped the Scope is dropped.
PollReady(h) ==
  LET t == on[h]
  IN  /\ doing[h] = "poll" /\ wait[t] # "hang"
      /\ \A k \in kids[t] : ~Live(k)
      /\ IF HasScope(t)
         THEN /\ wait' = [wait EXCEPT ![t] = "scopedrop"]
              /\ doing' = [doing EXCEPT ![h] = "unparker"]
              /\ crowded' = Crowd(h)
         ELSE /\ wait' = [wait EXCEPT ![t] = "over"]
              /\ doing' = [doing EXCEPT ![h] = "code"]
              /\ UNCHANGED crowded
      /\ UNCHANGED << home, started, st, closed, parent, waker, kids, chan, dropping, on,
                      parker, deadline, mainOpen, endedOn, scopeOf >>

PollPending(h) ==
  LET t == on[h]
      left == {k \in kids[t] : Live(k)}
  IN  /\ doing[h] = "poll" /\ (wait[t] = "hang" \/ left # {})
      /\ waker' \in IF left = {} THEN {waker}
                    ELSE {[waker EXCEPT ![k] = "task"] : k \in left}
      /\ IF t \in closed
         THEN /\ doing' = [doing EXCEPT ![h] = "drop"] /\ dropping' = dropping \cup {t}
              /\ UNCHANGED << st, on >>
         ELSE /\ st' = [st EXCEPT ![t] = "suspended"]
              /\ doing' = [doing EXCEPT ![h] = "idle"] /\ on' = [on EXCEPT ![h] = NoTask]
              /\ UNCHANGED dropping
      /\ UNCHANGED << home, started, closed, parent, wait, kids, chan, parker, deadline,
                      mainOpen, endedOn, scopeOf, crowded >>

----------------------------------------------------------------------------
(* block_internal                                                          *)

\* dispatcher.unparker() locks the Parker.
Unparker(h) ==
  /\ doing[h] = "unparker" /\ lock = NoThread
  /\ doing' = [doing EXCEPT ![h] = "bpoll"]
  /\ UNCHANGED << home, started, st, closed, parent, waker, wait, kids, chan, dropping, on,
                  parker, deadline, mainOpen, endedOn, scopeOf, crowded >>

\* The future is ready: the call returns, to the code or to the drop of the
\* task's future.
BlockReady(h) ==
  LET t == on[h]
  IN  /\ doing[h] = "bpoll"
      /\ \A k \in kids[t] : ~Live(k)
      /\ wait' = [wait EXCEPT ![t] = "over"] /\ kids' = [kids EXCEPT ![t] = {}]
      /\ doing' = [doing EXCEPT ![h] = IF t \in dropping THEN "end" ELSE "code"]
      /\ deadline' = [deadline EXCEPT ![h] = "none"] /\ crowded' = crowded \ {h}
      /\ UNCHANGED << home, started, st, closed, parent, waker, chan, dropping, on, parker,
                      mainOpen, endedOn, scopeOf >>

\* It is not: the waker is registered with one of the tasks, or with the
\* channel of the Scope.
BlockPending(h) ==
  LET t == on[h]
      left == {k \in kids[t] : Live(k)}
  IN  /\ doing[h] = "bpoll" /\ left # {}
      /\ IF wait[t] = "scopedrop"
         THEN chan' = chan \cup {t} /\ UNCHANGED waker
         ELSE /\ waker' \in {[waker EXCEPT ![k] = "unpark"] : k \in left}
              /\ UNCHANGED chan
      /\ doing' = [doing EXCEPT ![h] = "lock"]
      /\ UNCHANGED << home, started, st, closed, parent, wait, kids, dropping, on, parker,
                      deadline, mainOpen, endedOn, scopeOf, crowded >>

\* dispatcher.park locks the Parker and waits for its token.
Park(h) ==
  /\ doing[h] = "lock" /\ lock = NoThread
  /\ lock' = h /\ doing' = [doing EXCEPT ![h] = "parked"]
  /\ UNCHANGED << home, started, st, closed, parent, waker, wait, kids, chan, dropping, on,
                  token, deadline, mainOpen, endedOn, scopeOf, crowded >>

Unparked(h) ==
  /\ doing[h] = "parked" /\ token
  /\ token' = FALSE /\ lock' = NoThread /\ doing' = [doing EXCEPT ![h] = "bpoll"]
  /\ UNCHANGED << home, started, st, closed, parent, waker, wait, kids, chan, dropping, on,
                  deadline, mainOpen, endedOn, scopeOf, crowded >>

Clock(h) ==
  /\ deadline[h] \in {"before", "due"}
  /\ deadline' = [deadline EXCEPT ![h] = IF @ = "before" THEN "due" ELSE "past"]
  /\ UNCHANGED << home, started, st, closed, parent, waker, wait, kids, chan, dropping, doing,
                  on, parker, mainOpen, endedOn, scopeOf, crowded >>

\* park_timeout gives up.  Only when the deadline lies in the past does the
\* call return; the future it gives back is dropped with its tasks.
ParkTimeout(h) ==
  LET t == on[h]
  IN  /\ doing[h] = "parked" /\ ~token /\ deadline[h] \in {"due", "past"}
      /\ lock' = NoThread
      /\ IF deadline[h] = "past"
         THEN /\ closed' = closed \cup kids[t] /\ st' = Cancelled(kids[t])
              /\ token' = WokenByCancel(kids[t])
              /\ wait' = [wait EXCEPT ![t] = "over"]
              /\ doing' = [doing EXCEPT ![h] = "code"]
              /\ deadline' = [deadline EXCEPT ![h] = "none"] /\ crowded' = crowded \ {h}
         ELSE /\ doing' = [doing EXCEPT ![h] = "bpoll"]
              /\ UNCHANGED << closed, st, token, wait, deadline, crowded >>
      /\ UNCHANGED << home, started, parent, waker, kids, chan, dropping, on, mainOpen, endedOn,
                      scopeOf >>

\* The main loop ends and its receiver is dropped; what is still queued for
\* it is dropped by the main thread.
Quit ==
  /\ doing[MainThread] = "idle" /\ mainOpen /\ mainOpen' = FALSE
  /\ UNCHANGED << home, started, st, closed, parent, waker, wait, kids, chan, dropping, doing,
                  on, parker, deadline, endedOn, scopeOf, crowded >>

----------------------------------------------------------------------------
Step(h) ==
  \/ \E t \in Tasks : Take(h, t)
  \/ End(h) \/ DropFuture(h) \/ Hang(h)
  \/ PollReady(h) \/ PollPending(h)
  \/ Unparker(h) \/ BlockReady(h) \/ BlockPending(h) \/ Park(h) \/ Unparked(h)
  \/ ParkTimeout(h)

ExecutorNext ==
  \/ \E h \in Threads : Step(h) \/ Clock(h)
  \/ \E h \in Threads, mode \in {"await", "scope", "block", "timeout"}, K \in SUBSET Tasks :
       Begin(h, mode, K)
  \/ \E t \in Tasks : SpawnRoot(t) \/ CancelRoot(t)
  \/ Quit

ExecutorSpec == ExecutorInit /\ [][ExecutorNext]_executorVars

\* Every thread is scheduled and time passes; who gets a free mutex is open,
\* but a thread that finds it free again and again gets it.
ExecutorFairness == \A h \in Threads : SF_executorVars(Step(h)) /\ WF_executorVars(Clock(h))
LiveExecutorSpec == ExecutorSpec /\ ExecutorFairness

----------------------------------------------------------------------------
(* Properties                                                              *)

ExecutorTypeOK ==
  /\ home \in [Tasks -> {"main", "bg", "timer"}]
  /\ st \in [Tasks -> {"fresh", "queued", "running", "suspended", "done", "lost"}]
  /\ closed \subseteq Tasks /\ parent \in [Tasks -> Tasks \cup {NoTask}]
  /\ waker \in [Tasks -> {"none", "task", "unpark"}]
  /\ wait \in [Tasks -> {"new", "await", "scope", "block", "timeout", "scopedrop", "hang",
                     "over"}]
  /\ kids \in [Tasks -> SUBSET Tasks] /\ chan \subseteq Tasks /\ dropping \subseteq Tasks
  /\ doing \in [Threads -> {"idle", "code", "poll", "end", "drop"} \cup blocking]
  /\ on \in [Threads -> Tasks \cup {NoTask}]
  /\ token \in BOOLEAN /\ lock \in Threads \cup {NoThread}
  /\ deadline \in [Threads -> {"none", "before", "due", "past"}]
  /\ mainOpen \in BOOLEAN /\ endedOn \in [Tasks -> Threads \cup {NoThread}]
  /\ scopeOf \in [Tasks -> Tasks \cup {NoTask}] /\ crowded \subseteq Threads
  /\ started \subseteq Threads

\* The transmute in Scope::spawn: a future spawned into a Scope borrows from
\* the task that made the Scope, so it is gone before that task leaves the
\* call to scoped, even when the task is cancelled half way.
ScopeOutlivesFutures ==
  \A c \in Tasks : scopeOf[c] # NoTask /\ Live(c) =>
    Live(scopeOf[c]) /\ wait[scopeOf[c]] \in {"scope", "scopedrop"}

\* Checked in spawn_local: the future of a task of the main thread ends and
\* is dropped on the main thread, also when a worker or the timer wakes it
\* after the main loop has ended.
LocalFutureStaysOnMain ==
  \A t \in Tasks : home[t] = "main" /\ st[t] = "done" => endedOn[t] = MainThread

Stuck == \E t \in Tasks : wait[t] = "hang"

\* Every worker waits, with no deadline, for a task that only a worker can run.
Starved ==
  \A w \in started \cap Workers :
    /\ doing[w] \in blocking /\ deadline[w] = "none"
    /\ \E k \in kids[on[w]] : st[k] = "queued" /\ home[k] = "bg"

\* A thread that calls block, block_with_timeout or drops a Scope comes back:
\* from the second and the third even if a task never ends.  The property
\* excuses a call that overlaps with one of another thread, and a machine all
\* of whose workers are blocked on tasks that need a worker: with one worker,
\* one call is enough.
BlockReturns ==
  \A h \in Workers \cup {MainThread} :
    doing[h] \in blocking ~>
      \/ doing[h] \notin blocking \/ h \in crowded \/ Starved
      \/ wait[on[h]] = "block" /\ Stuck

\* "Block the current thread until the given future resolves": the same without
\* the first excuse, and without the second.  Neither holds.
OverlappingBlocksReturn ==
  \A h \in Workers \cup {MainThread} :
    doing[h] \in blocking ~>
      (doing[h] \notin blocking \/ Starved \/ (wait[on[h]] = "block" /\ Stuck))
LastWorkerReturns ==
  \A h \in Workers \cup {MainThread} :
    doing[h] \in blocking ~>
      (doing[h] \notin blocking \/ h \in crowded \/ (wait[on[h]] = "block" /\ Stuck))

\* A cancelled task ends or is dropped: cancelling reaches a task that is
\* queued, running, suspended, or waits for something that never comes, and its
\* Scope with it.  It does not reach a thread that blocks for ever (see
\* BlockReturns), nor a task whose runnable was forgotten.
CancelledTaskEnds ==
  \A t \in Tasks : (t \in closed) ~>
    \/ st[t] \in {"done", "lost"}
    \/ crowded # {} \/ Starved
    \/ Stuck /\ \E u \in Tasks : wait[u] = "block"
============================================================================
