----------------------------- MODULE LinuxProofs ---------------------------
(***************************************************************************)
(* Three parts of crates/gpui-linux that do not interact.                  *)
(*                                                                         *)
(* The executors on the Linux dispatcher, for every number of workers and  *)
(* tasks: a Scope outlives the futures spawned into it, and the future of  *)
(* a task of the main thread ends there.                                   *)
(*                                                                         *)
(* The clipboard of X11, for any list of formats and any number of chunks: *)
(* an owner has what it wrote, and a read returns the first format offered.*)
(*                                                                         *)
(* The frame loop of a Wayland window, for any number of failed            *)
(* presentations, lost devices and calls of hide and show: a window parks  *)
(* only when it is done, and while it waits it has the wake-up armed that  *)
(* it waits for.                                                           *)
(***************************************************************************)
EXTENDS X11Clipboard, WaylandFrame, LinuxExecutor, TLAPS

(***************************************************************************)
(* The executors on the Linux dispatcher                                   *)
(***************************************************************************)

\* What a thread does, what its task waits for and its deadline go together.
Fits(d, w, l) ==
  /\ d \in {"code", "end"} => w \in {"new", "over"}
  /\ d = "poll" => w \in {"await", "scope", "hang"}
  /\ d = "drop" => w \in {"new", "await", "scope", "hang"}
  /\ d \in blocking => w \in {"block", "timeout", "scopedrop"}
  /\ l # "none" => d \in blocking /\ w = "timeout"

\* A thread that is not idle runs a task of its own home, no task is run by
\* two threads, and how the task waits fits to where the thread is.
ThreadsInv ==
  /\ \A h \in Threads : doing[h] # "idle" =>
       on[h] \in Tasks /\ st[on[h]] = "running" /\ h \in ThreadsOf(on[h])
  /\ \A h, g \in Threads : doing[h] # "idle" /\ doing[g] # "idle" /\ on[h] = on[g] => h = g
  /\ \A h \in Threads : Fits(doing[h], wait[on[h]], deadline[h])

\* A task that no thread runs has not begun to wait, or waits in an await.
WaitInv ==
  \A t \in Tasks :
    /\ st[t] \in {"queued", "suspended", "lost"} => wait[t] \in {"new", "await", "scope", "hang"}
    /\ st[t] = "fresh" => wait[t] = "new" /\ scopeOf[t] = NoTask

\* A live task of a Scope is one the maker of the Scope waits for.
ScopeInv ==
  \A c \in Tasks : scopeOf[c] # NoTask /\ Live(c) =>
    /\ scopeOf[c] \in Tasks /\ c \in kids[scopeOf[c]] /\ Live(scopeOf[c])
    /\ wait[scopeOf[c]] \in {"scope", "scopedrop"}

ExecutorInv == ExecutorTypeOK /\ ThreadsInv /\ WaitInv /\ ScopeInv /\ LocalFutureStaysOnMain

\* What the steps below need of the types.
ExecutorDomains ==
  /\ DOMAIN home = Tasks /\ DOMAIN st = Tasks /\ DOMAIN wait = Tasks
  /\ DOMAIN kids = Tasks /\ DOMAIN scopeOf = Tasks /\ DOMAIN endedOn = Tasks
  /\ DOMAIN doing = Threads /\ DOMAIN on = Threads /\ DOMAIN deadline = Threads

\* Every action keeps the types.
LEMMA ExecutorTypeStep ==
  ASSUME ExecutorInv, ExecutorNext PROVE ExecutorTypeOK'
<1>a. ExecutorTypeOK /\ \A h \in Threads : doing[h] # "idle" => on[h] \in Tasks
  BY Zenon DEF ExecutorInv, ThreadsInv
<1>b. \A h \in Threads : Crowd(h) \subseteq Threads
  BY <1>a DEF Crowd, ExecutorTypeOK
<1> USE <1>a DEF ExecutorTypeOK, parker, blocking
<1>1. ASSUME NEW t \in Tasks, SpawnRoot(t) PROVE ExecutorTypeOK'
  BY Zenon, <1>1 DEF SpawnRoot, Fresh
<1>2. ASSUME NEW t \in Tasks, CancelRoot(t) PROVE ExecutorTypeOK'
  BY <1>2 DEF CancelRoot, Cancelled, Scheduled
<1>3. ASSUME NEW h \in Threads, NEW t \in Tasks, Take(h, t) PROVE ExecutorTypeOK'
  BY <1>3 DEF Take
<1>4. ASSUME NEW h \in Threads, End(h) PROVE ExecutorTypeOK'
  BY <1>4 DEF End, Scheduled
<1>5. ASSUME NEW h \in Threads, DropFuture(h) PROVE ExecutorTypeOK'
  <2>1. token' \in BOOLEAN /\ crowded' \subseteq Threads
    <3>1. token' \in BOOLEAN /\ crowded' \in {crowded, Crowd(h)}
      BY <1>5, Zenon DEF DropFuture, WokenByCancel
    <3>2. QED
      BY Zenon, <1>b, <3>1
  <2>2. QED
    <3>1. closed' \subseteq Tasks
      BY <1>5 DEF DropFuture
    <3>2. st' \in [Tasks -> {"fresh", "queued", "running", "suspended", "done", "lost"}]
      BY <1>5 DEF DropFuture, Cancelled, Scheduled
    <3>3. wait' \in [Tasks -> {"new", "await", "scope", "block", "timeout", "scopedrop", "hang",
                             "over"}]
      BY <1>5 DEF DropFuture
    <3>4. doing' \in [Threads -> {"idle", "code", "poll", "end", "drop"} \cup blocking]
      BY <1>5 DEF DropFuture
    <3>5. QED
      BY Zenon, <1>5, <2>1, <3>1, <3>2, <3>3, <3>4 DEF DropFuture
<1>6. ASSUME NEW h \in Threads, Hang(h) PROVE ExecutorTypeOK'
  BY Zenon, <1>6 DEF Hang
<1>7. ASSUME NEW h \in Threads, NEW how \in {"await", "scope", "block", "timeout"},
             NEW K \in SUBSET Tasks, Begin(h, how, K)
      PROVE  ExecutorTypeOK'
  <2>1. token' \in BOOLEAN /\ crowded' \subseteq Threads
    <3>1. token' \in BOOLEAN /\ crowded' \in {crowded, Crowd(h)}
      BY <1>7, Zenon DEF Begin, WokenByCancel
    <3>2. QED
      BY Zenon, <1>b, <3>1
  <2>2. QED
    <3>1. /\ st' \in [Tasks -> {"fresh", "queued", "running", "suspended", "done", "lost"}]
          /\ parent' \in [Tasks -> Tasks \cup {NoTask}]
          /\ scopeOf' \in [Tasks -> Tasks \cup {NoTask}]
      BY <1>7 DEF Begin, Scheduled
    <3>2. /\ wait' \in [Tasks -> {"new", "await", "scope", "block", "timeout", "scopedrop", "hang",
                                "over"}]
          /\ kids' \in [Tasks -> SUBSET Tasks]
      BY <1>7 DEF Begin
    <3>3. doing' \in [Threads -> {"idle", "code", "poll", "end", "drop"} \cup blocking]
      BY <1>7 DEF Begin
    <3>4. deadline' \in [Threads -> {"none", "before", "due", "past"}]
      BY <1>7 DEF Begin
    <3>5. QED
      BY Zenon, <1>7, <2>1, <3>1, <3>2, <3>3, <3>4 DEF Begin
<1>8. ASSUME NEW h \in Threads, PollReady(h) PROVE ExecutorTypeOK'
  <2>1. token' \in BOOLEAN /\ crowded' \subseteq Threads
    <3>1. token' \in BOOLEAN /\ crowded' \in {crowded, Crowd(h)}
      BY <1>8, Zenon DEF PollReady, WokenByCancel
    <3>2. QED
      BY Zenon, <1>b, <3>1
  <2>2. QED
    <3>1. wait' \in [Tasks -> {"new", "await", "scope", "block", "timeout", "scopedrop", "hang",
                             "over"}]
      BY <1>8 DEF PollReady
    <3>2. doing' \in [Threads -> {"idle", "code", "poll", "end", "drop"} \cup blocking]
      BY <1>8 DEF PollReady
    <3>3. QED
      BY Zenon, <1>8, <2>1, <3>1, <3>2 DEF PollReady
<1>9. ASSUME NEW h \in Threads, PollPending(h) PROVE ExecutorTypeOK'
  <2>1. waker' \in [Tasks -> {"none", "task", "unpark"}]
    BY <1>9 DEF PollPending
  <2>2. st' \in [Tasks -> {"fresh", "queued", "running", "suspended", "done", "lost"}]
    BY <1>9 DEF PollPending
  <2>3. doing' \in [Threads -> {"idle", "code", "poll", "end", "drop"} \cup blocking]
    BY <1>9 DEF PollPending
  <2>4. on' \in [Threads -> Tasks \cup {NoTask}] /\ dropping' \subseteq Tasks
    BY <1>9 DEF PollPending
  <2>5. QED
    BY Zenon, <1>9, <2>1, <2>2, <2>3, <2>4 DEF PollPending
<1>10. ASSUME NEW h \in Threads, Unparker(h) PROVE ExecutorTypeOK'
  BY Zenon, <1>10 DEF Unparker
<1>11. ASSUME NEW h \in Threads, BlockReady(h) PROVE ExecutorTypeOK'
  BY Zenon, <1>11 DEF BlockReady
<1>12. ASSUME NEW h \in Threads, BlockPending(h) PROVE ExecutorTypeOK'
  BY <1>12 DEF BlockPending
<1>13. ASSUME NEW h \in Threads, Park(h) PROVE ExecutorTypeOK'
  BY Zenon, <1>13 DEF Park
<1>14. ASSUME NEW h \in Threads, Unparked(h) PROVE ExecutorTypeOK'
  BY Zenon, <1>14 DEF Unparked
<1>15. ASSUME NEW h \in Threads, ParkTimeout(h) PROVE ExecutorTypeOK'
  <2>1. token' \in BOOLEAN /\ crowded' \subseteq Threads
    BY <1>15, Zenon DEF ParkTimeout, WokenByCancel
  <2>2. QED
    BY <1>15, <2>1 DEF ParkTimeout, Cancelled, Scheduled
<1>16. ASSUME NEW h \in Threads, Clock(h) PROVE ExecutorTypeOK'
  BY Zenon, <1>16 DEF Clock
<1>17. ASSUME Quit PROVE ExecutorTypeOK'
  BY ZenonT(30), <1>17 DEF Quit
<1> HIDE <1>a DEF ExecutorTypeOK, parker, blocking
<1>18. QED
  BY Zenon, <1>1, <1>2, <1>3, <1>4, <1>5, <1>6, <1>7, <1>8, <1>9, <1>10, <1>11,
     <1>12, <1>13, <1>14, <1>15, <1>16, <1>17 DEF ExecutorNext, Step

\* A step of a thread that keeps its task leaves the others alone.
LEMMA OwnStep ==
  ASSUME ThreadsInv, UNCHANGED << home, on >>, NEW h \in Threads, doing[h] # "idle",
         \A g \in Threads : g # h => doing'[g] = doing[g] /\ deadline'[g] = deadline[g],
         \A u \in Tasks : st[u] = "running" => st'[u] = "running",
         \A u \in Tasks : u # on[h] => wait'[u] = wait[u],
         Fits(doing'[h], wait'[on[h]], deadline'[h])
  PROVE  ThreadsInv'
<1>1. \A g \in Threads : doing'[g] # "idle" => doing[g] # "idle"
  BY Zenon
<1>2. \A g \in Threads : doing'[g] # "idle" =>
        on'[g] \in Tasks /\ st'[on'[g]] = "running" /\ g \in ThreadsOf(on[g])
  BY Zenon, <1>1 DEF ThreadsInv
<1>3. \A g \in Threads : g # h /\ doing[g] # "idle" => wait'[on[g]] = wait[on[g]]
  BY Zenon DEF ThreadsInv
<1>4. \A u : ThreadsOf(u)' = ThreadsOf(u)
  BY Zenon DEF ThreadsOf
<1>5. \A g, k \in Threads : doing'[g] # "idle" /\ doing'[k] # "idle" /\ on[g] = on[k] => g = k
  BY Zenon, <1>1 DEF ThreadsInv
<1>6. \A w, v, l : Fits("idle", w, l) => Fits("idle", v, l)
  BY Zenon DEF Fits, blocking
<1>7. ASSUME NEW g \in Threads PROVE Fits(doing'[g], wait'[on[g]], deadline'[g])
  <2>1. CASE g = h
    BY Zenon, <2>1
  <2>2. CASE g # h
    <3>1. doing'[g] = doing[g] /\ deadline'[g] = deadline[g]
      BY Zenon, <2>2
    <3>2. Fits(doing[g], wait[on[g]], deadline[g])
      BY Zenon DEF ThreadsInv
    <3>3. doing[g] # "idle" => wait'[on[g]] = wait[on[g]]
      BY Zenon, <1>3, <2>2
    <3>4. QED
      BY Zenon, <1>6, <3>1, <3>2, <3>3
  <2>3. QED
    BY Zenon, <2>1, <2>2
<1>8. \A d, w, l : Fits(d, w, l)' <=> Fits(d, w, l)
  BY Zenon DEF Fits, blocking
<1>9. QED
  BY Zenon, <1>2, <1>4, <1>5, <1>7, <1>8 DEF ThreadsInv

\* So does a step of no thread.
LEMMA NoThreadStep ==
  ASSUME ThreadsInv, UNCHANGED << home, on, doing, deadline, wait >>,
         \A u \in Tasks : st[u] = "running" => st'[u] = "running"
  PROVE  ThreadsInv'
<1>1. \A u : ThreadsOf(u)' = ThreadsOf(u)
  BY Zenon DEF ThreadsOf
<1>2. \A d, w, l : Fits(d, w, l)' <=> Fits(d, w, l)
  BY Zenon DEF Fits, blocking
<1>3. QED
  BY Zenon, <1>1, <1>2 DEF ThreadsInv

\* Every action keeps ThreadsInv.
LEMMA ThreadsStep ==
  ASSUME ExecutorInv, ExecutorNext PROVE ThreadsInv'
<1>0. ExecutorDomains /\ ThreadsInv /\ WaitInv /\ ScopeInv /\ LocalFutureStaysOnMain
  BY Zenon DEF ExecutorInv, ExecutorTypeOK, ExecutorDomains
<1>a. \A h \in Threads : Fits(doing[h], wait[on[h]], deadline[h])
  BY Zenon, <1>0 DEF ThreadsInv
<1>b. \A h \in Threads : doing[h] # "idle" => on[h] \in Tasks /\ st[on[h]] = "running"
  BY Zenon, <1>0 DEF ThreadsInv
<1> USE DEF ExecutorDomains, blocking
<1>1. ASSUME NEW t \in Tasks, SpawnRoot(t) PROVE ThreadsInv'
  BY Zenon, <1>1, <1>0, NoThreadStep DEF SpawnRoot, Fresh
<1>2. ASSUME NEW t \in Tasks, CancelRoot(t) PROVE ThreadsInv'
  BY Zenon, <1>2, <1>0, NoThreadStep DEF CancelRoot, Cancelled, Scheduled
<1>3. ASSUME NEW h \in Threads, NEW t \in Tasks, Take(h, t) PROVE ThreadsInv'
  <2>1. /\ st' = [st EXCEPT ![t] = "running"] /\ on' = [on EXCEPT ![h] = t]
        /\ st[t] = "queued" /\ h \in ThreadsOf(t) /\ UNCHANGED << home, wait, deadline >>
        /\ \A g \in Threads : g # h => doing'[g] = doing[g]
        /\ doing'[h] \in {"code", "poll", "drop"} /\ doing[h] = "idle"
        /\ doing'[h] = "code" => wait[t] = "new"
        /\ doing'[h] = "poll" => wait[t] # "new"
    BY Zenon, <1>0, <1>a, <1>b, <1>3 DEF Take
  <2>2. QED
    BY <1>0, <2>1 DEF ThreadsInv, WaitInv, ThreadsOf, Fits
<1>4. ASSUME NEW h \in Threads, End(h) PROVE ThreadsInv'
  <2>1. /\ doing' = [doing EXCEPT ![h] = "idle"] /\ on' = [on EXCEPT ![h] = NoTask]
        /\ wait' = [wait EXCEPT ![on[h]] = "over"] /\ UNCHANGED << home, deadline >>
        /\ doing[h] \in {"code", "end"}
    BY Zenon, <1>0, <1>a, <1>b, <1>4 DEF End
  <2>2. \A u \in Tasks : u # on[h] /\ st[u] = "running" => st'[u] = "running"
    BY Zenon, <1>0, <1>a, <1>b, <1>4 DEF End
  <2>3. QED
    BY <1>0, <2>1, <2>2, LinuxExecutorAssumption DEF ThreadsInv, ThreadsOf, Fits
<1>5. ASSUME NEW h \in Threads, DropFuture(h) PROVE ThreadsInv'
  <2>1. /\ UNCHANGED << home, on >> /\ doing[h] # "idle"
        /\ \A g \in Threads : g # h => doing'[g] = doing[g] /\ deadline'[g] = deadline[g]
        /\ \A u \in Tasks : u # on[h] => wait'[u] = wait[u]
    BY Zenon, <1>0, <1>a, <1>b, <1>5 DEF DropFuture
  <2>2. \A u \in Tasks : st[u] = "running" => st'[u] = "running"
    BY Zenon, <1>0, <1>a, <1>b, <1>5 DEF DropFuture, Cancelled
  <2>3. \/ doing'[h] = "unparker" /\ wait'[on[h]] = "scopedrop"
        \/ doing'[h] = "end" /\ wait'[on[h]] = "over"
    BY Zenon, <1>0, <1>a, <1>b, <1>5 DEF DropFuture
  <2>4. deadline'[h] = "none"
    BY Zenon, <1>0, <1>a, <1>b, <1>5 DEF DropFuture, Fits
  <2>5. Fits(doing'[h], wait'[on[h]], deadline'[h])
    BY Zenon, <2>3, <2>4 DEF Fits
  <2>6. QED
    BY Zenon, <2>1, <2>2, <2>5, <1>0, OwnStep
<1>6. ASSUME NEW h \in Threads, Hang(h) PROVE ThreadsInv'
  <2>1. Fits(doing'[h], wait'[on[h]], deadline'[h])
    BY Zenon, <1>0, <1>a, <1>b, <1>6 DEF Hang, Fits
  <2>2. QED
    BY Zenon, <1>b, <1>6, <2>1, <1>0, OwnStep DEF Hang
<1>7. ASSUME NEW h \in Threads, NEW how \in {"await", "scope", "block", "timeout"},
             NEW K \in SUBSET Tasks, Begin(h, how, K)
      PROVE  ThreadsInv'
  <2>1. /\ UNCHANGED << home, on >> /\ doing[h] # "idle"
        /\ \A g \in Threads : g # h => doing'[g] = doing[g] /\ deadline'[g] = deadline[g]
        /\ \A u \in Tasks : u # on[h] => wait'[u] = wait[u]
    BY Zenon, <1>0, <1>a, <1>b, <1>7 DEF Begin
  <2>2. \A u \in Tasks : st[u] = "running" => st'[u] = "running"
    BY Zenon, <1>0, <1>a, <1>b, <1>7 DEF Begin, Fresh
  <2>3. /\ wait'[on[h]] = how
        /\ doing'[h] = IF how \in {"block", "timeout"} THEN "unparker" ELSE "poll"
    BY Zenon, <1>0, <1>a, <1>b, <1>7 DEF Begin
  <2>4. deadline'[h] = IF how = "timeout" THEN "before" ELSE "none"
    BY Zenon, <1>0, <1>a, <1>b, <1>7 DEF Begin, Fits
  <2>5. Fits(doing'[h], wait'[on[h]], deadline'[h])
    BY Zenon, <2>3, <2>4 DEF Fits
  <2>6. QED
    BY Zenon, <2>1, <2>2, <2>5, <1>0, OwnStep
<1>8. ASSUME NEW h \in Threads, PollReady(h) PROVE ThreadsInv'
  <2>1. /\ UNCHANGED << home, on >> /\ doing[h] # "idle"
        /\ \A g \in Threads : g # h => doing'[g] = doing[g] /\ deadline'[g] = deadline[g]
        /\ \A u \in Tasks : u # on[h] => wait'[u] = wait[u]
    BY Zenon, <1>0, <1>a, <1>b, <1>8 DEF PollReady
  <2>2. \A u \in Tasks : st[u] = "running" => st'[u] = "running"
    BY Zenon, <1>0, <1>a, <1>b, <1>8 DEF PollReady
  <2>3. \/ doing'[h] = "unparker" /\ wait'[on[h]] = "scopedrop"
        \/ doing'[h] = "code" /\ wait'[on[h]] = "over"
    BY Zenon, <1>0, <1>a, <1>b, <1>8 DEF PollReady
  <2>4. deadline'[h] = "none"
    BY Zenon, <1>0, <1>a, <1>b, <1>8 DEF PollReady, Fits
  <2>5. Fits(doing'[h], wait'[on[h]], deadline'[h])
    BY Zenon, <2>3, <2>4 DEF Fits
  <2>6. QED
    BY Zenon, <2>1, <2>2, <2>5, <1>0, OwnStep
<1>9. ASSUME NEW h \in Threads, PollPending(h) PROVE ThreadsInv'
  BY <1>0, <1>9 DEF PollPending, Fits, ThreadsInv, WaitInv, ThreadsOf
<1>10. ASSUME NEW h \in Threads, Unparker(h) PROVE ThreadsInv'
  <2>1. Fits(doing'[h], wait'[on[h]], deadline'[h])
    BY Zenon, <1>0, <1>a, <1>b, <1>10 DEF Unparker, Fits
  <2>2. QED
    BY Zenon, <1>b, <1>10, <2>1, <1>0, OwnStep DEF Unparker
<1>11. ASSUME NEW h \in Threads, BlockReady(h) PROVE ThreadsInv'
  <2>1. Fits(doing'[h], wait'[on[h]], deadline'[h])
    BY Zenon, <1>0, <1>a, <1>b, <1>11 DEF BlockReady, Fits
  <2>2. QED
    BY Zenon, <1>b, <1>11, <2>1, <1>0, OwnStep DEF BlockReady
<1>12. ASSUME NEW h \in Threads, BlockPending(h) PROVE ThreadsInv'
  <2>1. Fits(doing'[h], wait'[on[h]], deadline'[h])
    BY Zenon, <1>0, <1>a, <1>b, <1>12 DEF BlockPending, Fits
  <2>2. QED
    BY Zenon, <1>b, <1>12, <2>1, <1>0, OwnStep DEF BlockPending
<1>13. ASSUME NEW h \in Threads, Park(h) PROVE ThreadsInv'
  <2>1. Fits(doing'[h], wait'[on[h]], deadline'[h])
    BY Zenon, <1>0, <1>a, <1>b, <1>13 DEF Park, Fits
  <2>2. QED
    BY Zenon, <1>b, <1>13, <2>1, <1>0, OwnStep DEF Park
<1>14. ASSUME NEW h \in Threads, Unparked(h) PROVE ThreadsInv'
  <2>1. Fits(doing'[h], wait'[on[h]], deadline'[h])
    BY Zenon, <1>0, <1>a, <1>b, <1>14 DEF Unparked, Fits
  <2>2. QED
    BY Zenon, <1>b, <1>14, <2>1, <1>0, OwnStep DEF Unparked
<1>15. ASSUME NEW h \in Threads, ParkTimeout(h) PROVE ThreadsInv'
  <2>1. /\ UNCHANGED << home, on >> /\ doing[h] # "idle"
        /\ \A g \in Threads : g # h => doing'[g] = doing[g] /\ deadline'[g] = deadline[g]
        /\ \A u \in Tasks : u # on[h] => wait'[u] = wait[u]
    <3>1. CASE deadline[h] = "past"
      BY Zenon, <1>0, <1>15, <3>1 DEF ParkTimeout
    <3>2. CASE deadline[h] # "past"
      BY Zenon, <1>0, <1>15, <3>2 DEF ParkTimeout
    <3>3. QED
      BY Zenon, <3>1, <3>2
  <2>2. \A u \in Tasks : st[u] = "running" => st'[u] = "running"
    <3>1. CASE deadline[h] = "past"
      <4>1. st' = Cancelled(kids[on[h]])
        BY Zenon, <1>15, <3>1 DEF ParkTimeout
      <4>2. \A K : \A u \in Tasks : st[u] = "running" => Cancelled(K)[u] = "running"
        BY Zenon DEF Cancelled
      <4>3. QED
        BY Zenon, <4>1, <4>2
    <3>2. CASE deadline[h] # "past"
      BY Zenon, <1>0, <1>15, <3>2 DEF ParkTimeout
    <3>3. QED
      BY Zenon, <3>1, <3>2
  <2>3. \/ doing'[h] = "code" /\ wait'[on[h]] = "over" /\ deadline'[h] = "none"
        \/ doing'[h] = "bpoll" /\ doing[h] = "parked" /\ UNCHANGED << wait, deadline >>
    BY Zenon, <1>0, <1>a, <1>b, <1>15 DEF ParkTimeout
  <2>4. Fits(doing[h], wait[on[h]], deadline[h])
    BY Zenon, <1>a
  <2>5. Fits(doing'[h], wait'[on[h]], deadline'[h])
    BY Zenon, <2>3, <2>4 DEF Fits
  <2>6. QED
    BY Zenon, <2>1, <2>2, <2>5, <1>0, OwnStep
<1>16. ASSUME NEW h \in Threads, Clock(h) PROVE ThreadsInv'
  <2>1. Fits(doing'[h], wait'[on[h]], deadline'[h])
    BY Zenon, <1>0, <1>a, <1>b, <1>16 DEF Clock, Fits
  <2>2. QED
    <3>1. doing[h] # "idle"
      BY Zenon, <1>0, <1>a, <1>b, <1>16 DEF Clock, Fits
    <3>2. QED
      BY Zenon, <1>16, <2>1, <3>1, <1>0, OwnStep DEF Clock
<1>17. ASSUME Quit PROVE ThreadsInv'
  BY ZenonT(60), <1>17, <1>0, NoThreadStep DEF Quit
<1>18. QED
  BY Zenon, <1>1, <1>2, <1>3, <1>4, <1>5, <1>6, <1>7, <1>8, <1>9, <1>10, <1>11,
     <1>12, <1>13, <1>14, <1>15, <1>16, <1>17 DEF ExecutorNext, Step

\* Every action keeps WaitInv.
LEMMA WaitStep ==
  ASSUME ExecutorInv, ExecutorNext PROVE WaitInv'
<1>0. ExecutorDomains /\ ThreadsInv /\ WaitInv /\ ScopeInv /\ LocalFutureStaysOnMain
  BY Zenon DEF ExecutorInv, ExecutorTypeOK, ExecutorDomains
<1>a. \A h \in Threads : Fits(doing[h], wait[on[h]], deadline[h])
  BY Zenon, <1>0 DEF ThreadsInv
<1>b. \A h \in Threads : doing[h] # "idle" => on[h] \in Tasks /\ st[on[h]] = "running"
  BY Zenon, <1>0 DEF ThreadsInv
<1> USE <1>0, <1>a, <1>b DEF ExecutorDomains, WaitInv, blocking
<1>1. ASSUME NEW t \in Tasks, SpawnRoot(t) PROVE WaitInv'
  BY <1>1 DEF SpawnRoot, Fresh
<1>2. ASSUME NEW t \in Tasks, CancelRoot(t) PROVE WaitInv'
  BY Zenon, <1>2 DEF CancelRoot, Cancelled, Scheduled
<1>3. ASSUME NEW h \in Threads, NEW t \in Tasks, Take(h, t) PROVE WaitInv'
  BY <1>3 DEF Take
<1>4. ASSUME NEW h \in Threads, End(h) PROVE WaitInv'
  BY ZenonT(60), <1>4 DEF End, Scheduled
<1>5. ASSUME NEW h \in Threads, DropFuture(h) PROVE WaitInv'
  BY <1>5 DEF DropFuture, HasScope, Cancelled, Scheduled
<1>6. ASSUME NEW h \in Threads, Hang(h) PROVE WaitInv'
  BY ZenonT(60), <1>6 DEF Hang
<1>7. ASSUME NEW h \in Threads, NEW how \in {"await", "scope", "block", "timeout"},
             NEW K \in SUBSET Tasks, Begin(h, how, K)
      PROVE  WaitInv'
  BY <1>7 DEF Begin, Fresh, Scheduled
<1>8. ASSUME NEW h \in Threads, PollReady(h) PROVE WaitInv'
  BY <1>8 DEF PollReady, HasScope
<1>9. ASSUME NEW h \in Threads, PollPending(h) PROVE WaitInv'
  BY <1>9 DEF Fits, PollPending
<1>10. ASSUME NEW h \in Threads, Unparker(h) PROVE WaitInv'
  BY Zenon, <1>10 DEF Unparker
<1>11. ASSUME NEW h \in Threads, BlockReady(h) PROVE WaitInv'
  BY <1>11 DEF BlockReady
<1>12. ASSUME NEW h \in Threads, BlockPending(h) PROVE WaitInv'
  BY Zenon, <1>12 DEF BlockPending
<1>13. ASSUME NEW h \in Threads, Park(h) PROVE WaitInv'
  BY Zenon, <1>13 DEF Park
<1>14. ASSUME NEW h \in Threads, Unparked(h) PROVE WaitInv'
  BY Zenon, <1>14 DEF Unparked
<1>15. ASSUME NEW h \in Threads, ParkTimeout(h) PROVE WaitInv'
  BY <1>15 DEF ParkTimeout, Cancelled, Scheduled
<1>16. ASSUME NEW h \in Threads, Clock(h) PROVE WaitInv'
  BY Zenon, <1>16 DEF Clock
<1>17. ASSUME Quit PROVE WaitInv'
  BY ZenonT(60), <1>17 DEF Quit
<1> HIDE <1>0, <1>a, <1>b DEF ExecutorDomains, WaitInv, blocking
<1>18. QED
  BY Zenon, <1>1, <1>2, <1>3, <1>4, <1>5, <1>6, <1>7, <1>8, <1>9, <1>10, <1>11,
     <1>12, <1>13, <1>14, <1>15, <1>16, <1>17 DEF ExecutorNext, Step

\* Every action keeps ScopeInv.
LEMMA ScopeStep ==
  ASSUME ExecutorInv, ExecutorNext PROVE ScopeInv'
<1>0. ExecutorDomains /\ ThreadsInv /\ WaitInv /\ ScopeInv /\ LocalFutureStaysOnMain
  BY Zenon DEF ExecutorInv, ExecutorTypeOK, ExecutorDomains
<1>a. \A h \in Threads : Fits(doing[h], wait[on[h]], deadline[h])
  BY Zenon, <1>0 DEF ThreadsInv
<1>b. \A h \in Threads : doing[h] # "idle" => on[h] \in Tasks /\ st[on[h]] = "running"
  BY Zenon, <1>0 DEF ThreadsInv
<1> USE <1>0, <1>a, <1>b DEF ExecutorDomains, WaitInv, ScopeInv, Live, blocking
<1>1. ASSUME NEW t \in Tasks, SpawnRoot(t) PROVE ScopeInv'
  BY <1>1 DEF SpawnRoot, Fresh
<1>2. ASSUME NEW t \in Tasks, CancelRoot(t) PROVE ScopeInv'
  BY <1>2 DEF CancelRoot, Cancelled, Scheduled
<1>3. ASSUME NEW h \in Threads, NEW t \in Tasks, Take(h, t) PROVE ScopeInv'
  BY <1>3 DEF Take
<1>4. ASSUME NEW h \in Threads, End(h) PROVE ScopeInv'
  <2>1. /\ wait' = [wait EXCEPT ![on[h]] = "over"] /\ kids' = [kids EXCEPT ![on[h]] = {}]
        /\ scopeOf' = [scopeOf EXCEPT ![on[h]] = NoTask]
        /\ on[h] \in Tasks /\ wait[on[h]] \in {"new", "over"}
    BY Zenon, <1>4 DEF Fits, End
  <2>2. \A u \in Tasks : u # on[h] => (Live(u)' <=> Live(u))
    BY ZenonT(60), <1>4 DEF End, Scheduled
  <2>3. QED
    BY Zenon, <2>1, <2>2
<1>5. ASSUME NEW h \in Threads, DropFuture(h) PROVE ScopeInv'
  BY <1>5 DEF Fits, DropFuture, HasScope, Cancelled, Scheduled
<1>6. ASSUME NEW h \in Threads, Hang(h) PROVE ScopeInv'
  BY ZenonT(60), <1>6 DEF Hang
<1>7. ASSUME NEW h \in Threads, NEW how \in {"await", "scope", "block", "timeout"},
             NEW K \in SUBSET Tasks, Begin(h, how, K)
      PROVE  ScopeInv'
  BY <1>7 DEF Begin, Fresh, Scheduled
<1>8. ASSUME NEW h \in Threads, PollReady(h) PROVE ScopeInv'
  BY <1>8 DEF PollReady, HasScope
<1>9. ASSUME NEW h \in Threads, PollPending(h) PROVE ScopeInv'
  BY <1>9 DEF PollPending
<1>10. ASSUME NEW h \in Threads, Unparker(h) PROVE ScopeInv'
  BY Zenon, <1>10 DEF Unparker
<1>11. ASSUME NEW h \in Threads, BlockReady(h) PROVE ScopeInv'
  BY Zenon, <1>11 DEF BlockReady
<1>12. ASSUME NEW h \in Threads, BlockPending(h) PROVE ScopeInv'
  BY Zenon, <1>12 DEF BlockPending
<1>13. ASSUME NEW h \in Threads, Park(h) PROVE ScopeInv'
  BY Zenon, <1>13 DEF Park
<1>14. ASSUME NEW h \in Threads, Unparked(h) PROVE ScopeInv'
  BY Zenon, <1>14 DEF Unparked
<1>15. ASSUME NEW h \in Threads, ParkTimeout(h) PROVE ScopeInv'
  BY <1>15 DEF Fits, ParkTimeout, Cancelled, Scheduled
<1>16. ASSUME NEW h \in Threads, Clock(h) PROVE ScopeInv'
  BY Zenon, <1>16 DEF Clock
<1>17. ASSUME Quit PROVE ScopeInv'
  BY ZenonT(60), <1>17 DEF Quit
<1> HIDE <1>0, <1>a, <1>b DEF ExecutorDomains, WaitInv, ScopeInv, Live, blocking
<1>18. QED
  BY Zenon, <1>1, <1>2, <1>3, <1>4, <1>5, <1>6, <1>7, <1>8, <1>9, <1>10, <1>11,
     <1>12, <1>13, <1>14, <1>15, <1>16, <1>17 DEF ExecutorNext, Step

\* Every action keeps LocalFutureStaysOnMain.
LEMMA LocalStep ==
  ASSUME ExecutorInv, ExecutorNext PROVE LocalFutureStaysOnMain'
<1>0. ExecutorDomains /\ ThreadsInv /\ WaitInv /\ ScopeInv /\ LocalFutureStaysOnMain
  BY Zenon DEF ExecutorInv, ExecutorTypeOK, ExecutorDomains
<1>a. \A h \in Threads : doing[h] # "idle" =>
        on[h] \in Tasks /\ st[on[h]] = "running" /\ h \in ThreadsOf(on[h])
  BY Zenon, <1>0 DEF ThreadsInv
<1> USE <1>0, <1>a DEF ExecutorDomains, LocalFutureStaysOnMain, ThreadsOf
<1>1. ASSUME NEW t \in Tasks, SpawnRoot(t) PROVE LocalFutureStaysOnMain'
  BY <1>1 DEF SpawnRoot, Fresh
<1>2. ASSUME NEW t \in Tasks, CancelRoot(t) PROVE LocalFutureStaysOnMain'
  BY Zenon, <1>2 DEF CancelRoot, Cancelled, Scheduled
<1>3. ASSUME NEW h \in Threads, NEW t \in Tasks, Take(h, t)
      PROVE  LocalFutureStaysOnMain'
  BY <1>3 DEF Take
<1>4. ASSUME NEW h \in Threads, End(h) PROVE LocalFutureStaysOnMain'
  BY <1>4 DEF End, Scheduled
<1>5. ASSUME NEW h \in Threads, DropFuture(h) PROVE LocalFutureStaysOnMain'
  BY Zenon, <1>5 DEF DropFuture, HasScope, Cancelled, Scheduled
<1>6. ASSUME NEW h \in Threads, Hang(h) PROVE LocalFutureStaysOnMain'
  BY Zenon, <1>6 DEF Hang
<1>7. ASSUME NEW h \in Threads, NEW how \in {"await", "scope", "block", "timeout"},
             NEW K \in SUBSET Tasks, Begin(h, how, K)
      PROVE  LocalFutureStaysOnMain'
  BY <1>7 DEF Begin, Fresh, Scheduled
<1>8. ASSUME NEW h \in Threads, PollReady(h) PROVE LocalFutureStaysOnMain'
  BY Zenon, <1>8 DEF PollReady, HasScope
<1>9. ASSUME NEW h \in Threads, PollPending(h) PROVE LocalFutureStaysOnMain'
  BY <1>9 DEF PollPending
<1>10. ASSUME NEW h \in Threads, Unparker(h) PROVE LocalFutureStaysOnMain'
  BY Zenon, <1>10 DEF Unparker
<1>11. ASSUME NEW h \in Threads, BlockReady(h) PROVE LocalFutureStaysOnMain'
  BY Zenon, <1>11 DEF BlockReady
<1>12. ASSUME NEW h \in Threads, BlockPending(h) PROVE LocalFutureStaysOnMain'
  BY Zenon, <1>12 DEF BlockPending
<1>13. ASSUME NEW h \in Threads, Park(h) PROVE LocalFutureStaysOnMain'
  BY Zenon, <1>13 DEF Park
<1>14. ASSUME NEW h \in Threads, Unparked(h) PROVE LocalFutureStaysOnMain'
  BY Zenon, <1>14 DEF Unparked
<1>15. ASSUME NEW h \in Threads, ParkTimeout(h) PROVE LocalFutureStaysOnMain'
  BY <1>15 DEF ParkTimeout, Cancelled, Scheduled
<1>16. ASSUME NEW h \in Threads, Clock(h) PROVE LocalFutureStaysOnMain'
  BY Zenon, <1>16 DEF Clock
<1>17. ASSUME Quit PROVE LocalFutureStaysOnMain'
  BY Zenon, <1>17 DEF Quit
<1> HIDE <1>0, <1>a DEF ExecutorDomains, LocalFutureStaysOnMain, ThreadsOf
<1>18. QED
  BY Zenon, <1>1, <1>2, <1>3, <1>4, <1>5, <1>6, <1>7, <1>8, <1>9, <1>10, <1>11,
     <1>12, <1>13, <1>14, <1>15, <1>16, <1>17 DEF ExecutorNext, Step

\* The inductive invariant holds in every reachable state.
THEOREM ExecutorIsInv == ExecutorSpec => []ExecutorInv
<1>1. ASSUME ExecutorInit PROVE ExecutorInv
  <2> USE <1>1, LinuxExecutorAssumption
  <2>1. ExecutorTypeOK
    BY Zenon DEF ExecutorInit, ExecutorTypeOK, Threads, blocking
  <2>2. ThreadsInv
    BY Zenon DEF ExecutorInit, ThreadsInv, Fits, blocking
  <2>3. WaitInv /\ ScopeInv /\ LocalFutureStaysOnMain
    BY Zenon DEF ExecutorInit, WaitInv, ScopeInv, LocalFutureStaysOnMain
  <2>4. QED
    BY Zenon, <2>1, <2>2, <2>3 DEF ExecutorInv
<1>2. ASSUME ExecutorInv, [ExecutorNext]_executorVars PROVE ExecutorInv'
  <2>1. CASE ExecutorNext
    <3>1. ExecutorTypeOK'
      BY ZenonT(60), <1>2, <2>1, ExecutorTypeStep
    <3>2. QED
      BY Zenon, <1>2, <2>1, <3>1, ThreadsStep, WaitStep, ScopeStep, LocalStep DEF ExecutorInv
  <2>2. CASE UNCHANGED executorVars
    BY <1>2, <2>2 DEF executorVars, ExecutorInv, ExecutorTypeOK, ThreadsInv, Fits, WaitInv, ScopeInv,
      LocalFutureStaysOnMain, Live, ThreadsOf, Threads, blocking
  <2>3. QED
    BY Zenon, <1>2, <2>1, <2>2
<1>3. QED
  BY <1>1, <1>2, PTL DEF ExecutorSpec

\* The transmute of Scope::spawn is sound: a future spawned into a Scope is
\* gone before the task that made the Scope leaves scoped.
THEOREM ScopeIsSafe == ExecutorSpec => []ScopeOutlivesFutures
<1>1. ExecutorInv => ScopeOutlivesFutures
  BY Zenon DEF ExecutorInv, ScopeInv, ScopeOutlivesFutures
<1>2. QED
  BY <1>1, ExecutorIsInv, PTL

\* A future that is not Send ends and is dropped on the main thread only.
THEOREM LocalIsSafe == ExecutorSpec => []LocalFutureStaysOnMain
<1>1. ExecutorInv => LocalFutureStaysOnMain
  BY Zenon DEF ExecutorInv
<1>2. QED
  BY <1>1, ExecutorIsInv, PTL

(***************************************************************************)
(* The clipboard of X11                                                    *)
(***************************************************************************)

\* The last write is kept: nothing but a late SelectionClear takes it away.
THEOREM WritesAreKept == Spec => []OwnerHasData
  <1>1. Init => OwnerHasData
    BY Zenon DEF Init, OwnerHasData
  <1>2. OwnerHasData /\ [Next]_vars => OwnerHasData'
    <2> SUFFICES ASSUME OwnerHasData, [Next]_vars PROVE OwnerHasData'
      BY Zenon
    <2> USE DEF OwnerHasData, offer, serving, reading, counts
    <2>1. CASE SetOwner \/ SetData \/ Drop \/ Read
      <3>1. CASE SetOwner
        BY Zenon, <3>1 DEF SetOwner
      <3>2. CASE SetData
        BY Zenon, <3>2 DEF SetData
      <3>3. CASE Drop \/ Read
        BY Zenon, <3>3 DEF Drop, Read
      <3> QED
        BY Zenon, <2>1, <3>1, <3>2, <3>3
    <2>2. CASE AskManager \/ HandoverEnds \/ DestroyWindow \/ Join
      BY Zenon, <2>2 DEF AskManager, HandoverEnds, DestroyWindow, Join
    <2>3. CASE Server
      BY Zenon, <2>3 DEF Server, Event, SelectionClear, SelectionRequest, AfterRequest,
                  SelectionNotify, DestroyNotify
    <2>4. CASE GotNotify \/ GotProperty \/ ReadTimeout
      BY Zenon, <2>4 DEF GotNotify, GotProperty, ReadTimeout, ReadUnchanged
    <2>5. ASSUME NEW S \in SUBSET FormatSet, NEW b \in BOOLEAN, OtherTakes(S, b)
          PROVE OwnerHasData'
      BY Zenon, <2>5 DEF OtherTakes
    <2>6. ASSUME NEW t \in Targets, OtherRequests(t) \/ ManagerRequests(t)
          PROVE OwnerHasData'
      BY Zenon, <2>6 DEF OtherRequests, ManagerRequests
    <2>7. CASE ManagerNotifies \/ OtherConverts \/ OtherSendsChunk
      BY Zenon, <2>7 DEF ManagerNotifies, OtherConverts, OtherSendsChunk
    <2>8. CASE UNCHANGED vars
      BY Zenon, <2>8 DEF vars
    <2> QED
      BY Zenon, <2>1, <2>2, <2>3, <2>4, <2>5, <2>6, <2>7, <2>8 DEF Next, Main
  <1> QED
    BY <1>1, <1>2, PTL DEF Spec

\* Sets of natural numbers have a least element (see NatIsWellFounded).
WellFounded ==
  \A T \in SUBSET Nat : T # {} => \E x \in T : \A y \in T : x <= y

\* An event on its way to the reader.
Note(k, t) == [kind |-> k, target |-> t]

\* The formats of the other client's content that a read may return.
Best == {i \in DOMAIN Formats : Formats[i] \in sup}

\* Between reads nothing of one is left; a write has dropped its result.
Closed ==
  /\ pc # "read" => toOther = <<>> /\ answers = <<>> /\ prop = NoProp /\ xfer = NoXfer
  /\ pc = "write" => result = NoResult

\* What the stage says of the target asked for.
Stage ==
  \/ read.stage = "targets" /\ read.target = "TARGETS"
  \/ /\ read.stage = "single" /\ read.target = Formats[read.i]
     /\ read.i \in Best /\ \A j \in Best : read.i <= j
  \/ /\ read.stage = "fallback" /\ read.target = Formats[read.i]
     /\ read.i \in DOMAIN Formats /\ Best = {}

\* The other client converts its content to the target at once, or with INCR.
AtOnce == read.target = "TARGETS" \/ (read.target \in sup /\ ~big)
InChunks == read.target \in sup /\ big

\* The target is asked for and the other client has not looked yet;
Asked ==
  /\ ~read.incr /\ read.got = 0
  /\ toOther = << read.target >> /\ answers = <<>> /\ prop = NoProp /\ xfer = NoXfer
\* it has refused it;
Refused ==
  /\ read.target # "TARGETS" /\ read.target \notin sup
  /\ answers = << Note("none", read.target) >>
\* it has answered, and the reader has not;
Answered ==
  /\ ~read.incr /\ read.got = 0
  /\ \/ answers = << Note("property", read.target), Note("notify", read.target) >>
     \/ answers = << Note("notify", read.target) >>
  /\ \/ AtOnce /\ xfer = NoXfer
        /\ prop = IF read.target = "TARGETS" THEN [type |-> "ATOM", part |-> "whole", list |-> sup]
                  ELSE [type |-> read.target, part |-> "whole", list |-> {}]
     \/ InChunks /\ xfer = [type |-> read.target, left |-> Chunks + 1]
        /\ prop = [type |-> "INCR", part |-> "whole", list |-> {}]
\* an INCR transfer is going on, one chunk at a time.
Transfer ==
  /\ read.incr /\ InChunks /\ read.got \in 0 .. Chunks
  /\ \/ /\ answers = <<>> /\ prop = NoProp
        /\ xfer = [type |-> read.target, left |-> Chunks + 1 - read.got]
     \/ /\ answers = << Note("property", "none") >> /\ read.got < Chunks
        /\ prop = [type |-> read.target, list |-> {}, part |-> "chunk"]
        /\ xfer = [type |-> read.target, left |-> Chunks - read.got]
     \/ /\ answers = << Note("property", "none") >> /\ read.got = Chunks
        /\ prop = [type |-> read.target, list |-> {}, part |-> "end"] /\ xfer = NoXfer

\* Nobody wrote during the read, and no answer of an earlier read is left.
Undisturbed == owner = "other" /\ ~late /\ ~changed

\* An undisturbed read is in step with the other client.
InStep ==
  pc = "read" /\ Undisturbed =>
    /\ Stage
    /\ \/ Asked
       \/ toOther = <<>> /\ (Answered \/ Transfer \/ (Refused /\ xfer = NoXfer))

\* The parts of the read.
ReadShape ==
  /\ read = [stage |-> read.stage, i |-> read.i, target |-> read.target, incr |-> read.incr,
             got |-> read.got]
  /\ read.i \in Nat

\* The inductive invariant.
ReadInv == sup \subseteq FormatSet /\ ReadShape /\ Closed /\ InStep /\ ReadIsFirstFormat

\* The formats are a sequence of names other than those of the protocol.
LEMMA FormatFacts ==
  /\ DOMAIN Formats = 1 .. Len(Formats) /\ Len(Formats) \in Nat
  /\ \A i \in DOMAIN Formats : Formats[i] \in STRING /\ Formats[i] \in FormatSet
  /\ \A t \in FormatSet : t \in STRING /\ t \notin {"TARGETS", "ATOM", "INCR", "none", "error"}
  <1>1. DOMAIN Formats = 1 .. Len(Formats) /\ Len(Formats) \in Nat
    BY X11ClipboardAssumption
  <1>2. \A i \in DOMAIN Formats : Formats[i] \in STRING
    BY X11ClipboardAssumption
  <1>3. \A t : t \in FormatSet <=> \E i \in DOMAIN Formats : t = Formats[i]
    BY Zenon DEF FormatSet, Range
  <1>4. \A t \in FormatSet : t \notin {"TARGETS", "ATOM", "INCR", "none", "error"}
    BY Zenon, X11ClipboardAssumption DEF FormatSet
  <1> QED
    BY Zenon, <1>1, <1>2, <1>3, <1>4

\* FirstOf a non-empty set of positions is the least of them.
LEMMA FirstIsFirst ==
  ASSUME WellFounded, NEW T \in SUBSET (DOMAIN Formats), T # {}
  PROVE  FirstOf(T) \in T /\ \A j \in T : FirstOf(T) <= j
  <1>1. T \in SUBSET Nat
    BY FormatFacts
  <1>2. \E i \in T : \A j \in T : i <= j
    BY Zenon, <1>1 DEF WellFounded
  <1> QED
    BY Zenon, <1>2 DEF FirstOf

\* The invariant holds at the start.
LEMMA InitReadInv == Init => ReadInv
  <1> SUFFICES ASSUME Init PROVE ReadInv
    BY Zenon
  <1>1. ReadShape
    BY Zenon DEF Init, ReadShape, NoRead
  <1>2. sup \subseteq FormatSet /\ Closed
    BY Zenon DEF Init, Closed
  <1>3. pc # "read" /\ result = NoResult
    BY Zenon DEF Init
  <1>4. InStep /\ ReadIsFirstFormat
    BY Zenon, <1>3 DEF InStep, ReadIsFirstFormat
  <1> QED
    BY Zenon, <1>1, <1>2, <1>4 DEF ReadInv

\* What does not touch the read keeps the invariant.
LEMMA ElsewhereStep ==
  ASSUME ReadInv, UNCHANGED << reading, sup, big >>,
         \/ pc' = pc
         \/ pc = "write" /\ pc' = "idle"
         \/ pc # "read" /\ pc' \notin {"read", "idle", "write"},
         owner' = owner \/ pc' \notin {"read", "idle"}
  PROVE  ReadInv'
  <1> USE DEF ReadInv, reading
  <1>1. sup' \subseteq FormatSet /\ ReadShape' /\ Closed'
    BY Zenon DEF ReadShape, Closed
  <1>2. InStep'
    BY ZenonT(60)
    DEF InStep, Undisturbed, Stage, Asked, Refused, Answered, Transfer, AtOnce, InChunks, Best
  <1>3. ReadIsFirstFormat'
    BY Zenon DEF ReadIsFirstFormat, Closed
  <1> QED
    BY Zenon, <1>1, <1>2, <1>3

\* Continue keeps the shape of the read and closes a read that ends.
LEMMA ContinueShape ==
  ASSUME WellFounded, NEW g, NEW a, Continue(g, a), ReadShape, pc = "read"
  PROVE  ReadShape' /\ Closed' /\ (pc' = "read" \/ pc' = "idle")
  <1> DEFINE Goal == ReadShape' /\ Closed' /\ (pc' = "read" \/ pc' = "idle")
  <1>1. ASSUME NEW r, ReadEnds(r) PROVE Goal
    BY Zenon, <1>1 DEF ReadEnds, ReadShape, Closed, NoRead
  <1>2. ASSUME NEW sg, NEW i \in Nat, AskFor(sg, i, a) PROVE Goal
    BY Zenon, <1>2 DEF AskFor, ReadSingle, ReadShape, Closed
  <1>3. ASSUME NEW i \in Nat, Fallback(i, a) PROVE Goal
    BY Zenon, <1>1, <1>2, <1>3 DEF Fallback
  <1> DEFINE found == {i \in DOMAIN Formats : g.type = "ATOM" /\ Formats[i] \in g.list}
  <1>4. found # {} => FirstOf(found) \in Nat
    <2>1. found \in SUBSET (DOMAIN Formats)
      BY Zenon
    <2>2. found # {} => FirstOf(found) \in DOMAIN Formats
      <3> HIDE DEF found
      <3> QED
        BY Zenon, <2>1, FirstIsFirst
    <2> QED
      BY <2>2, FormatFacts
  <1>5. read.i + 1 \in Nat /\ 1 \in Nat
    BY DEF ReadShape
  <1> HIDE DEF Goal
  <1> QED
    BY Zenon, <1>1, <1>2, <1>3, <1>4, <1>5 DEF Continue, Goal

\* In an undisturbed read: the next format is asked for ...
LEMMA AskedAgain ==
  ASSUME NEW sg, NEW i, AskFor(sg, i, <<>>), pc = "read", owner = "other", toOther = <<>>,
         xfer = NoXfer, UNCHANGED << offer, late, changed >>,
         \/ sg = "single" /\ i \in Best /\ \A j \in Best : i <= j
         \/ sg = "fallback" /\ i \in DOMAIN Formats /\ Best = {}
  PROVE  InStep' /\ ReadIsFirstFormat'
  <1> USE DEF AskFor, ReadSingle, offer
  <1>1. Stage'
    BY Zenon DEF Stage, Best
  <1>2. Asked'
    BY DEF Asked
  <1>3. pc' = "read"
    BY Zenon
  <1> QED
    BY Zenon, <1>1, <1>2, <1>3 DEF InStep, ReadIsFirstFormat

\* ... or the read ends.
LEMMA EndedWith ==
  ASSUME NEW r, ReadEnds(r), UNCHANGED offer,
         Undisturbed =>
           IF Best = {} THEN r = Error
           ELSE r = [type |-> Formats[FirstOf(Best)], part |-> "whole"],
         UNCHANGED << late, changed >>
  PROVE  InStep' /\ ReadIsFirstFormat'
  <1> USE DEF ReadEnds, offer
  <1>1. pc' = "idle" /\ result' = r
    BY Zenon
  <1>2. InStep'
    BY Zenon, <1>1 DEF InStep
  <1>3. ReadIsFirstFormat'
    BY Zenon, <1>1 DEF ReadIsFirstFormat, Undisturbed, FirstOf, Best
  <1> QED
    BY Zenon, <1>2, <1>3

\* Without a common format in the list, a read tries the formats one by one.
LEMMA FallsBack ==
  ASSUME NEW i \in Nat, i > 0, Fallback(i, <<>>), Best = {}, pc = "read", owner = "other",
         toOther = <<>>, xfer = NoXfer, UNCHANGED << offer, late, changed >>
  PROVE  InStep' /\ ReadIsFirstFormat'
  <1>1. CASE i <= Len(Formats)
    <2>1. i \in DOMAIN Formats /\ AskFor("fallback", i, <<>>)
      BY <1>1, FormatFacts DEF Fallback
    <2> QED
      BY Zenon, <2>1, AskedAgain
  <1>2. CASE ~(i <= Len(Formats))
    <2>1. ReadEnds(Error)
      BY Zenon, <1>2 DEF Fallback
    <2> QED
      BY Zenon, <2>1, EndedWith DEF offer
  <1> QED
    BY Zenon, <1>1, <1>2

\* With the answer to a request for targets or for a format, the undisturbed
\* read goes on rightly.
LEMMA ContinuesRightly ==
  ASSUME WellFounded, ReadShape, sup \subseteq FormatSet, Stage, pc = "read", owner = "other",
         toOther = <<>>, xfer = NoXfer, UNCHANGED << offer, late, changed >>,
         NEW g, Continue(g, <<>>),
         \/ read.target = "TARGETS" /\ g.type = "ATOM" /\ g.list = sup
         \/ read.target \in sup /\ g.type = read.target /\ g.part = "whole"
         \/ read.target # "TARGETS" /\ read.target \notin sup /\ g = NotAvailable
  PROVE  InStep' /\ ReadIsFirstFormat'
  <1>1. CASE read.stage = "targets"
    <2>1. read.target = "TARGETS" /\ g.type = "ATOM" /\ g.list = sup
      BY Zenon, <1>1, FormatFacts DEF Stage
    <2>2. {i \in DOMAIN Formats : g.type = "ATOM" /\ Formats[i] \in g.list} = Best
      BY Zenon, <2>1 DEF Best
    <2>3. CASE Best # {}
      <3>1. AskFor("single", FirstOf(Best), <<>>)
        BY Zenon, <1>1, <2>2, <2>3 DEF Continue
      <3>2. Best \in SUBSET (DOMAIN Formats)
        BY Zenon DEF Best
      <3>3. FirstOf(Best) \in Best /\ \A j \in Best : FirstOf(Best) <= j
        BY Zenon, <2>3, <3>2, FirstIsFirst
      <3> QED
        BY Zenon, <3>1, <3>3, AskedAgain
    <2>4. CASE Best = {}
      <3>1. Fallback(1, <<>>)
        BY Zenon, <1>1, <2>2, <2>4 DEF Continue
      <3> QED
        BY <2>4, <3>1, FallsBack
    <2> QED
      BY Zenon, <2>3, <2>4
  <1>2. CASE read.stage = "single"
    <2>1. /\ read.target = Formats[read.i] /\ read.i \in Best /\ \A j \in Best : read.i <= j
          /\ read.target \in sup /\ read.target \in FormatSet
      BY Zenon, <1>2 DEF Stage, Best
    <2>2. g.type = read.target /\ g.part = "whole"
      BY Zenon, <2>1, FormatFacts
    <2>3. ReadEnds([type |-> read.target, part |-> "whole"])
      BY Zenon, <1>2, <2>1, <2>2 DEF Continue
    <2>4. FirstOf(Best) = read.i
      <3>1. Best \in SUBSET (DOMAIN Formats) /\ Best # {}
        BY Zenon, <2>1 DEF Best
      <3>2. FirstOf(Best) \in Best /\ \A j \in Best : FirstOf(Best) <= j
        BY Zenon, <3>1, FirstIsFirst
      <3>3. FirstOf(Best) \in Nat /\ read.i \in Nat
        BY <3>1, <3>2, FormatFacts DEF ReadShape
      <3> QED
        BY <2>1, <3>2, <3>3
    <2> QED
      BY Zenon, <2>1, <2>3, <2>4, EndedWith
  <1>3. CASE read.stage = "fallback"
    <2>1. read.target = Formats[read.i] /\ read.i \in DOMAIN Formats /\ Best = {}
      BY Zenon, <1>3 DEF Stage
    <2>2. read.target \notin sup /\ read.target # "TARGETS"
      BY Zenon, <2>1, FormatFacts DEF Best
    <2>3. g.type \notin FormatSet
      BY <2>2, FormatFacts DEF NotAvailable
    <2>4. Fallback(read.i + 1, <<>>)
      BY Zenon, <1>3, <2>3 DEF Continue
    <2> QED
      BY <2>1, <2>4, FallsBack DEF ReadShape
  <1> QED
    BY Zenon, <1>1, <1>2, <1>3 DEF Stage

\* The first events sent to a reader that has none.
LEMMA EmptyFacts ==
  \A x, y : Append(<<>>, x) = << x >> /\ <<>> \o << x, y >> = << x, y >>
  OBVIOUS

\* What a transfer that has sent g of c chunks still sends, the end included.
LEMMA ChunksLeft ==
  \A c \in Nat :
    /\ 0 \in 0 .. c /\ c + 1 - 0 = c + 1
    /\ \A g \in 0 .. c : IF c + 1 - g = 1 THEN g = c ELSE g < c /\ (c + 1 - g) - 1 = c - g
  OBVIOUS

\* The events of a read, from the first on.
LEMMA EventFacts ==
  \A t, u :
    /\ << u >> # <<>> /\ Head(<< u >>) = u /\ Tail(<< u >>) = <<>>
    /\ << t, u >> # <<>> /\ Head(<< t, u >>) = t /\ Tail(<< t, u >>) = << u >>
  OBVIOUS

\* The parts of an event.
LEMMA NoteFacts ==
  ASSUME NEW k, NEW t, NEW u
  PROVE  /\ Head(<< Note(k, t) >>).kind = k /\ Head(<< Note(k, t) >>).target = t
         /\ Tail(<< Note(k, t) >>) = <<>>
         /\ Head(<< Note(k, t), u >>).kind = k
  <1> DEFINE n == Note(k, t)
  <1>1. n.kind = k /\ n.target = t
    BY Zenon DEF Note
  <1> HIDE DEF n
  <1>2. Head(<< n >>) = n /\ Tail(<< n >>) = <<>> /\ Head(<< n, u >>) = n
    BY Zenon, EventFacts
  <1> QED
    BY Zenon, <1>1, <1>2 DEF n

\* A read that times out ends without a result, or tries the next format.
LEMMA TimeoutStep ==
  ASSUME WellFounded, ReadInv, ReadTimeout
  PROVE  ReadInv'
  <1> USE DEF ReadInv
  <1>1. Continue(NotAvailable, answers) /\ pc = "read" /\ late' = TRUE /\ sup' = sup
    BY Zenon DEF ReadTimeout, ReadUnchanged, offer
  <1>2. ReadShape' /\ Closed'
    BY Zenon, <1>1, ContinueShape
  <1>3. InStep' /\ ReadIsFirstFormat'
    BY Zenon, <1>1 DEF InStep, ReadIsFirstFormat, Undisturbed
  <1> QED
    BY Zenon, <1>1, <1>2, <1>3

\* Nothing is known of a read that was disturbed.
LEMMA Disturbed ==
  ASSUME WellFounded, ReadInv, ~Undisturbed, UNCHANGED << offer, late, changed >>,
         NEW g, Continue(g, Tail(answers)), pc = "read"
  PROVE  ReadInv'
  <1> USE DEF ReadInv
  <1>1. ReadShape' /\ Closed'
    BY Zenon, ContinueShape
  <1>2. ~Undisturbed' /\ sup' = sup
    BY Zenon DEF Undisturbed, offer
  <1>3. InStep' /\ ReadIsFirstFormat'
    BY Zenon, <1>2 DEF InStep, ReadIsFirstFormat, Undisturbed
  <1> QED
    BY Zenon, <1>1, <1>2, <1>3

\* A SelectionNotify is the answer to what was asked for: it has the content, or
\* starts a transfer in chunks, or refuses.
LEMMA NotifyStep ==
  ASSUME WellFounded, ReadInv, GotNotify
  PROVE  ReadInv'
  <1> DEFINE e == Head(answers)
             drop == /\ e.kind # "none" /\ e.target = read.target /\ read.incr
                     /\ answers' = Tail(answers)
                     /\ UNCHANGED << read, toOther, prop, xfer, result, pc >>
             start == /\ e.kind # "none" /\ e.target = read.target /\ ~read.incr
                      /\ prop.type = "INCR"
                      /\ read' = [read EXCEPT !.incr = TRUE] /\ prop' = NoProp
                      /\ answers' = Tail(answers) /\ UNCHANGED << toOther, xfer, result, pc >>
  <1> USE DEF ReadInv
  <1>1. /\ pc = "read" /\ answers # <<>> /\ e.kind \in {"none", "notify"}
        /\ UNCHANGED << offer, late, changed >>
    BY Zenon DEF GotNotify, ReadUnchanged
  <1>2. \/ (e.kind = "none" \/ e.target # read.target) /\ Continue(NotAvailable, Tail(answers))
        \/ drop \/ start
        \/ /\ e.kind # "none" /\ e.target = read.target /\ ~read.incr /\ prop.type # "INCR"
           /\ Continue(prop, Tail(answers))
    BY Zenon DEF GotNotify
  <1>3. CASE ~Undisturbed
    <2>1. CASE drop \/ start
      <3>1. ReadShape' /\ Closed'
        BY Zenon, <1>1, <2>1 DEF ReadShape, Closed
      <3>2. ~Undisturbed' /\ sup' = sup
        BY Zenon, <1>1, <1>3 DEF Undisturbed, offer
      <3> QED
        BY Zenon, <3>1, <3>2 DEF InStep, ReadIsFirstFormat, Undisturbed
    <2> QED
      BY Zenon, <1>1, <1>2, <1>3, <2>1, Disturbed
  <1>4. CASE Undisturbed
    <2> HIDE DEF drop, start
    <2>1. Stage /\ toOther = <<>>
      BY Zenon, <1>1, <1>4 DEF InStep, Asked
    <2>2. sup' = sup
      BY Zenon, <1>1 DEF offer
    <2>3. CASE Refused /\ xfer = NoXfer
      <3>1. e.kind = "none" /\ Tail(answers) = <<>>
        BY <2>3 DEF Refused, Note
      <3>2. Continue(NotAvailable, <<>>)
        BY Zenon, <1>2, <3>1 DEF drop, start
      <3>3. InStep' /\ ReadIsFirstFormat'
        BY ZenonT(60), <1>1, <1>4, <2>1, <2>3, <3>2, ContinuesRightly DEF Refused, Undisturbed
      <3> QED
        BY Zenon, <1>1, <2>2, <3>2, <3>3, ContinueShape
    <2>4. CASE Answered
      <3>1. e.kind = "notify" /\ e.target = read.target /\ Tail(answers) = <<>> /\ ~read.incr
        <4>1. Head(<< Note("property", read.target), Note("notify", read.target) >>).kind = "property"
          BY NoteFacts
        <4>2. answers = << Note("notify", read.target) >> /\ ~read.incr
          BY Zenon, <1>1, <2>4, <4>1 DEF Answered
        <4> QED
          BY <4>2, NoteFacts
      <3>2. CASE InChunks /\ prop.type = "INCR" /\ xfer = [type |-> read.target, left |-> Chunks + 1]
        <4>1. prop.type = "INCR" /\ start
          BY Zenon, <1>2, <3>1, <3>2 DEF drop, start
        <4>2. ReadShape' /\ Closed'
          BY Zenon, <1>1, <4>1 DEF ReadShape, Closed, start
        <4>3. Transfer'
          BY ZenonT(30), <1>1, <2>2, <3>1, <3>2, <2>4, <4>1, ChunksLeft, X11ClipboardAssumption
          DEF Transfer, InChunks, Answered, ReadShape, start, offer
        <4>4. Stage' /\ toOther' = <<>> /\ pc' = "read"
          BY Zenon, <1>1, <2>1, <2>2, <4>1 DEF Stage, start, ReadShape, Best
        <4> QED
          BY Zenon, <2>2, <4>2, <4>3, <4>4 DEF InStep, ReadIsFirstFormat
      <3>3. CASE /\ xfer = NoXfer
                 /\ \/ read.target = "TARGETS" /\ prop.type = "ATOM" /\ prop.list = sup
                    \/ read.target \in sup /\ prop.type = read.target /\ prop.part = "whole"
        <4>1. prop.type # "INCR"
          BY Zenon, <3>3, FormatFacts
        <4>2. Continue(prop, <<>>)
          BY Zenon, <1>2, <3>1, <4>1 DEF drop, start
        <4>3. InStep' /\ ReadIsFirstFormat'
          BY ZenonT(60), <1>1, <1>4, <2>1, <3>3, <4>2, ContinuesRightly DEF Undisturbed
        <4> QED
          BY Zenon, <1>1, <2>2, <4>2, <4>3, ContinueShape
      <3> QED
        BY <2>4, <3>2, <3>3 DEF Answered, AtOnce
    <2>5. ~Asked /\ ~Transfer
      BY <1>1 DEF Asked, Transfer, Note
    <2> QED
      BY Zenon, <1>1, <1>4, <2>3, <2>4, <2>5 DEF InStep
  <1> QED
    BY Zenon, <1>3, <1>4

\* A PropertyNotify is passed over, or has the next chunk; the empty chunk ends
\* the transfer.
LEMMA PropertyStep ==
  ASSUME WellFounded, ReadInv, GotProperty
  PROVE  ReadInv'
  <1> DEFINE wanted == IF read.target = "TARGETS" THEN "ATOM" ELSE read.target
             whole == [type |-> read.target, list |-> {},
                       part |-> IF read.got = Chunks THEN "whole" ELSE "chunk"]
             skip == /\ ~read.incr /\ answers' = Tail(answers)
                     /\ UNCHANGED << read, toOther, prop, xfer, result, pc >>
             more == /\ read.incr /\ prop.type = wanted /\ prop.part # "end"
                     /\ read' = [read EXCEPT !.got = @ + 1] /\ prop' = NoProp
                     /\ answers' = Tail(answers) /\ UNCHANGED << toOther, xfer, result, pc >>
  <1> USE DEF ReadInv
  <1>1. /\ pc = "read" /\ answers # <<>> /\ Head(answers).kind = "property"
        /\ UNCHANGED << offer, late, changed >> /\ sup' = sup
    BY Zenon DEF GotProperty, ReadUnchanged, offer
  <1>2. \/ skip \/ more
        \/ /\ read.incr /\ (prop.type # wanted \/ prop.part = "end")
           /\ Continue(whole, Tail(answers))
    BY Zenon DEF GotProperty
  <1>3. ReadShape' /\ Closed'
    <2>1. CASE skip \/ more
      BY Zenon, <1>1, <2>1 DEF ReadShape, Closed
    <2> QED
      BY Zenon, <1>1, <1>2, <2>1, ContinueShape
  <1>4. CASE ~Undisturbed
    <2>1. ~Undisturbed'
      BY Zenon, <1>1, <1>4 DEF Undisturbed, offer
    <2> QED
      BY Zenon, <1>1, <1>3, <2>1 DEF InStep, ReadIsFirstFormat, Undisturbed
  <1>5. CASE Undisturbed
    <2> HIDE DEF skip, more
    <2>1. Stage /\ toOther = <<>>
      BY Zenon, <1>1, <1>5 DEF InStep, Asked
    <2>2. CASE Answered
      <3>1. skip
        BY Zenon, <1>2, <2>2 DEF Answered, more
      <3>2. /\ answers = << Note("property", read.target), Note("notify", read.target) >>
            /\ answers' = << Note("notify", read.target) >>
        <4>1. Head(<< Note("notify", read.target) >>).kind = "notify"
          BY Zenon, NoteFacts
        <4>2. answers = << Note("property", read.target), Note("notify", read.target) >>
          BY Zenon, <1>1, <2>2, <4>1 DEF Answered
        <4> QED
          BY Zenon, <4>2, <3>1, EventFacts DEF skip
      <3>3. Answered'
        BY Zenon, <1>1, <2>2, <3>1, <3>2 DEF Answered, skip, AtOnce, InChunks, offer, Note
      <3>4. Stage' /\ toOther' = <<>> /\ pc' = "read"
        BY Zenon, <1>1, <2>1, <3>1 DEF Stage, skip, Best
      <3> QED
        BY Zenon, <1>1, <1>3, <3>3, <3>4 DEF InStep, ReadIsFirstFormat
    <2>3. CASE Transfer
      <3>1. /\ read.incr /\ InChunks /\ answers = << Note("property", "none") >>
            /\ Tail(answers) = <<>> /\ read.target \in FormatSet
        BY Zenon, <1>1, <2>3, EventFacts DEF Transfer, InChunks
      <3>2. read.target # "TARGETS" /\ wanted = read.target
        BY Zenon, <3>1, FormatFacts
      <3>3. CASE prop.part = "end"
        <4>1. /\ xfer = NoXfer /\ read.got = Chunks
          BY <2>3, <3>1, <3>3 DEF Transfer, NoProp
        <4>2. Continue(whole, <<>>)
          BY Zenon, <1>2, <3>1, <3>3 DEF skip, more
        <4>3. whole.type = read.target /\ whole.part = "whole"
          BY Zenon, <4>1
        <4>4. read.target \in sup
          BY Zenon, <3>1 DEF InChunks
        <4> HIDE DEF whole
        <4>5. InStep' /\ ReadIsFirstFormat'
          BY Zenon, <1>1, <1>5, <2>1, <4>1, <4>2, <4>3, <4>4, ContinuesRightly DEF Undisturbed
        <4> QED
          BY ZenonT(60), <1>1, <1>3, <4>5
      <3>4. CASE prop.part # "end"
        <4>1. /\ prop.type = read.target /\ read.got < Chunks /\ read.got \in Nat
              /\ xfer = [type |-> read.target, left |-> Chunks - read.got]
          BY <2>3, <3>1, <3>4 DEF Transfer, NoProp
        <4>2. more
          BY Zenon, <1>2, <3>1, <3>2, <3>4, <4>1 DEF skip
        <4>3. Stage' /\ toOther' = <<>> /\ pc' = "read"
          BY Zenon, <1>1, <2>1, <4>2 DEF Stage, more, Best, ReadShape
        <4>4. /\ read'.incr /\ read'.target = read.target /\ read'.got = read.got + 1
              /\ answers' = <<>> /\ prop' = NoProp /\ xfer' = xfer
          BY Zenon, <3>1, <4>2 DEF more, ReadShape
        <4>5. Transfer'
          <5>1. read'.got \in 0 .. Chunks /\ Chunks + 1 - read'.got = Chunks - read.got
            <6>1. \A c \in Nat : \A g \in Nat :
                    g < c => g + 1 \in 0 .. c /\ c + 1 - (g + 1) = c - g
              OBVIOUS
            <6>2. Chunks \in Nat
              BY Zenon, X11ClipboardAssumption
            <6>3. read.got \in Nat /\ read.got < Chunks /\ read'.got = read.got + 1
              BY Zenon, <4>1, <4>4
            <6> QED
              BY Zenon, <6>1, <6>2, <6>3
          <5> QED
            BY Zenon, <1>1, <3>1, <4>1, <4>4, <5>1 DEF Transfer, InChunks, offer
        <4> QED
          BY ZenonT(60), <1>1, <1>3, <4>3, <4>5 DEF InStep, ReadIsFirstFormat
      <3> QED
        BY Zenon, <3>3, <3>4
    <2>4. ~Asked /\ ~Refused
      BY <1>1 DEF Asked, Refused, Note
    <2> QED
      BY Zenon, <1>1, <1>5, <2>2, <2>3, <2>4 DEF InStep
  <1> QED
    BY Zenon, <1>4, <1>5

\* The other client answers the request of a read.
LEMMA ConvertStep ==
  ASSUME ReadInv, OtherConverts
  PROVE  ReadInv'
  <1> USE DEF ReadInv
  <1> DEFINE t == Head(toOther)
  <1>1. /\ toOther # <<>> /\ toOther' = Tail(toOther)
        /\ UNCHANGED << offer, pc, read, result, late, changed >>
        /\ owner' = owner /\ sup' = sup /\ big' = big
    BY Zenon DEF OtherConverts, offer
  <1>2. pc = "read" /\ pc' = "read"
    BY Zenon, <1>1 DEF Closed
  <1>3. ReadShape' /\ Closed' /\ ReadIsFirstFormat'
    BY Zenon, <1>1, <1>2 DEF ReadShape, Closed, ReadIsFirstFormat
  <1>4. ASSUME Undisturbed' PROVE InStep'
    <2>1. Stage /\ Asked
      BY Zenon, <1>1, <1>2, <1>4 DEF InStep, Undisturbed
    <2>2. t = read.target /\ toOther' = <<>> /\ answers = <<>> /\ ~read.incr /\ read.got = 0
      BY <1>1, <2>1 DEF Asked
    <2>3. Stage'
      BY Zenon, <1>1, <2>1 DEF Stage, Best
    <2>4. CASE t = "TARGETS" \/ t \in sup
      <3>1. answers' = << Note("property", t), Note("notify", t) >>
        <4>1. answers' = answers \o << Note("property", t), Note("notify", t) >>
          BY Zenon, <2>4 DEF OtherConverts, Note
        <4> QED
          BY Zenon, <2>2, <4>1, EmptyFacts
      <3>2. \/ /\ AtOnce /\ xfer' = NoXfer
               /\ prop' = IF t = "TARGETS" THEN [type |-> "ATOM", part |-> "whole", list |-> sup]
                          ELSE [type |-> t, part |-> "whole", list |-> {}]
            \/ InChunks /\ xfer' = [type |-> t, left |-> Chunks + 1]
               /\ prop' = [type |-> "INCR", part |-> "whole", list |-> {}]
        BY Zenon, <2>1, <2>2, <2>4 DEF OtherConverts, AtOnce, InChunks, Asked
      <3>3. Answered'
        BY Zenon, <1>1, <2>2, <3>1, <3>2 DEF Answered, AtOnce, InChunks, Note
      <3> QED
        BY Zenon, <2>2, <2>3, <3>3 DEF InStep
    <2>5. CASE ~(t = "TARGETS" \/ t \in sup)
      <3>1. answers' = << Note("none", t) >> /\ UNCHANGED << prop, xfer >>
        <4>1. answers' = Append(answers, Note("none", t)) /\ UNCHANGED << prop, xfer >>
          BY Zenon, <2>5 DEF OtherConverts, Note
        <4> QED
          BY Zenon, <2>2, <4>1, EmptyFacts
      <3>2. Refused' /\ xfer' = NoXfer
        BY Zenon, <1>1, <2>1, <2>2, <2>5, <3>1 DEF Refused, Asked, Note
      <3> QED
        BY Zenon, <2>2, <2>3, <3>2 DEF InStep
    <2> QED
      BY Zenon, <2>4, <2>5
  <1> QED
    BY Zenon, <1>1, <1>3, <1>4 DEF InStep

\* The other client sends the next chunk when the last one was taken.
LEMMA ChunkStep ==
  ASSUME ReadInv, OtherSendsChunk
  PROVE  ReadInv'
  <1> USE DEF ReadInv
  <1>1. /\ xfer # NoXfer /\ prop = NoProp /\ pc = "read"
        /\ UNCHANGED << pc, read, toOther, result, late, changed >>
        /\ owner' = owner /\ sup' = sup /\ big' = big
    BY Zenon DEF OtherSendsChunk, offer
  <1>2. ReadShape' /\ Closed' /\ ReadIsFirstFormat'
    BY Zenon, <1>1 DEF ReadShape, Closed, ReadIsFirstFormat
  <1>3. ASSUME Undisturbed' PROVE InStep'
    <2>1. Stage /\ Transfer /\ toOther = <<>>
      BY Zenon, <1>1, <1>3 DEF InStep, Undisturbed, Asked, Answered, NoProp
    <2>2. /\ read.incr /\ InChunks /\ read.got \in 0 .. Chunks /\ answers = <<>>
          /\ xfer = [type |-> read.target, left |-> Chunks + 1 - read.got]
      BY Zenon, <1>1, <2>1 DEF Transfer, NoProp
    <2>3. Stage'
      BY Zenon, <1>1, <2>1 DEF Stage, Best
    <2>4. answers' = << Note("property", "none") >>
      BY Zenon, <2>2, EmptyFacts DEF OtherSendsChunk, Note
    <2>5. CASE xfer.left = 1
      <3>1. read.got = Chunks
        BY Zenon, <2>2, <2>5, ChunksLeft, X11ClipboardAssumption
      <3>2. xfer' = NoXfer /\ prop' = [type |-> read.target, list |-> {}, part |-> "end"]
        BY Zenon, <2>2, <2>5 DEF OtherSendsChunk
      <3>3. Transfer'
        BY Zenon, <1>1, <2>2, <2>4, <3>1, <3>2 DEF Transfer, InChunks, Note
      <3> QED
        BY Zenon, <1>1, <2>1, <2>3, <3>3 DEF InStep
    <2>6. CASE xfer.left # 1
      <3>1. read.got < Chunks /\ xfer.left - 1 = Chunks - read.got
        <4>1. xfer.left = Chunks + 1 - read.got
          BY Zenon, <2>2
        <4>2. read.got < Chunks /\ (Chunks + 1 - read.got) - 1 = Chunks - read.got
          BY Zenon, <2>2, <2>6, <4>1, ChunksLeft, X11ClipboardAssumption
        <4> QED
          BY Zenon, <4>1, <4>2
      <3>2. /\ xfer' = [type |-> read.target, left |-> Chunks - read.got]
            /\ prop' = [type |-> read.target, list |-> {}, part |-> "chunk"]
        BY Zenon, <2>2, <2>6, <3>1 DEF OtherSendsChunk
      <3>3. Transfer'
        BY Zenon, <1>1, <2>2, <2>4, <3>1, <3>2 DEF Transfer, InChunks, Note
      <3> QED
        BY Zenon, <1>1, <2>1, <2>3, <3>3 DEF InStep
    <2> QED
      BY Zenon, <2>5, <2>6
  <1> QED
    BY Zenon, <1>1, <1>2, <1>3 DEF InStep

\* A read starts with the list of targets.
LEMMA ReadStep ==
  ASSUME ReadInv, Read
  PROVE  ReadInv'
  <1> USE DEF ReadInv
  <1>1. pc = "idle" /\ owner' = owner /\ sup' = sup /\ big' = big
        /\ late' = FALSE /\ changed' = FALSE /\ xfer' = xfer
    BY Zenon DEF Read, offer
  <1>2. CASE owner = "us"
    <2>1. pc' = "idle" /\ UNCHANGED << read, toOther, answers, prop >> /\ owner' = "us"
      BY Zenon, <1>1, <1>2 DEF Read
    <2> QED
      BY Zenon, <1>1, <2>1 DEF ReadShape, Closed, InStep, ReadIsFirstFormat
  <1>3. CASE owner # "us"
    <2>1. pc' = "read" /\ ReadSingle("targets", 0, "TARGETS", <<>>)
      BY Zenon, <1>3 DEF Read
    <2>2. ReadShape' /\ Closed' /\ ReadIsFirstFormat'
      BY Zenon, <2>1 DEF ReadSingle, ReadShape, Closed, ReadIsFirstFormat
    <2>3. Stage'
      BY Zenon, <2>1 DEF ReadSingle, Stage
    <2>4. owner = "other" => Asked'
      BY <1>1, <2>1 DEF ReadSingle, Asked, Closed
    <2> QED
      BY Zenon, <1>1, <2>2, <2>3, <2>4 DEF InStep, Undisturbed
  <1> QED
    BY Zenon, <1>2, <1>3

\* Every step keeps the invariant.
LEMMA NextReadInv ==
  ASSUME WellFounded, ReadInv, [Next]_vars
  PROVE  ReadInv'
  <1> USE DEF offer, serving, counts
  <1>1. CASE SetOwner
    <2> USE DEF ReadInv
    <2>1. pc = "idle" /\ pc' = "write" /\ sup' = {} /\ result' = NoResult
          /\ UNCHANGED << read, toOther, answers, prop, xfer >>
      BY Zenon, <1>1 DEF SetOwner
    <2> QED
      BY Zenon, <2>1 DEF ReadShape, Closed, InStep, ReadIsFirstFormat
  <1>2. CASE Drop
    <2> USE DEF ReadInv
    <2>1. pc = "idle" /\ pc' \in {"offer", "destroy"} /\ sup' = sup
          /\ UNCHANGED << read, toOther, answers, prop, xfer >>
      BY Zenon, <1>2 DEF Drop
    <2> QED
      BY Zenon, <2>1 DEF ReadShape, Closed, InStep, ReadIsFirstFormat
  <1>3. CASE SetData \/ AskManager \/ HandoverEnds \/ DestroyWindow \/ Join
    <2>1. UNCHANGED << reading, sup, big >>
      BY Zenon, <1>3 DEF SetData, AskManager, HandoverEnds, DestroyWindow, Join
    <2>2. /\ owner' = owner \/ pc' \notin {"read", "idle"}
          /\ \/ pc = "write" /\ pc' = "idle"
             \/ pc # "read" /\ pc' \notin {"read", "idle", "write"}
      BY Zenon, <1>3 DEF SetData, AskManager, HandoverEnds, DestroyWindow, Join
    <2> QED
      BY Zenon, <2>1, <2>2, ElsewhereStep
  <1>4. CASE Server
    <2>1. UNCHANGED << reading, sup, big, pc, owner >>
      BY Zenon, <1>4 DEF Server, SelectionClear, SelectionRequest, AfterRequest, SelectionNotify,
                  DestroyNotify
    <2> QED
      BY Zenon, <2>1, ElsewhereStep
  <1>5. ASSUME NEW S \in SUBSET FormatSet, NEW b \in BOOLEAN, OtherTakes(S, b)
        PROVE  ReadInv'
    <2> USE DEF ReadInv
    <2>1. sup' \subseteq FormatSet /\ changed' = TRUE
          /\ UNCHANGED << pc, read, toOther, answers, prop, xfer, result >>
      BY Zenon, <1>5 DEF OtherTakes
    <2> QED
      BY Zenon, <2>1 DEF ReadShape, Closed, InStep, ReadIsFirstFormat, Undisturbed
  <1>6. ASSUME NEW t \in Targets, OtherRequests(t) \/ ManagerRequests(t)
        PROVE  ReadInv'
    <2>1. UNCHANGED << reading, sup, big, pc, owner >>
      BY Zenon, <1>6 DEF OtherRequests, ManagerRequests
    <2> QED
      BY Zenon, <2>1, ElsewhereStep
  <1>7. CASE ManagerNotifies \/ UNCHANGED vars
    <2>1. UNCHANGED << reading, sup, big, pc, owner >>
      BY Zenon, <1>7 DEF ManagerNotifies, vars
    <2> QED
      BY Zenon, <2>1, ElsewhereStep
  <1> QED
    BY ZenonT(60), <1>1, <1>2, <1>3, <1>4, <1>5, <1>6, <1>7, ReadStep, NotifyStep, PropertyStep, TimeoutStep,
       ConvertStep, ChunkStep DEF Next, Main

WF == INSTANCE WellFoundedInduction

\* The natural numbers are well-founded.
LEMMA NatIsWellFounded == WellFounded
  <1> SUFFICES ASSUME NEW T \in SUBSET Nat, T # {}
               PROVE  \E x \in T : \A y \in T : x <= y
    BY Zenon DEF WellFounded
  <1> DEFINE R == {ss \in Nat \X Nat : ss[1] < ss[2]}
  <1>1. WF!IsWellFoundedOn(R, Nat)
    BY Zenon, WF!NatLessThanWellFounded DEF WF!OpToRel
  <1>2. PICK x \in T : \A y \in T : ~ (<<y, x>> \in R)
    <2> HIDE DEF R
    <2> QED
      BY Zenon, <1>1, WF!WFMin
  <1>3. \A y \in T : ~ (y < x)
    BY Zenon, <1>2
  <1> QED
    BY <1>3

\* A read that nobody disturbed returns the first of our formats that the owner
\* offers, for any list of formats, whatever the size of the content, and only
\* when there is none it returns nothing.
THEOREM FirstFormatIsRead == Spec => []ReadIsFirstFormat
  <1>1. ReadInv /\ [Next]_vars => ReadInv'
    BY Zenon, NatIsWellFounded, NextReadInv
  <1>2. ReadInv => ReadIsFirstFormat
    BY Zenon DEF ReadInv
  <1> QED
    BY <1>1, <1>2, InitReadInv, PTL DEF Spec

(***************************************************************************)
(* The frame loop of a Wayland window                                      *)
(***************************************************************************)

LoopStates == {"Unconfigured", "Ticking", "RescheduleRequested",
               "PresentationFailed", "AwaitingCallback", "Scheduled",
               "RetryScheduled", "Parked"}

FrameShape ==
  /\ frame_loop \in LoopStates
  /\ presentation \in {"Unpresented", "Presented", "RetryBeforeFirstPresent",
                       "RetryAfterPresent"}
  /\ pending_frame_callback \in {"none", "requested", "committed"}
  /\ tick \in {"idle", "request", "callbacks", "decide", "drawing", "present",
             "finish", "complete"}
  /\ timers \in Nat /\ hides \in Nat /\ faults \in Nat

\* The states of the loop at each step of a tick.  Only user code, which runs
\* before the presentation, hides or shows the window.
LoopInTick ==
  /\ tick = "request" => frame_loop = "Ticking"
  /\ tick # "idle" => frame_loop \notin {"Unconfigured", "RetryScheduled"}
  /\ frame_loop \in {"AwaitingCallback", "PresentationFailed"} =>
       tick \in {"idle", "finish", "complete"}
  /\ tick = "idle" =>
       frame_loop \notin {"Ticking", "RescheduleRequested",
                          "PresentationFailed"}
  /\ tick # "idle" => (~ visible <=> frame_loop = "Parked")

\* What keeps the loop from forgetting: a change that was not presented is
\* held by the dirty flag, the requested redraw or the failed presentation, or
\* is being drawn.
NothingForgotten ==
  /\ owed # {} => \/ dirty \/ redraw_requested \/ RequiresPresentation
                  \/ tick \in {"drawing", "present"}
  /\ needs_present => tick = "present"
  /\ frame_loop = "PresentationFailed" => RequiresPresentation
  /\ frame_loop = "Unconfigured" => dirty
  /\ tick # "idle" /\ frame_loop = "Scheduled" => redraw_requested
  /\ tick = "complete" /\ frame_loop = "Ticking" =>
       ~ dirty /\ ~ next_frame_callbacks

\* A layer surface that is not hidden leaves Unconfigured with its first
\* configure.
ConfiguredFirst ==
  /\ visible /\ frame_loop # "Unconfigured" => ~ UnconfiguredLayer
  /\ hides = 0 => visible

ParkInv == FrameShape /\ LoopInTick /\ NothingForgotten /\ ConfiguredFirst
             /\ ParkedIsDone

\* What this holds for: toplevels, and layer surfaces that were not hidden.
FrameScope == ~ LayerShell \/ hides = 0

----------------------------------------------------------------------------
\* The counters of faults, hides and timers.
LEMMA CountsUp == \A n \in Nat : n + 1 \in Nat /\ n + 1 # 0 /\ (n > 0 <=> n # 0) /\ n + 1 > 0
  OBVIOUS

\* What schedule_frame does to the loop.
LEMMA ScheduleFrameLoop ==
  ASSUME NEW asked, ScheduleFrame(asked)
  PROVE  /\ frame_loop' =
              IF asked /\ visible /\ frame_loop = "Parked" THEN "Scheduled"
              ELSE IF asked /\ visible /\ frame_loop = "Ticking"
                     THEN "RescheduleRequested" ELSE frame_loop
         /\ frame_loop' = "Scheduled" /\ frame_loop # "Scheduled" => ping'
         /\ ping => ping'
  BY Zenon DEF ScheduleFrame

\* A new window waits for its first configure.
LEMMA InitPark == FrameInit => ParkInv
  BY DEF FrameInit, ParkInv, FrameShape, LoopStates, LoopInTick, NothingForgotten,
         ConfiguredFirst, ParkedIsDone, RequiresPresentation, LayerShell,
         UnconfiguredLayer

\* The steps of a tick keep the invariant.
LEMMA TickPark == ASSUME FrameScope, FrameScope', ParkInv, Tick PROVE ParkInv'
  <1> USE DEF ParkInv, FrameShape, LoopStates, LoopInTick, NothingForgotten,
              ConfiguredFirst, ParkedIsDone, RequiresPresentation, HasWork,
              UnconfiguredLayer, LayerRemapped, LayerShell, FrameScope
  <1> USE DEF wlVars, roleVars, gpuiVars, loopVars
  <1>1. CASE RequestThrottled
    <2>1. ScheduleFrame(TRUE) /\ frame_loop = "Ticking"
      BY Zenon, <1>1 DEF RequestThrottled
    <2>2. frame_loop' = IF visible THEN "RescheduleRequested" ELSE "Ticking"
      BY Zenon, <2>1 DEF ScheduleFrame
    <2> QED
      BY Zenon, <1>1, <2>2 DEF RequestThrottled
  <1>2. CASE RequestFrame
    BY Zenon, <1>2, ScheduleFrameLoop DEF RequestFrame
  <1>3. CASE CallbacksReturn
    BY ZenonT(60), <1>3, ScheduleFrameLoop DEF CallbacksReturn
  <1>4. CASE Decide
    BY ZenonT(60), <1>4 DEF Decide
  <1>5. CASE Drawn
    BY ZenonT(60), <1>5 DEF Drawn
  <1>6. CASE Present
    <2>1. CASE DrawSkipped
      BY Zenon, <1>6, <2>1 DEF Present, DrawSkipped
    <2>2. CASE DeviceLost
      BY ZenonT(60), <1>6, <2>2, CountsUp DEF Present, DeviceLost
    <2>3. CASE RendererDraws(TRUE)
      BY Zenon, <1>6, <2>3 DEF Present, RendererDraws
    <2>4. CASE RendererDraws(FALSE)
      BY ZenonT(60), <1>6, <2>4, CountsUp DEF Present, RendererDraws, Failed
    <2> QED
      BY Zenon, <1>6, <2>1, <2>2, <2>3, <2>4 DEF Present
  <1>7. CASE Finish
    BY ZenonT(60), <1>7, ScheduleFrameLoop DEF Finish
  <1>8. CASE CompleteFrame
    <2> USE <1>8 DEF CompleteFrame, Rest, ArmRetry, RetryNeeded
    <2>1. CASE ~ visible
      BY Zenon, <2>1
    <2>2. CASE visible /\ frame_loop = "AwaitingCallback"
      BY Zenon, <2>2
    <2>3. CASE /\ visible /\ frame_loop # "AwaitingCallback"
               /\ RequiresPresentation
      BY ZenonT(60), <2>3, CountsUp
    <2>4. CASE /\ visible /\ frame_loop # "AwaitingCallback"
               /\ ~ RequiresPresentation
      BY ZenonT(60), <2>4, CountsUp
    <2> QED
      BY Zenon, <2>1, <2>2, <2>3, <2>4
  <1> QED
    BY ZenonT(60), <1>1, <1>2, <1>3, <1>4, <1>5, <1>6, <1>7, <1>8 DEF Tick

\* frame starts a tick of a visible window, or parks.
LEMMA FramePark ==
  ASSUME ParkInv, tick = "idle", Frame, frame_loop = "Unconfigured" => dirty',
         dirty => dirty', visible' = visible, presentation' = presentation,
         owed = owed' \/ dirty' \/ redraw_requested,
         next_frame_callbacks' = next_frame_callbacks,
         needs_present' = needs_present, timers' \in Nat, hides' = hides,
         faults' = faults, role' = role,
         pending_frame_callback' \in {"none", "requested", "committed"},
         ~ LayerShell \/ configured' \/ ~ visible
  PROVE  ParkInv'
  <1> USE DEF ParkInv, FrameShape, LoopStates, LoopInTick, NothingForgotten,
              ConfiguredFirst, ParkedIsDone, RequiresPresentation, HasWork,
              UnconfiguredLayer, LayerRemapped, LayerShell, FrameScope
  <1>1. CASE visible
    BY Zenon, <1>1 DEF Frame
  <1>2. CASE ~ visible
    BY Zenon, <1>2 DEF Frame
  <1> QED
    BY Zenon, <1>1, <1>2

\* So do the sources of the event loop, which start a tick or only arm one.
LEMMA SourcesPark == ASSUME FrameScope, FrameScope', ParkInv, Sources PROVE ParkInv'
  <1>0. RetryTimerFired => timers' \in Nat
    BY DEF RetryTimerFired, TimerDropped, ParkInv, FrameShape
  <1> USE DEF ParkInv, FrameShape, LoopStates, LoopInTick, NothingForgotten,
              ConfiguredFirst, ParkedIsDone, RequiresPresentation, HasWork,
              UnconfiguredLayer, LayerRemapped, LayerShell, FrameScope
  <1> USE DEF SourceRest, NotConfigure, NoFrame
  <1>1. ASSUME NEW resized \in BOOLEAN, HandleConfigure(resized),
               tick = "idle", SourceRest, timers' = timers,
               pending_frame_callback' = pending_frame_callback
        PROVE  ParkInv'
    <2>1. CASE frame_loop = "Unconfigured"
      BY Zenon, <1>1, <2>1, FramePark DEF HandleConfigure
    <2>2. CASE frame_loop # "Unconfigured"
      BY ZenonT(60), <1>1, <2>2, ScheduleFrameLoop DEF HandleConfigure, RequestRedraw
    <2> QED
      BY Zenon, <2>1, <2>2
  <1>2. CASE Configure
    BY Zenon, <1>1, <1>2 DEF Configure
  <1>3. CASE ResizeConfigure
    BY Zenon, <1>1, <1>3 DEF ResizeConfigure
  <1>4. CASE FrameCallbackFired
    <2>1. CASE frame_loop = "AwaitingCallback"
      BY Zenon, <1>4, <2>1, FramePark DEF FrameCallbackFired
    <2>2. CASE frame_loop # "AwaitingCallback"
      BY ZenonT(60), <1>4, <2>2 DEF FrameCallbackFired
    <2> QED
      BY Zenon, <2>1, <2>2
  <1>5. CASE PingFired
    <2>1. CASE frame_loop = "Scheduled"
      BY Zenon, <1>5, <2>1, FramePark DEF PingFired
    <2>2. CASE frame_loop # "Scheduled"
      BY ZenonT(60), <1>5, <2>2 DEF PingFired
    <2> QED
      BY Zenon, <2>1, <2>2
  <1>6. CASE RetryTimerFired
    <2>1. CASE frame_loop = "RetryScheduled"
      BY ZenonT(60), <1>0, <1>6, <2>1, FramePark DEF RetryTimerFired
    <2>2. CASE frame_loop # "RetryScheduled"
      BY ZenonT(60), <1>0, <1>6, <2>2 DEF RetryTimerFired
    <2> QED
      BY Zenon, <2>1, <2>2
  <1> QED
    BY Zenon, <1>2, <1>3, <1>4, <1>5, <1>6 DEF Sources

\* So does user code, between ticks and inside one.
LEMMA UserPark == ASSUME FrameScope, FrameScope', ParkInv, User PROVE ParkInv'
  <1> USE DEF ParkInv, FrameShape, LoopStates, LoopInTick, NothingForgotten,
              ConfiguredFirst, ParkedIsDone, RequiresPresentation, HasWork,
              UnconfiguredLayer, LayerRemapped, LayerShell, FrameScope
  <1> USE DEF wlVars, roleVars, gpuiVars, tickVars, UserCodeRuns
  <1>1. CASE Notify
    BY ZenonT(60), <1>1, ScheduleFrameLoop DEF Notify
  <1>2. CASE OnNextFrame
    BY ZenonT(60), <1>2, ScheduleFrameLoop DEF OnNextFrame
  <1>3. CASE ChangeSurface
    BY ZenonT(60), <1>3, ScheduleFrameLoop DEF ChangeSurface, RequestRedraw
  <1>4. CASE Hide
    BY ZenonT(60), <1>4, CountsUp DEF Hide, HiddenLoop, CommitCallback
  <1>5. CASE Show
    <2>1. ~ LayerShell
      BY ZenonT(60), <1>5, CountsUp DEF Show
    <2> QED
      BY ZenonT(60), <1>5, <2>1, CountsUp
      DEF Show, ShowToplevel, CommitCallback
  <1> QED
    BY Zenon, <1>1, <1>2, <1>3, <1>4, <1>5 DEF User

----------------------------------------------------------------------------
FrameCounters == hides \in Nat /\ faults \in Nat

\* Faults and hides are only counted up, and the role stays.
LEMMA CountersGrow ==
  ASSUME FrameCounters, [FrameNext]_frameVars
  PROVE  /\ FrameCounters' /\ role' = role
         /\ hides' = 0 => hides = 0
         /\ faults' = 0 => faults = 0
  <1> USE DEF FrameCounters, roleVars
  <1>1. CASE Tick
    <2>1. CASE Present
      BY ZenonT(60), <2>1, CountsUp DEF Present, DrawSkipped, DeviceLost, RendererDraws
    <2>2. CASE RequestThrottled \/ RequestFrame \/ CallbacksReturn
      BY Zenon, <2>2 DEF RequestThrottled, RequestFrame, CallbacksReturn
    <2>3. CASE Decide \/ Drawn \/ Finish \/ CompleteFrame
      BY Zenon, <2>3 DEF Decide, Drawn, Finish, CompleteFrame
    <2> QED
      BY Zenon, <1>1, <2>1, <2>2, <2>3 DEF Tick
  <1>2. CASE Sources
    BY Zenon, <1>2 DEF Sources, Configure, ResizeConfigure, FrameCallbackFired,
                PingFired, RetryTimerFired, SourceRest
  <1>3. CASE User
    <2>1. CASE Notify \/ OnNextFrame \/ ChangeSurface
      BY Zenon, <2>1 DEF Notify, OnNextFrame, ChangeSurface
    <2>2. CASE Hide
      BY Zenon, <2>2, CountsUp DEF Hide
    <2>3. CASE Show
      BY Zenon, <2>3, CountsUp DEF Show
    <2> QED
      BY Zenon, <1>3, <2>1, <2>2, <2>3 DEF User
  <1>4. CASE IntervalPasses \/ UNCHANGED frameVars
    BY Zenon, <1>4 DEF IntervalPasses, frameVars
  <1> QED
    BY Zenon, <1>1, <1>2, <1>3, <1>4 DEF FrameNext

\* Every step keeps the invariant while it applies.
LEMMA NextPark ==
  ASSUME FrameScope, FrameScope', ParkInv, [FrameNext]_frameVars
  PROVE  ParkInv'
  <1>1. CASE IntervalPasses \/ UNCHANGED frameVars
    <2>1. UNCHANGED << loopVars, wlVars, roleVars, gpuiVars, tick, options, force_render,
                       deferred_force_render, owed, faults >>
      BY Zenon, <1>1 DEF IntervalPasses, frameVars, tickVars
    <2> USE <2>1 DEF ParkInv, wlVars, roleVars, gpuiVars, loopVars, LayerShell
    <2>2. FrameShape' /\ LoopInTick'
      BY ZenonT(60) DEF FrameShape, LoopInTick
    <2>3. NothingForgotten' /\ ConfiguredFirst'
      BY Zenon
      DEF NothingForgotten, ConfiguredFirst, UnconfiguredLayer, RequiresPresentation
    <2>4. ParkedIsDone'
      BY Zenon
      DEF ParkedIsDone, RequiresPresentation, HasWork, UnconfiguredLayer, LayerRemapped
    <2> QED
      BY Zenon, <2>2, <2>3, <2>4
  <1> QED
    BY Zenon, <1>1, TickPark, SourcesPark, UserPark DEF FrameNext

\* A window parks only when it is done: a toplevel for any number of faults
\* and of calls of hide and show, a layer surface for any number of faults
\* until it is hidden.
THEOREM ParksWhenDone == FrameSpec => []ParkedIsDone
  <1> DEFINE Inv == FrameCounters /\ (FrameScope => ParkInv)
  <1>1. FrameInit => Inv
    BY InitPark DEF FrameInit, FrameCounters
  <1>2. Inv /\ [FrameNext]_frameVars => Inv'
    <2> SUFFICES ASSUME Inv, [FrameNext]_frameVars PROVE Inv'
      BY Zenon
    <2>1. FrameCounters' /\ (FrameScope' => FrameScope)
      BY Zenon, CountersGrow DEF FrameScope, LayerShell
    <2> QED
      BY Zenon, <2>1, NextPark
  <1>3. Inv => ParkedIsDone
    BY DEF ParkInv, ParkedIsDone, FrameScope, LayerRemapped, FrameCounters
  <1> QED
    BY <1>1, <1>2, <1>3, PTL DEF FrameSpec

----------------------------------------------------------------------------
\* Each waiting state has its wake-up.  A presentation that succeeded once has
\* left a buffer on the surface, which hide alone takes away; without faults
\* no presentation is ever retried.
Wakes ==
  /\ frame_loop \in LoopStates /\ timers \in Nat
  /\ presentation \in {"Unpresented", "Presented", "RetryBeforeFirstPresent",
                       "RetryAfterPresent"}
  /\ tick = "idle" =>
       frame_loop \notin {"Ticking", "RescheduleRequested",
                          "PresentationFailed"}
  /\ ~ configured => configure_due
  /\ hides = 0 /\ presentation \in {"Presented", "RetryAfterPresent"} => mapped
  /\ faults = 0 => ~ RequiresPresentation
  /\ frame_loop = "AwaitingCallback" =>
       pending_frame_callback = "committed" /\ mapped
  /\ frame_loop = "Scheduled" => ping
  /\ frame_loop = "RetryScheduled" => timers > 0
  /\ frame_loop = "Unconfigured" => configure_due

\* A tick ends with a wake-up armed, or parked.
LEMMA TickWakes ==
  ASSUME FrameCounters, ~ RemapFault', Wakes, Tick
  PROVE  Wakes'
  <1> USE DEF Wakes, LoopStates, RequiresPresentation, wlVars, roleVars,
              gpuiVars, loopVars
  <1>1. CASE RequestThrottled \/ RequestFrame \/ CallbacksReturn \/ Finish
    <2>1. PICK asked : ScheduleFrame(asked)
      BY Zenon, <1>1 DEF RequestThrottled, RequestFrame, CallbacksReturn, Finish
    <2> QED
      BY ZenonT(60), <1>1, <2>1, ScheduleFrameLoop
      DEF RequestThrottled, RequestFrame, CallbacksReturn, Finish
  <1>2. CASE Decide \/ Drawn
    BY ZenonT(60), <1>2 DEF Decide, Drawn
  <1>3. CASE Present
    <2>1. CASE DrawSkipped
      BY ZenonT(60), <1>3, <2>1 DEF Present, DrawSkipped
    <2>2. CASE DeviceLost
      BY ZenonT(60), <1>3, <2>2, CountsUp DEF Present, DeviceLost, FrameCounters
    <2>3. CASE RendererDraws(TRUE)
      BY Zenon, <1>3, <2>3 DEF Present, RendererDraws
    <2>4. CASE RendererDraws(FALSE)
      <3>1. faults' > 0 /\ hides' = hides /\ hides = 0
        BY <1>3, <2>4 DEF Present, RendererDraws, FrameCounters, RemapFault
      <3>2. /\ presentation' \in {"RetryBeforeFirstPresent",
                                   "RetryAfterPresent"}
            /\ presentation' = "RetryAfterPresent" => mapped'
        BY Zenon, <1>3, <2>4, <3>1 DEF Present, RendererDraws, Failed
      <3>3. /\ frame_loop' = "PresentationFailed" /\ tick' = "finish"
            /\ timers' = timers /\ configured' = configured
            /\ configure_due' = configure_due
        BY Zenon, <1>3, <2>4 DEF Present, RendererDraws
      <3>4. faults' # 0
        BY ZenonT(60), <1>3, <2>4, CountsUp DEF Present, RendererDraws, FrameCounters
      <3> QED
        BY ZenonT(60), <3>1, <3>2, <3>3, <3>4
    <2> QED
      BY Zenon, <1>3, <2>1, <2>2, <2>3, <2>4 DEF Present
  <1>4. CASE CompleteFrame
    <2>1. hides = 0 \/ faults = 0
      BY <1>4 DEF CompleteFrame, RemapFault, FrameCounters
    <2> QED
      BY <1>4, <2>1
      DEF CompleteFrame, Rest, ArmRetry, RetryNeeded, UnconfiguredLayer
  <1> QED
    BY Zenon, <1>1, <1>2, <1>3, <1>4 DEF Tick

\* A source that fires is consumed by a tick of the window that waited for it.
LEMMA SourcesWake == ASSUME Wakes, Sources PROVE Wakes'
  <1> USE DEF Wakes, LoopStates, RequiresPresentation, SourceRest,
              NotConfigure, NoFrame, Frame
  <1>1. CASE Configure \/ ResizeConfigure
    <2>1. PICK resized \in BOOLEAN : HandleConfigure(resized)
      BY Zenon, <1>1 DEF Configure, ResizeConfigure
    <2>2. CASE frame_loop = "Unconfigured"
      BY Zenon, <1>1, <2>1, <2>2 DEF Configure, ResizeConfigure, HandleConfigure
    <2>3. CASE frame_loop # "Unconfigured"
      BY ZenonT(60), <1>1, <2>1, <2>3, ScheduleFrameLoop
      DEF Configure, ResizeConfigure, HandleConfigure, RequestRedraw
    <2> QED
      BY Zenon, <2>2, <2>3
  <1>2. CASE FrameCallbackFired
    BY Zenon, <1>2 DEF FrameCallbackFired
  <1>3. CASE PingFired
    BY ZenonT(60), <1>3 DEF PingFired
  <1>4. CASE RetryTimerFired
    BY <1>4 DEF RetryTimerFired, TimerDropped
  <1> QED
    BY Zenon, <1>1, <1>2, <1>3, <1>4 DEF Sources

\* A hidden window is parked, and show arms its wake-up.
LEMMA UserWakes == ASSUME FrameCounters, Wakes, User PROVE Wakes'
  <1> USE DEF Wakes, LoopStates, RequiresPresentation, wlVars, roleVars,
              gpuiVars, tickVars
  <1>1. CASE Notify \/ OnNextFrame \/ ChangeSurface
    <2>1. PICK asked : ScheduleFrame(asked)
      BY Zenon, <1>1 DEF Notify, OnNextFrame, ChangeSurface, RequestRedraw
    <2> QED
      BY ZenonT(60), <1>1, <2>1, ScheduleFrameLoop
      DEF Notify, OnNextFrame, ChangeSurface, RequestRedraw
  <1>2. CASE Hide
    BY ZenonT(60), <1>2, CountsUp DEF Hide, HiddenLoop, FrameCounters
  <1>3. CASE Show
    <2>1. (configure_due \/ LayerShell) => configure_due'
      BY Zenon, <1>3 DEF Show
    <2>2. hides' = 0 => hides = 0
      BY Zenon, <1>3, CountsUp DEF Show, FrameCounters
    <2>3. pending_frame_callback = "committed" =>
            pending_frame_callback' = "committed"
      BY Zenon, <1>3 DEF Show, CommitCallback
    <2>4. CASE LayerShell
      BY Zenon, <1>3, <2>1, <2>2, <2>4 DEF Show, ShowLayer
    <2>5. CASE ~ LayerShell
      BY ZenonT(60), <1>3, <2>1, <2>2, <2>3, <2>5 DEF Show, ShowToplevel
    <2> QED
      BY Zenon, <2>4, <2>5
  <1> QED
    BY Zenon, <1>1, <1>2, <1>3 DEF User

\* A window waits for nothing in vain: the configure, the ping, the timer or
\* the frame callback of its state is on its way, for both roles, through any
\* number of failed presentations and lost devices or of hides and shows.
THEOREM WakesAreArmed == FrameSpec => []WakeArmedOrRemapFault
  <1> DEFINE Inv == FrameCounters /\ (RemapFault \/ Wakes)
  <1>1. FrameInit => Inv
    BY DEF FrameInit, FrameCounters, Wakes, LoopStates, RequiresPresentation
  <1>2. Inv /\ [FrameNext]_frameVars => Inv'
    <2> SUFFICES ASSUME Inv, [FrameNext]_frameVars, ~ RemapFault' PROVE FrameCounters' /\ Wakes'
      BY Zenon, CountersGrow
    <2>1. FrameCounters' /\ ~ RemapFault
      BY ZenonT(60), CountersGrow, CountsUp DEF RemapFault, FrameCounters
    <2>2. CASE IntervalPasses \/ UNCHANGED frameVars
      BY ZenonT(60), <2>1, <2>2
      DEF IntervalPasses, frameVars, wlVars, roleVars, gpuiVars, tickVars,
          loopVars, Wakes, RequiresPresentation
    <2> QED
      BY Zenon, <2>1, <2>2, TickWakes, SourcesWake, UserWakes DEF FrameNext
  <1>3. Inv => WakeArmedOrRemapFault
    BY Zenon DEF Wakes, LoopStates, WakeArmedOrRemapFault, WakeArmed, Armed
  <1> QED
    BY <1>1, <1>2, <1>3, PTL DEF FrameSpec
============================================================================
