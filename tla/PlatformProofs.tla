--------------------------- MODULE PlatformProofs --------------------------
(***************************************************************************)
(* Two parts of crates/gpui/src/platform that do not interact.             *)
(*                                                                         *)
(* The threaded dispatcher, for every number of workers, outside threads,  *)
(* tasks and timers: its in-flight count is exact, an idle dispatcher is   *)
(* quiet, and the batches of its main queue are closed.                    *)
(*                                                                         *)
(* The single-instance lock, for every number of processes and every       *)
(* backlog: mutual exclusion of instances, with the mutex of Windows       *)
(* always, with the socket of Unix as long as no two processes are inside  *)
(* `acquire` at once.                                                      *)
(***************************************************************************)
EXTENDS ThreadedDispatcher, SingleInstance, SequenceTheorems, FiniteSetTheorems, TLAPS

(***************************************************************************)
(* The threaded dispatcher                                                 *)
(***************************************************************************)

\* A queue without repetitions.
NoRepeats(q) == \A i, j \in 1 .. Len(q) : q[i] = q[j] => i = j

\* Pushing a new element at the end of a queue.
LEMMA AppendElems ==
  ASSUME NEW S, NEW q \in Seq(S), NEW k \in S
  PROVE  /\ Append(q, k) \in Seq(S)
         /\ Elems(Append(q, k)) = Elems(q) \cup {k}
         /\ NoRepeats(q) /\ k \notin Elems(q) => NoRepeats(Append(q, k))
  <1>1. /\ Append(q, k) \in Seq(S) /\ Len(q) \in Nat
        /\ DOMAIN q = 1 .. Len(q)
        /\ DOMAIN Append(q, k) = 1 .. Len(q) + 1
        /\ Len(Append(q, k)) = Len(q) + 1
        /\ Append(q, k)[Len(q) + 1] = k
        /\ \A i \in 1 .. Len(q) : Append(q, k)[i] = q[i]
    OBVIOUS
  <1> DEFINE r == Append(q, k)
  <1> HIDE DEF r
  <1>2. Elems(r) = Elems(q) \cup {k}
    BY <1>1 DEF Elems, r
  <1>3. NoRepeats(q) /\ k \notin Elems(q) => NoRepeats(r)
    BY <1>1 DEF Elems, NoRepeats, r
  <1> QED
    BY Zenon, <1>1, <1>2, <1>3 DEF r

\* Popping the head of a queue without repetitions.
LEMMA TailElems ==
  ASSUME NEW S, NEW q \in Seq(S), q # << >>, NoRepeats(q)
  PROVE  /\ Tail(q) \in Seq(S) /\ NoRepeats(Tail(q))
         /\ Head(q) \in Elems(q) /\ Elems(Tail(q)) = Elems(q) \ {Head(q)}
  <1>1. /\ Tail(q) \in Seq(S) /\ Len(q) \in Nat \ {0}
        /\ DOMAIN q = 1 .. Len(q) /\ Head(q) = q[1]
        /\ DOMAIN Tail(q) = 1 .. Len(q) - 1
        /\ Len(Tail(q)) = Len(q) - 1
        /\ \A i \in 1 .. Len(q) - 1 : Tail(q)[i] = q[i + 1]
    OBVIOUS
  <1> DEFINE r == Tail(q)
  <1> HIDE DEF r
  <1>2. NoRepeats(r)
    BY <1>1 DEF NoRepeats, r
  <1>3. Head(q) \in Elems(q)
    BY <1>1 DEF Elems
  <1>4. Elems(r) \subseteq Elems(q) \ {Head(q)}
    BY <1>1 DEF Elems, NoRepeats, r
  <1>5. ASSUME NEW x \in Elems(q), x # Head(q) PROVE x \in Elems(r)
    <2>1. PICK i \in 1 .. Len(q) : x = q[i]
      BY Zenon, <1>1, <1>5 DEF Elems
    <2>2. i - 1 \in 1 .. Len(q) - 1 /\ r[i - 1] = q[i]
      BY <1>1, <1>5, <2>1 DEF r
    <2> QED
      BY Zenon, <1>1, <2>1, <2>2 DEF Elems, r
  <1> QED
    BY Zenon, <1>1, <1>2, <1>3, <1>4, <1>5 DEF r

----------------------------------------------------------------------------
\* Where a thread can be.
Labels == {"run", "counted", "pushed", "pop", "waiting", "finish", "scan",
           "popped", "top", "nap", "lock", "locked", "sleepy", "wait",
           "returned"}

\* The types of what the invariant speaks of.
Shape ==
  /\ background \in [Priorities -> Seq(Tasks)]
  /\ main \in Seq(Tasks)
  /\ heap \subseteq Timers /\ fresh \subseteq Tasks
  /\ inflight \in Int
  /\ pc \in [Threads -> Labels]
  /\ cur \in [Threads -> Tasks \cup {NoTask}]
  /\ job \in [Threads -> Tasks \cup {NoTask}]

\* The labels at which a worker has a task, and a thread has one in hand.
Busy == {"run", "finish", "counted", "pushed"}
Carrying == {"counted", "popped"}

\* A worker has a task from its pop to its decrement, and a thread has one in
\* hand from the increment, or the pop of the timer heap, to the push.
InHand ==
  /\ \A w \in Workers : cur[w] # NoTask <=> pc[w] \in Busy
  /\ \A t \in Threads : job[t] # NoTask <=> pc[t] \in Carrying

\* A task is in one place on its way to the workers: not dispatched, in the
\* timer heap, in the hand of one thread, or once in one queue.
OneCopy ==
  /\ \A p \in Priorities : NoRepeats(background[p])
  /\ \A p, q \in Priorities :
       p # q => Elems(background[p]) \cap Elems(background[q]) = {}
  /\ fresh \cap heap = {}
  /\ \A p \in Priorities : Elems(background[p]) \cap (fresh \cup heap) = {}
  /\ \A t \in Threads :
       /\ job[t] \notin fresh \cup heap
       /\ \A p \in Priorities : job[t] \notin Elems(background[p])
       /\ \A u \in Threads \ {t} : job[t] # NoTask => job[u] # job[t]

\* What the count counts besides the queues.
Running == {w \in Workers : cur[w] # NoTask}
Counted == {t \in Threads : pc[t] = "counted"}

\* The inductive invariant.
IInv == Shape /\ InHand /\ OneCopy /\ InflightExact

\* The sets that the count adds up are finite.
LEMMA CountedSets ==
  ASSUME Shape
  PROVE  /\ Queued \subseteq Tasks /\ IsFiniteSet(Queued)
         /\ IsFiniteSet(Running) /\ IsFiniteSet(Counted)
         /\ Cardinality(Queued) \in Nat /\ Cardinality(Running) \in Nat
         /\ Cardinality(Counted) \in Nat
  <1>1. \A p \in Priorities : Elems(background[p]) \subseteq Tasks
    BY DEF Shape, Elems
  <1>2. Queued \subseteq Tasks
    BY <1>1, Zenon DEF Queued
  <1>3. IsFiniteSet(Threads)
    <2>1. IsFiniteSet({Main, Timer})
      <3>1. {Main} \cup {Timer} = {Main, Timer} /\ IsFiniteSet({Main})
        BY Zenon, FS_Singleton
      <3> QED
        BY <3>1, FS_AddElement
    <2> QED
      BY Zenon, <2>1, DispatcherAssumption, FS_Union DEF Threads
  <1>4. IsFiniteSet(Queued) /\ IsFiniteSet(Running) /\ IsFiniteSet(Counted)
    BY Zenon, <1>2, <1>3, DispatcherAssumption, FS_Subset DEF Running, Counted
  <1> QED
    BY Zenon, <1>2, <1>4, FS_CardinalityType

\* A step that moves no task on its way to the workers keeps the count, as do
\* steps that only dispatch to the main thread or to the timer heap.
LEMMA QuietStep ==
  ASSUME IInv, UNCHANGED << background, inflight, job >>,
         heap' \cup fresh' \subseteq heap \cup fresh, heap' \cap fresh' = {},
         heap' \subseteq Timers, fresh' \subseteq Tasks, main' \in Seq(Tasks),
         cur' \in [Threads -> Tasks \cup {NoTask}], pc' \in [Threads -> Labels],
         \A w \in Workers : cur'[w] # NoTask <=> cur[w] # NoTask,
         \A w \in Workers : pc'[w] \in Busy <=> pc[w] \in Busy,
         \A t \in Threads : pc'[t] \in Carrying <=> pc[t] \in Carrying,
         \A t \in Threads : pc'[t] = "counted" <=> pc[t] = "counted"
  PROVE  IInv'
  <1>1. Shape'
    BY Zenon DEF IInv, Shape
  <1>2. InHand'
    BY Zenon DEF IInv, InHand
  <1>3. OneCopy'
    BY Zenon DEF IInv, OneCopy
  <1>4. Queued' = Queued /\ Running' = Running /\ Counted' = Counted
    BY Zenon DEF Queued, Running, Counted
  <1>5. InflightExact'
    BY Zenon, <1>4 DEF IInv, InflightExact, Running, Counted
  <1> QED
    BY Zenon, <1>1, <1>2, <1>3, <1>5 DEF IInv

\* dispatch counts a task before anyone can see it.
LEMMA DispatchCountStep ==
  ASSUME IInv, NEW t \in Threads, NEW k \in Tasks, DispatchCount(t, k)
  PROVE  IInv'
  <1>0. /\ pc[t] = "run" /\ k \in fresh /\ inflight' = inflight + 1
        /\ fresh' = fresh \ {k} /\ job' = [job EXCEPT ![t] = k]
        /\ pc' = [pc EXCEPT ![t] = "counted"]
        /\ UNCHANGED << background, main, heap, cur >>
    BY Zenon DEF DispatchCount, Goto
  <1>1. Shape'
    BY <1>0 DEF IInv, Shape, Labels
  <1>2. InHand'
    <2>1. \A w \in Workers : cur'[w] # NoTask <=> pc'[w] \in Busy
      BY Zenon, <1>0 DEF IInv, Shape, InHand, Threads, Busy
    <2>2. \A u \in Threads : job'[u] # NoTask <=> pc'[u] \in Carrying
      BY Zenon, <1>0, DispatcherAssumption DEF IInv, Shape, InHand, Carrying
    <2> QED
      BY Zenon, <2>1, <2>2 DEF InHand
  <1>3. OneCopy'
    <2>1. \A u \in Threads : job[u] # k
      BY Zenon, <1>0 DEF IInv, OneCopy
    <2>2. \A p \in Priorities : k \notin Elems(background[p])
      BY Zenon, <1>0 DEF IInv, OneCopy
    <2>3. ASSUME NEW u \in Threads
          PROVE  /\ job'[u] \notin fresh' \cup heap'
                 /\ \A p \in Priorities : job'[u] \notin Elems(background[p])
                 /\ \A v \in Threads \ {u} : job'[u] # NoTask => job'[v] # job'[u]
      <3>1. CASE u = t
        BY Zenon, <1>0, <2>1, <2>2, <3>1 DEF IInv, Shape, OneCopy
      <3>2. CASE u # t
        BY Zenon, <1>0, <2>1, <2>2, <3>2 DEF IInv, Shape, OneCopy
      <3> QED
        BY Zenon, <3>1, <3>2
    <2> QED
      BY Zenon, <1>0, <2>3 DEF IInv, OneCopy
  <1>4. InflightExact'
    <2>1. Queued' = Queued /\ Running' = Running
      BY Zenon, <1>0 DEF Queued, Running
    <2>2. Counted' = Counted \cup {t} /\ t \notin Counted
      BY Zenon, <1>0 DEF IInv, Shape, Counted
    <2>3. Cardinality(Counted') = Cardinality(Counted) + 1
      BY Zenon, <2>2, CountedSets, FS_AddElement DEF IInv
    <2> QED
      BY <1>0, <2>1, <2>3, CountedSets
      DEF IInv, InflightExact, Running, Counted
  <1> QED
    BY Zenon, <1>1, <1>2, <1>3, <1>4 DEF IInv

\* The timer thread counts the timer it took from the heap.
LEMMA TimerCountStep ==
  ASSUME IInv, TimerCount
  PROVE  IInv'
  <1>0. /\ pc[Timer] = "popped" /\ inflight' = inflight + 1 /\ Timer \in Threads
        /\ pc' = [pc EXCEPT ![Timer] = "counted"]
        /\ UNCHANGED << background, main, heap, fresh, cur, job >>
    BY Zenon DEF TimerCount, TimerCounted, Goto, Threads
  <1>1. Shape'
    BY <1>0 DEF IInv, Shape, Labels
  <1>2. InHand'
    <2>1. \A w \in Workers : cur'[w] # NoTask <=> pc'[w] \in Busy
      BY Zenon, <1>0, DispatcherAssumption DEF IInv, Shape, InHand, Threads, Busy
    <2>2. \A u \in Threads : job'[u] # NoTask <=> pc'[u] \in Carrying
      BY Zenon, <1>0 DEF IInv, Shape, InHand, Carrying
    <2> QED
      BY Zenon, <2>1, <2>2 DEF InHand
  <1>3. OneCopy'
    BY Zenon, <1>0 DEF IInv, OneCopy
  <1>4. InflightExact'
    <2>1. Queued' = Queued /\ Running' = Running
      BY Zenon, <1>0 DEF Queued, Running
    <2>2. Counted' = Counted \cup {Timer} /\ Timer \notin Counted
      BY Zenon, <1>0 DEF IInv, Shape, Counted
    <2>3. Cardinality(Counted') = Cardinality(Counted) + 1
      BY Zenon, <2>2, CountedSets, FS_AddElement DEF IInv
    <2> QED
      BY <1>0, <2>1, <2>3, CountedSets
      DEF IInv, InflightExact, Running, Counted
  <1> QED
    BY Zenon, <1>1, <1>2, <1>3, <1>4 DEF IInv

\* A timer leaves the heap for the hand of the timer thread.
LEMMA TimerPopStep ==
  ASSUME IInv, NEW k \in Timers, TimerPop(k)
  PROVE  IInv'
  <1>0. /\ pc[Timer] = "scan" /\ k \in heap /\ heap' = heap \ {k}
        /\ Timer \in Threads /\ job' = [job EXCEPT ![Timer] = k]
        /\ pc' = [pc EXCEPT ![Timer] = "popped"]
        /\ UNCHANGED << background, main, inflight, fresh, cur >>
    BY Zenon DEF TimerPop, Goto, Threads
  <1>1. Shape'
    BY Zenon, <1>0, DispatcherAssumption DEF IInv, Shape, Labels
  <1>2. InHand'
    <2>1. \A w \in Workers : cur'[w] # NoTask <=> pc'[w] \in Busy
      BY Zenon, <1>0, DispatcherAssumption DEF IInv, Shape, InHand, Threads, Busy
    <2>2. \A u \in Threads : job'[u] # NoTask <=> pc'[u] \in Carrying
      BY Zenon, <1>0, DispatcherAssumption DEF IInv, Shape, InHand, Carrying
    <2> QED
      BY Zenon, <2>1, <2>2 DEF InHand
  <1>3. OneCopy'
    <2>1. \A u \in Threads : job[u] # k
      BY Zenon, <1>0 DEF IInv, OneCopy
    <2>2. ASSUME NEW u \in Threads
          PROVE  /\ job'[u] \notin fresh' \cup heap'
                 /\ \A p \in Priorities : job'[u] \notin Elems(background[p])
                 /\ \A v \in Threads \ {u} : job'[u] # NoTask => job'[v] # job'[u]
      <3>1. CASE u = Timer
        BY Zenon, <1>0, <2>1, <3>1 DEF IInv, Shape, OneCopy
      <3>2. CASE u # Timer
        BY Zenon, <1>0, <2>1, <3>2 DEF IInv, Shape, OneCopy
      <3> QED
        BY Zenon, <3>1, <3>2
    <2> QED
      BY Zenon, <1>0, <2>2 DEF IInv, OneCopy
  <1>4. InflightExact'
    <2>1. Queued' = Queued /\ Running' = Running /\ Counted' = Counted
      BY Zenon, <1>0 DEF Queued, Running, Counted, IInv, Shape
    <2> QED
      BY Zenon, <1>0, <2>1 DEF IInv, InflightExact, Running, Counted
  <1> QED
    BY Zenon, <1>1, <1>2, <1>3, <1>4 DEF IInv

\* What notifying the idle condvar does to the labels.
LEMMA WakeKeeps ==
  ASSUME NEW f \in [Threads -> Labels]
  PROVE  /\ Wake(f) \in [Threads -> Labels]
         /\ \A t \in Threads \ {Main} : Wake(f)[t] = f[t]
         /\ Wake(f)[Main] # f[Main] => Wake(f)[Main] = "top"
                                       /\ f[Main] \in {"wait", "nap"}
  BY DispatcherAssumption DEF Wake, Labels, Threads

\* The guard of a worker uncounts the task it has run.
LEMMA WorkerDecrementStep ==
  ASSUME IInv, NEW w \in Workers, WorkerDecrement(w)
  PROVE  IInv'
  <1> DEFINE g == [pc EXCEPT ![w] = "pop"]
  <1>0. /\ pc[w] = "finish" /\ inflight' = inflight - 1 /\ w \in Threads
        /\ cur' = [cur EXCEPT ![w] = NoTask] /\ pc' = Wake(g)
        /\ UNCHANGED << background, main, heap, fresh, job >>
    BY Zenon DEF WorkerDecrement, DecrementNotify, Threads
  <1>1. g \in [Threads -> Labels] /\ w # Main /\ Main \in Threads
    BY Zenon, <1>0, DispatcherAssumption DEF IInv, Shape, Labels, Threads
  <1>2. /\ pc' \in [Threads -> Labels] /\ pc'[w] = "pop"
        /\ \A t \in Threads \ {Main, w} : pc'[t] = pc[t]
        /\ pc'[Main] # pc[Main] => pc'[Main] = "top" /\ pc[Main] \in {"wait", "nap"}
    <2>1. /\ g[w] = "pop" /\ g[Main] = pc[Main]
          /\ \A t \in Threads \ {Main, w} : g[t] = pc[t]
      BY Zenon, <1>0, <1>1 DEF IInv, Shape
    <2> HIDE DEF g
    <2> QED
      BY Zenon, <1>0, <1>1, <2>1, WakeKeeps
  <1> HIDE DEF g
  <1>3. Shape'
    <2>1. cur' \in [Threads -> Tasks \cup {NoTask}] /\ inflight' \in Int
      BY <1>0 DEF IInv, Shape
    <2> QED
      BY Zenon, <1>0, <1>2, <2>1 DEF IInv, Shape
  <1>4. InHand'
    <2>1. ASSUME NEW v \in Workers PROVE cur'[v] # NoTask <=> pc'[v] \in Busy
      <3>1. CASE v = w
        BY Zenon, <1>0, <1>2, <3>1 DEF IInv, Shape, Busy
      <3>2. CASE v # w
        <4>1. v \in Threads \ {Main, w}
          BY Zenon, <3>2, DispatcherAssumption DEF Threads
        <4> QED
          BY Zenon, <1>0, <1>2, <3>2, <4>1 DEF IInv, Shape, InHand
      <3> QED
        BY Zenon, <3>1, <3>2
    <2>2. ASSUME NEW u \in Threads PROVE job'[u] # NoTask <=> pc'[u] \in Carrying
      <3>1. pc'[u] \in Carrying <=> pc[u] \in Carrying
        BY <1>0, <1>1, <1>2 DEF Carrying
      <3> QED
        BY Zenon, <1>0, <3>1 DEF IInv, InHand
    <2> QED
      BY Zenon, <2>1, <2>2 DEF InHand
  <1>5. OneCopy'
    BY Zenon, <1>0 DEF IInv, OneCopy
  <1>6. InflightExact'
    <2>1. Queued' = Queued
      BY Zenon, <1>0 DEF Queued
    <2>2. \A t \in Threads : pc'[t] = "counted" <=> pc[t] = "counted"
      BY Zenon, <1>0, <1>1, <1>2
    <2>3. Counted' = Counted
      BY Zenon, <2>2 DEF Counted
    <2>4. Running' = Running \ {w} /\ w \in Running
      BY <1>0 DEF IInv, Shape, InHand, Running, Busy
    <2>5. Cardinality(Running') = Cardinality(Running) - 1
      BY Zenon, <2>4, CountedSets, FS_RemoveElement DEF IInv
    <2>6. inflight = Cardinality(Queued) + Cardinality(Running) + Cardinality(Counted)
      BY Zenon DEF IInv, InflightExact, Running, Counted
    <2>7. inflight' = Cardinality(Queued') + Cardinality(Running') + Cardinality(Counted')
      BY <1>0, <2>1, <2>3, <2>5, <2>6, CountedSets DEF IInv
    <2> QED
      BY Zenon, <2>7 DEF InflightExact, Running, Counted
  <1> QED
    BY Zenon, <1>3, <1>4, <1>5, <1>6 DEF IInv

\* The task in the hand of a thread goes to the end of a queue; a worker that is
\* woken has no task yet.
LEMMA DispatchPushStep ==
  ASSUME IInv, NEW t \in Threads, DispatchPush(t)
  PROVE  IInv'
  <1> DEFINE k == job[t]
             r == PushPriority(t)
  <1>0. /\ pc[t] = "counted" /\ job' = [job EXCEPT ![t] = NoTask]
        /\ background' = [background EXCEPT ![r] = Append(@, k)]
        /\ UNCHANGED << main, heap, inflight, fresh, cur >>
    BY Zenon DEF DispatchPush
  <1>1. k \in Tasks
    BY Zenon, <1>0 DEF IInv, Shape, InHand, Carrying
  <1>2. r \in Priorities
    BY Zenon, <1>1, DispatcherAssumption DEF PushPriority, Priorities
  <1>3. /\ pc' \in [Threads -> Labels] /\ pc'[t] = "pushed"
        /\ \A u \in Threads \ {t} :
             pc'[u] = pc[u] \/ (u \in Workers /\ pc[u] = "waiting" /\ pc'[u] = "pop")
    <2>1. CASE pc' = [pc EXCEPT ![t] = "pushed"]
      BY Zenon, <2>1 DEF IInv, Shape, Labels
    <2>2. CASE \E w \in Workers :
                 /\ pc[w] = "waiting"
                 /\ pc' = [pc EXCEPT ![w] = "pop", ![t] = "pushed"]
      <3>1. PICK w \in Workers :
              /\ pc[w] = "waiting"
              /\ pc' = [pc EXCEPT ![w] = "pop", ![t] = "pushed"]
        BY Zenon, <2>2
      <3> QED
        BY Zenon, <1>0, <3>1 DEF IInv, Shape, Labels, Threads
    <2> QED
      BY Zenon, <2>1, <2>2 DEF DispatchPush, NotifyWorker, Goto
  <1>4. /\ background'[r] = Append(background[r], k)
        /\ \A p \in Priorities \ {r} : background'[p] = background[p]
        /\ background[r] \in Seq(Tasks)
        /\ NoRepeats(background[r]) /\ k \notin Elems(background[r])
    BY Zenon, <1>0, <1>2 DEF IInv, Shape, OneCopy
  <1>5. /\ background'[r] \in Seq(Tasks) /\ NoRepeats(background'[r])
        /\ Elems(background'[r]) = Elems(background[r]) \cup {k}
    BY <1>1, <1>4, AppendElems
  <1>6. Shape'
    <2>1. background' \in [Priorities -> Seq(Tasks)]
      BY Zenon, <1>0, <1>2, <1>4, <1>5 DEF IInv, Shape
    <2> QED
      BY Zenon, <1>0, <1>3, <2>1 DEF IInv, Shape
  <1>7. InHand'
    <2>1. ASSUME NEW w \in Workers PROVE cur'[w] # NoTask <=> pc'[w] \in Busy
      <3>1. w \in Threads /\ (cur[w] # NoTask <=> pc[w] \in Busy)
        BY Zenon DEF IInv, InHand, Threads
      <3> QED
        BY Zenon, <1>0, <1>3, <3>1 DEF Busy
    <2>2. ASSUME NEW u \in Threads PROVE job'[u] # NoTask <=> pc'[u] \in Carrying
      <3>1. job[u] # NoTask <=> pc[u] \in Carrying
        BY Zenon DEF IInv, InHand
      <3> QED
        BY Zenon, <1>0, <1>3, <3>1 DEF IInv, Shape, Carrying
    <2> QED
      BY Zenon, <2>1, <2>2 DEF InHand
  <1>8. OneCopy'
    <2>1. \A p \in Priorities : k \notin Elems(background[p])
      BY Zenon DEF IInv, OneCopy
    <2>2. k \notin fresh \cup heap /\ \A u \in Threads \ {t} : job[u] # k
      BY Zenon, <1>1, DispatcherAssumption DEF IInv, OneCopy
    <2>3. \A p \in Priorities : Elems(background'[p]) \subseteq Elems(background[p]) \cup {k}
      BY Zenon, <1>4, <1>5
    <2>4. \A p \in Priorities : NoRepeats(background'[p])
      BY Zenon, <1>4, <1>5 DEF IInv, OneCopy
    <2>5. \A p, q \in Priorities :
            p # q => Elems(background'[p]) \cap Elems(background'[q]) = {}
      <3> SUFFICES ASSUME NEW p \in Priorities, NEW q \in Priorities, p # q
                   PROVE  Elems(background'[p]) \cap Elems(background'[q]) = {}
        BY Zenon
      <3>1. /\ Elems(background[p]) \cap Elems(background[q]) = {}
            /\ k \notin Elems(background[p]) /\ k \notin Elems(background[q])
        BY Zenon, <2>1 DEF IInv, OneCopy
      <3> HIDE DEF k, r
      <3>2. CASE p = r
        BY Zenon, <1>4, <1>5, <3>1, <3>2
      <3>3. CASE p # r
        BY Zenon, <1>4, <1>5, <3>1, <3>3
      <3> QED
        BY Zenon, <3>2, <3>3
    <2>6. \A p \in Priorities : Elems(background'[p]) \cap (fresh \cup heap) = {}
      BY <2>2, <2>3 DEF IInv, OneCopy
    <2>7. ASSUME NEW u \in Threads
          PROVE  /\ job'[u] \notin fresh \cup heap
                 /\ \A p \in Priorities : job'[u] \notin Elems(background'[p])
                 /\ \A v \in Threads \ {u} : job'[u] # NoTask => job'[v] # job'[u]
      <3>1. CASE u = t
        <4>1. job'[u] = NoTask
          BY Zenon, <1>0, <3>1 DEF IInv, Shape
        <4>2. NoTask \notin Tasks /\ fresh \cup heap \subseteq Tasks
          BY Zenon, DispatcherAssumption DEF IInv, Shape
        <4>3. \A p \in Priorities : Elems(background'[p]) \subseteq Tasks
          BY <1>6 DEF Shape, Elems
        <4> QED
          BY Zenon, <4>1, <4>2, <4>3
      <3>2. CASE u # t
        <4>1. job'[u] = job[u] /\ job[u] # k
          BY Zenon, <1>0, <2>2, <3>2 DEF IInv, Shape
        <4>2. \A v \in Threads : job'[v] = job[v] \/ job'[v] = NoTask
          BY Zenon, <1>0 DEF IInv, Shape
        <4> QED
          BY Zenon, <2>3, <4>1, <4>2 DEF IInv, OneCopy
      <3> QED
        BY Zenon, <3>1, <3>2
    <2> QED
      BY Zenon, <1>0, <2>4, <2>5, <2>6, <2>7 DEF IInv, OneCopy
  <1>9. InflightExact'
    <2>1. Queued' = Queued \cup {k} /\ k \notin Queued
      <3>1. \A x : x \in Queued <=> \E p \in Priorities : x \in Elems(background[p])
        BY Zenon DEF Queued
      <3>2. \A x : x \in Queued' <=> \E p \in Priorities : x \in Elems(background'[p])
        BY Zenon DEF Queued, Elems
      <3>3. \A p \in Priorities : k \notin Elems(background[p])
        BY Zenon DEF IInv, OneCopy
      <3> HIDE DEF k, r
      <3>4. \A x : x \in Queued' <=> x \in Queued \cup {k}
        BY Zenon, <1>2, <1>4, <1>5, <3>1, <3>2
      <3> QED
        BY Zenon, <3>1, <3>3, <3>4
    <2>2. Running' = Running
      BY Zenon, <1>0 DEF Running
    <2>3. Counted' = Counted \ {t} /\ t \in Counted
      BY Zenon, <1>0, <1>3 DEF Counted
    <2>4. /\ Cardinality(Queued') = Cardinality(Queued) + 1
          /\ Cardinality(Counted') = Cardinality(Counted) - 1
      BY Zenon, <2>1, <2>3, CountedSets, FS_AddElement, FS_RemoveElement DEF IInv
    <2> QED
      BY <1>0, <2>2, <2>4, CountedSets
      DEF IInv, InflightExact, Running, Counted, Shape
  <1> QED
    BY Zenon, <1>6, <1>7, <1>8, <1>9 DEF IInv

\* With something queued the queue that pop chooses is not empty.
LEMMA MostUrgentHasTask ==
  ASSUME Shape, Queued # {}
  PROVE  MostUrgent \in Priorities /\ background[MostUrgent] # << >>
  <1>1. PICK p \in Priorities : Elems(background[p]) # {}
    BY Zenon DEF Queued
  <1>2. background[p] # << >>
    BY <1>1 DEF Elems
  <1> QED
    BY <1>2 DEF MostUrgent, Priorities

\* A worker takes the first task of a queue, the only copy.
LEMMA WorkerPopStep ==
  ASSUME IInv, NEW w \in Workers, WorkerPop(w)
  PROVE  IInv'
  <1> DEFINE r == MostUrgent
             k == Head(background[r])
  <1>0. /\ pc[w] = "pop" /\ cur' = [cur EXCEPT ![w] = k] /\ w \in Threads
        /\ background' = [background EXCEPT ![r] = Tail(@)]
        /\ pc' = [pc EXCEPT ![w] = "run"]
        /\ UNCHANGED << main, heap, inflight, fresh, job >>
    BY Zenon DEF WorkerPop, Goto, Threads
  <1>1. r \in Priorities /\ background[r] # << >>
    BY Zenon, MostUrgentHasTask DEF WorkerPop, IInv
  <1>2. /\ background'[r] = Tail(background[r])
        /\ \A p \in Priorities \ {r} : background'[p] = background[p]
        /\ background[r] \in Seq(Tasks) /\ NoRepeats(background[r])
    BY Zenon, <1>0, <1>1 DEF IInv, Shape, OneCopy
  <1>3. /\ background'[r] \in Seq(Tasks) /\ NoRepeats(background'[r])
        /\ k \in Elems(background[r])
        /\ Elems(background'[r]) = Elems(background[r]) \ {k}
    BY <1>1, <1>2, TailElems
  <1>4. k \in Tasks
    BY <1>2, <1>3 DEF Elems
  <1> HIDE DEF k, r
  <1>5. Shape'
    <2>1. background' \in [Priorities -> Seq(Tasks)]
      BY Zenon, <1>0, <1>1, <1>2, <1>3 DEF IInv, Shape
    <2>2. /\ cur' \in [Threads -> Tasks \cup {NoTask}]
          /\ pc' \in [Threads -> Labels]
      BY <1>0, <1>4 DEF IInv, Shape, Labels
    <2> QED
      BY Zenon, <1>0, <2>1, <2>2 DEF IInv, Shape
  <1>6. InHand'
    <2>1. ASSUME NEW v \in Workers PROVE cur'[v] # NoTask <=> pc'[v] \in Busy
      <3>1. CASE v = w
        BY Zenon, <1>0, <1>4, <3>1, DispatcherAssumption DEF IInv, Shape, Busy
      <3>2. CASE v # w
        BY Zenon, <1>0, <3>2 DEF IInv, Shape, InHand, Threads
      <3> QED
        BY Zenon, <3>1, <3>2
    <2>2. ASSUME NEW u \in Threads PROVE job'[u] # NoTask <=> pc'[u] \in Carrying
      BY Zenon, <1>0 DEF IInv, Shape, InHand, Carrying
    <2> QED
      BY Zenon, <2>1, <2>2 DEF InHand
  <1>7. OneCopy'
    <2>1. \A p \in Priorities : Elems(background'[p]) \subseteq Elems(background[p])
      BY Zenon, <1>2, <1>3
    <2>2. \A p \in Priorities : NoRepeats(background'[p])
      BY Zenon, <1>2, <1>3 DEF IInv, OneCopy
    <2>3. \A p, q \in Priorities :
            p # q => Elems(background'[p]) \cap Elems(background'[q]) = {}
      BY Zenon, <2>1 DEF IInv, OneCopy
    <2>4. \A p \in Priorities : Elems(background'[p]) \cap (fresh \cup heap) = {}
      BY Zenon, <2>1 DEF IInv, OneCopy
    <2>5. \A t \in Threads : \A p \in Priorities : job[t] \notin Elems(background'[p])
      BY Zenon, <2>1 DEF IInv, OneCopy
    <2> QED
      BY Zenon, <1>0, <2>2, <2>3, <2>4, <2>5 DEF IInv, OneCopy
  <1>8. InflightExact'
    <2>1. Queued' = Queued \ {k} /\ k \in Queued
      <3>1. \A x : x \in Queued <=> \E p \in Priorities : x \in Elems(background[p])
        BY Zenon DEF Queued
      <3>2. \A x : x \in Queued' <=> \E p \in Priorities : x \in Elems(background'[p])
        BY Zenon DEF Queued, Elems
      <3>3. \A p \in Priorities \ {r} : k \notin Elems(background[p])
        BY Zenon, <1>1, <1>3 DEF IInv, OneCopy
      <3>4. \A x : x \in Queued' <=> x \in Queued \ {k}
        BY Zenon, <1>1, <1>2, <1>3, <3>1, <3>2, <3>3
      <3> QED
        BY Zenon, <1>1, <1>3, <3>1, <3>4
    <2>2. Counted' = Counted
      BY Zenon, <1>0 DEF IInv, Shape, Counted
    <2>3. Running' = Running \cup {w} /\ w \notin Running
      BY ZenonT(60), <1>0, <1>4, DispatcherAssumption
      DEF IInv, Shape, InHand, Running, Busy, Threads
    <2>4. /\ Cardinality(Queued') = Cardinality(Queued) - 1
          /\ Cardinality(Running') = Cardinality(Running) + 1
      BY Zenon, <2>1, <2>3, CountedSets, FS_AddElement, FS_RemoveElement DEF IInv
    <2>5. inflight = Cardinality(Queued) + Cardinality(Running) + Cardinality(Counted)
      BY Zenon DEF IInv, InflightExact, Running, Counted
    <2>6. inflight' = Cardinality(Queued') + Cardinality(Running') + Cardinality(Counted')
      BY <1>0, <2>2, <2>4, <2>5, CountedSets DEF IInv
    <2> QED
      BY Zenon, <2>6 DEF InflightExact, Running, Counted
  <1> QED
    BY Zenon, <1>5, <1>6, <1>7, <1>8 DEF IInv

----------------------------------------------------------------------------
\* What a step may do to the labels without moving a task.
QuietLabels ==
  /\ pc' \in [Threads -> Labels]
  /\ \A w \in Workers : pc'[w] \in Busy <=> pc[w] \in Busy
  /\ \A t \in Threads : pc'[t] \in Carrying <=> pc[t] \in Carrying
  /\ \A t \in Threads : pc'[t] = "counted" <=> pc[t] = "counted"

\* One thread goes from a label to another of the same kind.
LEMMA GotoIsQuiet ==
  ASSUME Shape, NEW t \in Threads, NEW label \in Labels \ Carrying,
         Goto(t, label), pc[t] \notin Carrying,
         t \in Workers => (label \in Busy <=> pc[t] \in Busy)
  PROVE  QuietLabels
  BY Zenon DEF Shape, Goto, QuietLabels, Carrying, Threads

\* Main changes its label only among those of no kind.
LEMMA MainIsQuiet ==
  ASSUME Shape, NEW label \in Labels \ Carrying, Goto(Main, label),
         pc[Main] \notin Carrying
  PROVE  QuietLabels
  BY Zenon, GotoIsQuiet, DispatcherAssumption DEF Threads

\* The idle notification wakes the main thread only.
LEMMA NotifyIsQuiet ==
  ASSUME Shape, NEW t \in Threads, DispatchNotify(t)
  PROVE  QuietLabels
  <1> DEFINE label == IF t = Timer THEN "scan" ELSE "run"
             g == [pc EXCEPT ![t] = label]
  <1>1. /\ pc[t] = "pushed" /\ pc' = Wake(g) /\ g \in [Threads -> Labels]
        /\ g[t] = label /\ \A u \in Threads \ {t} : g[u] = pc[u]
    BY Zenon DEF DispatchNotify, Shape, Labels
  <1>2. t \in Workers => label = "run"
    BY Zenon, DispatcherAssumption
  <1>3. Main \in Threads /\ Main \notin Workers
    BY Zenon, DispatcherAssumption DEF Threads
  <1> HIDE DEF g
  <1>4. /\ pc' \in [Threads -> Labels]
        /\ \A u \in Threads \ {Main} : pc'[u] = g[u]
        /\ pc'[Main] # g[Main] => pc'[Main] = "top" /\ g[Main] \in {"wait", "nap"}
    BY Zenon, <1>1, WakeKeeps
  <1>5. \A w \in Workers : pc'[w] \in Busy <=> pc[w] \in Busy
    <2> SUFFICES ASSUME NEW w \in Workers PROVE pc'[w] \in Busy <=> pc[w] \in Busy
      BY Zenon
    <2>1. w \in Threads \ {Main}
      BY Zenon, <1>3 DEF Threads
    <2>2. CASE w = t
      BY Zenon, <1>1, <1>2, <1>4, <2>1, <2>2 DEF Busy
    <2>3. CASE w # t
      BY Zenon, <1>1, <1>4, <2>1, <2>3
    <2> QED
      BY Zenon, <2>2, <2>3
  <1>6. ASSUME NEW u \in Threads
        PROVE  /\ pc'[u] \in Carrying <=> pc[u] \in Carrying
               /\ pc'[u] = "counted" <=> pc[u] = "counted"
    <2>1. g[u] \in Carrying <=> pc[u] \in Carrying
      BY Zenon, <1>1 DEF Carrying
    <2>2. g[u] = "counted" <=> pc[u] = "counted"
      BY Zenon, <1>1
    <2>3. pc'[u] = g[u] \/ (pc'[u] = "top" /\ g[u] \in {"wait", "nap"})
      BY Zenon, <1>4
    <2> QED
      BY Zenon, <2>1, <2>2, <2>3 DEF Carrying
  <1> QED
    BY Zenon, <1>4, <1>5, <1>6 DEF QuietLabels

\* Every step of every thread keeps the invariant.
LEMMA NextIInv == IInv /\ [Next]_vars => IInv'
  <1> SUFFICES ASSUME IInv, [Next]_vars PROVE IInv'
    BY Zenon
  <1>0. /\ Shape /\ heap \cap fresh = {} /\ Main \in Threads
        /\ Main \notin Workers
    BY Zenon, DispatcherAssumption DEF IInv, OneCopy, Threads
  <1>1. ASSUME QuietLabels, UNCHANGED << background, inflight, job >>,
               heap' \cup fresh' \subseteq heap \cup fresh, heap' \cap fresh' = {},
               heap' \subseteq Timers, fresh' \subseteq Tasks, main' \in Seq(Tasks),
               cur' \in [Threads -> Tasks \cup {NoTask}],
               \A w \in Workers : cur'[w] = cur[w]
        PROVE  IInv'
    BY Zenon, <1>1, QuietStep DEF QuietLabels
  <1>2. ASSUME QuietLabels,
               UNCHANGED << background, main, heap, inflight, cur, job, fresh >>
        PROVE  IInv'
    BY Zenon, <1>0, <1>1, <1>2 DEF Shape
  <1>3. ASSUME NEW t \in Threads, NEW k \in Tasks, DispatchOnMain(t, k)
        PROVE  IInv'
    <2>1. QuietLabels
      BY Zenon, <1>0, <1>3, GotoIsQuiet DEF DispatchOnMain, Labels, Carrying, Busy
    <2>2. main' \in Seq(Tasks)
      BY <1>0, <1>3 DEF DispatchOnMain, Shape
    <2> QED
      BY Zenon, <1>0, <1>1, <1>3, <2>1, <2>2 DEF DispatchOnMain, Shape
  <1>4. ASSUME NEW t \in Threads, NEW k \in Tasks, DispatchAfter(t, k)
        PROVE  IInv'
    <2>1. QuietLabels
      BY Zenon, <1>0, <1>4, GotoIsQuiet DEF DispatchAfter, Labels, Carrying, Busy
    <2> QED
      BY Zenon, <1>0, <1>1, <1>4, <2>1 DEF DispatchAfter, Shape
  <1>5. ASSUME NEW t \in Threads, CancelPendingTimers(t) PROVE IInv'
    BY Zenon, <1>0, <1>1, <1>5 DEF CancelPendingTimers, Shape, QuietLabels
  <1>6. ASSUME NEW t \in Threads, DispatchNotify(t) PROVE IInv'
    BY Zenon, <1>0, <1>2, <1>6, NotifyIsQuiet DEF DispatchNotify
  <1>7. ASSUME NEW t \in Threads, Dispatch(t) PROVE IInv'
    BY Zenon, <1>3, <1>4, <1>5, <1>6, <1>7, DispatchCountStep, DispatchPushStep
    DEF Dispatch
  <1>8. ASSUME NEW w \in Workers, WorkerWait(w) \/ WorkerFinish(w) PROVE IInv'
    <2>1. w \in Threads
      BY Zenon DEF Threads
    <2>2. QuietLabels
      BY Zenon, <1>0, <1>8, <2>1, GotoIsQuiet
      DEF WorkerWait, WorkerFinish, Labels, Carrying, Busy
    <2> QED
      BY Zenon, <1>2, <1>8, <2>2 DEF WorkerWait, WorkerFinish
  <1>9. ASSUME NEW w \in Workers, Worker(w) PROVE IInv'
    BY Zenon, <1>8, <1>9, WorkerPopStep, WorkerDecrementStep DEF Worker
  <1>10. ASSUME NEW k \in Timers, TimePasses(k) PROVE IInv'
    BY Zenon, <1>0, <1>2, <1>10 DEF TimePasses, Shape, QuietLabels
  <1>11. ASSUME TimerThread PROVE IInv'
    BY Zenon, <1>11, TimerPopStep, TimerCountStep DEF TimerThread
  <1>12. ASSUME NEW m \in Modes, CallRun(m) PROVE IInv'
    BY Zenon, <1>0, <1>2, <1>12, MainIsQuiet DEF CallRun, Labels, Carrying
  <1>13. ASSUME MainPop PROVE IInv'
    <2>1. QuietLabels
      BY Zenon, <1>0, <1>13, MainIsQuiet DEF MainPop, Labels, Carrying
    <2>2. /\ main' \in Seq(Tasks) /\ Head(main) \in Tasks
      BY <1>0, <1>13 DEF MainPop, Shape
    <2>3. /\ cur' \in [Threads -> Tasks \cup {NoTask}]
          /\ \A w \in Workers : cur'[w] = cur[w]
      BY Zenon, <1>0, <1>13, <2>2 DEF MainPop, Shape, Threads
    <2> QED
      BY Zenon, <1>0, <1>1, <1>13, <2>1, <2>2, <2>3 DEF MainPop, Shape
  <1>14. ASSUME MainFinish PROVE IInv'
    <2>1. QuietLabels
      BY Zenon, <1>0, <1>14, MainIsQuiet DEF MainFinish, Labels, Carrying
    <2>2. /\ cur' \in [Threads -> Tasks \cup {NoTask}]
          /\ \A w \in Workers : cur'[w] = cur[w]
      BY Zenon, <1>0, <1>14 DEF MainFinish, Shape, Threads
    <2> QED
      BY Zenon, <1>0, <1>1, <1>14, <2>1, <2>2 DEF MainFinish, Shape
  <1>15. ASSUME MainIdleScan \/ MainUntilScan \/ MainLock PROVE IInv'
    <2>1. QuietLabels
      BY Zenon, <1>0, <1>15, MainIsQuiet
      DEF MainIdleScan, MainUntilScan, MainLock, Labels, Carrying
    <2> QED
      BY Zenon, <1>2, <1>15, <2>1 DEF MainIdleScan, MainUntilScan, MainLock
  <1>16. ASSUME MainCheck PROVE IInv'
    <2>1. PICK label \in {"top", "returned", "sleepy"} : Goto(Main, label)
      BY Zenon, <1>16 DEF MainCheck
    <2>2. QuietLabels
      BY ZenonT(60), <1>0, <1>16, <2>1, MainIsQuiet DEF MainCheck, Labels, Carrying
    <2> QED
      BY Zenon, <1>2, <1>16, <2>2 DEF MainCheck
  <1>17. ASSUME MainSleep \/ MainTimeout \/ MainReturn \/ ReturnToCaller
         PROVE  IInv'
    <2>1. QuietLabels
      BY Zenon, <1>0, <1>17, MainIsQuiet
      DEF MainSleep, MainTimeout, MainReturn, ReturnToCaller, Labels, Carrying
    <2> QED
      BY Zenon, <1>2, <1>17, <2>1 DEF MainSleep, MainTimeout, MainReturn, ReturnToCaller
  <1>18. CASE UNCHANGED vars
    BY Zenon, <1>0, <1>2, <1>18 DEF vars, Shape, QuietLabels
  <1> QED
    BY <1>7, <1>9, <1>10, <1>11, <1>12, <1>13, <1>14, <1>15, <1>16, <1>17,
       <1>18 DEF Next, MainLoop

\* Nothing is dispatched at first.
LEMMA InitIInv == Init => IInv
  <1> SUFFICES ASSUME Init PROVE IInv
    BY Zenon
  <1>1. Shape
    BY DispatcherAssumption DEF Init, Shape, Labels
  <1>2. \A p \in Priorities : background[p] = << >> /\ Elems(background[p]) = {}
    BY DEF Init, Elems
  <1>3. InHand
    BY Zenon, DispatcherAssumption DEF Init, InHand, Busy, Carrying, Threads
  <1>4. OneCopy
    BY <1>2, DispatcherAssumption DEF Init, OneCopy, NoRepeats
  <1>5. Queued = {} /\ Running = {} /\ Counted = {}
    BY Zenon, <1>2 DEF Init, Queued, Running, Counted, Threads
  <1>6. InflightExact
    <2>1. inflight = Cardinality(Queued) + Cardinality(Running) + Cardinality(Counted)
      BY <1>5, FS_EmptySet DEF Init
    <2> QED
      BY Zenon, <2>1 DEF InflightExact, Running, Counted
  <1> QED
    BY Zenon, <1>1, <1>3, <1>4, <1>6 DEF IInv

\* However many workers, outside threads, tasks and timers there are, the count
\* that run_until_idle trusts is the number of runnables on their way through
\* the workers, and it never underflows.
THEOREM CountIsExact == Spec => [](InflightExact /\ inflight \in Nat)
  <1>1. IInv => InflightExact /\ inflight \in Nat
    BY CountedSets DEF IInv, InflightExact, Running, Counted
  <1> QED
    BY <1>1, InitIInv, NextIInv, PTL DEF Spec

----------------------------------------------------------------------------
\* The timer thread runs its own loop, and what it carries is a timer.
TimerShape ==
  /\ pc[Timer] \in {"scan", "popped", "counted", "pushed"}
  /\ job[Timer] \in Timers \cup {NoTask}

\* run_until_idle has returned and nobody has dispatched a timer.
IdleReturned ==
  pc[Main] = "returned" /\ mode = "run_until_idle" /\ Timers \subseteq fresh

\* The strengthening of IdleMeansQuiet: no thread has a task in hand either.
AllQuiet ==
  IdleReturned =>
    /\ Queued = {} /\ main = << >>
    /\ \A w \in Workers : cur[w] = NoTask
    /\ \A t \in Threads : pc[t] # "counted"

\* The timer thread leaves its loop in no step.
LEMMA NextTimerShape == Shape /\ TimerShape /\ [Next]_vars => TimerShape'
  <1> SUFFICES ASSUME Shape, TimerShape, [Next]_vars PROVE TimerShape'
    BY Zenon
  <1>0. Timer \in Threads /\ Timer \notin Workers /\ Timer # Main
    BY Zenon, DispatcherAssumption DEF Threads
  <1>1. ASSUME pc'[Timer] = pc[Timer], job'[Timer] = job[Timer] PROVE TimerShape'
    BY Zenon, <1>1 DEF TimerShape
  <1>2. ASSUME NEW t \in Threads, NEW k \in Tasks,
               DispatchCount(t, k) \/ DispatchOnMain(t, k) \/ DispatchAfter(t, k)
        PROVE  TimerShape'
    <2>1. t # Timer
      BY Zenon, <1>2 DEF TimerShape, DispatchCount, DispatchOnMain, DispatchAfter
    <2> QED
      BY Zenon, <1>0, <1>1, <1>2, <2>1
      DEF DispatchCount, DispatchOnMain, DispatchAfter, Goto, Shape
  <1>3. ASSUME NEW t \in Threads, DispatchPush(t) PROVE TimerShape'
    <2>1. pc'[Timer] = pc[Timer] \/ pc'[Timer] = "pushed"
      BY Zenon, <1>0, <1>3 DEF DispatchPush, NotifyWorker, Goto, Shape
    <2>2. job'[Timer] = job[Timer] \/ job'[Timer] = NoTask
      BY Zenon, <1>0, <1>3 DEF DispatchPush, Shape
    <2> QED
      BY Zenon, <2>1, <2>2 DEF TimerShape
  <1>4. ASSUME NEW t \in Threads, DispatchNotify(t) PROVE TimerShape'
    <2>1. pc'[Timer] = pc[Timer] \/ pc'[Timer] = "scan"
      BY Zenon, <1>0, <1>4 DEF DispatchNotify, Wake, Shape
    <2> QED
      BY Zenon, <1>4, <2>1 DEF DispatchNotify, TimerShape
  <1>5. ASSUME NEW t \in Threads, CancelPendingTimers(t) PROVE TimerShape'
    BY Zenon, <1>1, <1>5 DEF CancelPendingTimers
  <1>6. ASSUME NEW w \in Workers, Worker(w) PROVE TimerShape'
    <2>1. pc'[Timer] = pc[Timer] /\ job' = job
      BY Zenon, <1>0, <1>6 DEF Worker, WorkerPop, WorkerWait, WorkerFinish,
                        WorkerDecrement, DecrementNotify, Wake, Goto, Shape
    <2> QED
      BY Zenon, <1>1, <2>1
  <1>7. ASSUME NEW k \in Timers, TimePasses(k) PROVE TimerShape'
    BY Zenon, <1>1, <1>7 DEF TimePasses
  <1>8. ASSUME TimerThread PROVE TimerShape'
    <2>1. ASSUME NEW k \in Timers, TimerPop(k) PROVE TimerShape'
      BY Zenon, <1>0, <2>1 DEF TimerPop, Goto, Shape, TimerShape
    <2>2. ASSUME TimerCount PROVE TimerShape'
      BY Zenon, <1>0, <2>2 DEF TimerCount, Goto, Shape, TimerShape
    <2> QED
      BY Zenon, <1>8, <2>1, <2>2 DEF TimerThread
  <1>9. ASSUME (\E m \in Modes : CallRun(m)) \/ MainLoop \/ ReturnToCaller
        PROVE  TimerShape'
    <2>1. job' = job /\ \E label : Goto(Main, label)
      BY Zenon, <1>9 DEF CallRun, MainLoop, MainPop, MainFinish, MainIdleScan,
                  MainUntilScan, MainLock, MainCheck, MainSleep, MainTimeout,
                  MainReturn, ReturnToCaller
    <2>2. pc'[Timer] = pc[Timer]
      BY Zenon, <1>0, <2>1 DEF Goto, Shape
    <2> QED
      BY Zenon, <1>1, <2>1, <2>2
  <1>10. CASE UNCHANGED vars
    BY Zenon, <1>1, <1>10 DEF vars
  <1> QED
    BY ZenonT(60), <1>2, <1>3, <1>4, <1>5, <1>6, <1>7, <1>8, <1>9, <1>10
    DEF Next, Dispatch

\* With an in-flight count of zero, no task is on its way.
LEMMA ZeroIsQuiet ==
  ASSUME IInv, inflight = 0
  PROVE  Queued = {} /\ Running = {} /\ Counted = {}
  <1>1. inflight = Cardinality(Queued) + Cardinality(Running) + Cardinality(Counted)
    BY Zenon DEF IInv, InflightExact, Running, Counted
  <1>2. /\ Cardinality(Queued) = 0 /\ Cardinality(Running) = 0
        /\ Cardinality(Counted) = 0
    BY <1>1, CountedSets DEF IInv
  <1> QED
    BY Zenon, <1>2, CountedSets, FS_EmptySet DEF IInv

\* Only the check under the mutex makes run_until_idle return.
LEMMA OnlyCheckReturns ==
  ASSUME Shape, [Next]_vars, ~ IdleReturned, IdleReturned'
  PROVE  /\ MainCheck /\ ~ MoreToDo /\ inflight = 0
  <1>0. Main \in Threads /\ Main \notin Workers /\ Main # Timer
    BY Zenon, DispatcherAssumption DEF Threads
  <1>1. ASSUME fresh' \subseteq fresh, mode' = mode, pc'[Main] = pc[Main]
        PROVE  FALSE
    BY Zenon, <1>1 DEF IdleReturned
  <1>2. ASSUME NEW t \in Threads, Dispatch(t) PROVE FALSE
    <2>1. fresh' \subseteq fresh /\ mode' = mode
      BY Zenon, <1>2 DEF Dispatch, DispatchCount, DispatchOnMain, DispatchAfter,
                  DispatchPush, DispatchNotify, CancelPendingTimers
    <2>2. CASE \E k \in Tasks :
                 DispatchCount(t, k) \/ DispatchOnMain(t, k) \/ DispatchAfter(t, k)
      BY Zenon, <1>0, <1>1, <2>1, <2>2
      DEF DispatchCount, DispatchOnMain, DispatchAfter, Goto, Shape, IdleReturned
    <2>3. CASE DispatchPush(t)
      <3>1. pc'[Main] \in {pc[Main], "pushed", "pop"}
        BY Zenon, <1>0, <2>3 DEF DispatchPush, NotifyWorker, Goto, Shape
      <3> QED
        BY Zenon, <1>1, <2>1, <3>1 DEF IdleReturned
    <2>4. CASE DispatchNotify(t)
      <3>1. pc'[Main] \in {pc[Main], "run", "top"}
        BY Zenon, <1>0, <2>4 DEF DispatchNotify, Wake, Shape
      <3> QED
        BY Zenon, <1>1, <2>1, <3>1 DEF IdleReturned
    <2>5. CASE CancelPendingTimers(t)
      BY Zenon, <1>1, <2>1, <2>5 DEF CancelPendingTimers
    <2> QED
      BY Zenon, <1>2, <2>2, <2>3, <2>4, <2>5 DEF Dispatch
  <1>3. ASSUME NEW w \in Workers, Worker(w) PROVE FALSE
    <2>1. fresh' = fresh /\ mode' = mode /\ pc'[Main] \in {pc[Main], "top"}
      BY Zenon, <1>0, <1>3 DEF Worker, WorkerPop, WorkerWait, WorkerFinish,
                        WorkerDecrement, DecrementNotify, Wake, Goto, Shape
    <2> QED
      BY Zenon, <1>1, <2>1 DEF IdleReturned
  <1>4. ASSUME (\E k \in Timers : TimePasses(k)) \/ TimerThread PROVE FALSE
    <2>1. fresh' = fresh /\ mode' = mode /\ pc'[Main] = pc[Main]
      BY Zenon, <1>0, <1>4 DEF TimePasses, TimerThread, TimerPop, TimerCount, Goto, Shape
    <2> QED
      BY Zenon, <1>1, <2>1
  <1>5. ASSUME (\E m \in Modes : CallRun(m)) \/ MainPop \/ MainFinish
               \/ MainIdleScan \/ MainUntilScan \/ MainLock \/ MainSleep
               \/ MainTimeout \/ ReturnToCaller
        PROVE  FALSE
    <2>1. pc'[Main] \in {"top", "run", "nap", "lock", "locked", "wait"}
      BY Zenon, <1>0, <1>5
      DEF CallRun, MainPop, MainFinish, MainIdleScan, MainUntilScan, MainLock,
          MainSleep, MainTimeout, ReturnToCaller, Goto, Shape
    <2> QED
      BY Zenon, <2>1 DEF IdleReturned
  <1>6. ASSUME MainReturn PROVE FALSE
    BY Zenon, <1>6 DEF MainReturn, IdleReturned
  <1>7. ASSUME UNCHANGED vars PROVE FALSE
    BY Zenon, <1>1, <1>7 DEF vars
  <1>8. MainCheck
    BY Zenon, <1>2, <1>3, <1>4, <1>5, <1>6, <1>7 DEF Next, MainLoop
  <1>9. ~ MoreToDo /\ inflight = 0
    <2>1. pc'[Main] = CASE MoreToDo -> "top"
                        [] ~ MoreToDo /\ mode = "run_until_idle" /\ inflight = 0
                             -> "returned"
                        [] OTHER -> "sleepy"
      BY Zenon, <1>0, <1>8 DEF MainCheck, Goto, Shape
    <2> QED
      BY Zenon, <2>1 DEF IdleReturned
  <1> QED
    BY Zenon, <1>8, <1>9

\* While run_until_idle has returned, nobody can start anything.
LEMMA QuietStays ==
  ASSUME IInv, TimerShape, AllQuiet, External = {}, [Next]_vars,
         IdleReturned, IdleReturned'
  PROVE  /\ UNCHANGED << background, main, cur >>
         /\ \A t \in Threads : pc'[t] # "counted"
  <1>0. /\ Shape /\ Main \in Threads /\ Main # Timer /\ Timer \in Threads
        /\ Threads = Workers \cup {Main, Timer} /\ pc[Main] = "returned"
        /\ pc'[Main] = "returned"
    BY Zenon, DispatcherAssumption DEF IInv, Threads, IdleReturned
  <1>1. /\ Queued = {} /\ \A w \in Workers : pc[w] \notin Busy
        /\ \A t \in Threads : pc[t] # "counted"
    BY Zenon DEF IInv, InHand, AllQuiet
  <1>2. heap = {} /\ pc[Timer] # "popped"
    <2>1. heap = {}
      BY Zenon, <1>0 DEF IInv, Shape, OneCopy, IdleReturned
    <2>2. job[Timer] \notin fresh
      BY Zenon, <1>0 DEF IInv, OneCopy
    <2>3. job[Timer] = NoTask
      BY Zenon, <2>2 DEF TimerShape, IdleReturned
    <2> QED
      BY Zenon, <1>0, <2>1, <2>3 DEF IInv, InHand, Carrying
  <1>3. ASSUME NEW t \in Threads, Dispatch(t)
        PROVE  t = Timer /\ DispatchNotify(t)
    <2>1. pc[t] \notin {"run", "counted"} /\ (t # Timer => pc[t] # "pushed")
      BY Zenon, <1>0, <1>1 DEF Busy, TimerShape
    <2> QED
      BY Zenon, <1>3, <2>1 DEF Dispatch, DispatchCount, DispatchOnMain, DispatchAfter,
                        DispatchPush, DispatchNotify, CancelPendingTimers
  <1>4. ASSUME NEW t \in Threads, Dispatch(t)
        PROVE  /\ UNCHANGED << background, main, cur >>
               /\ \A u \in Threads : pc'[u] # "counted"
    <2>1. DispatchNotify(t)
      BY Zenon, <1>3, <1>4
    <2> QED
      BY Zenon, <1>0, <1>1, <2>1, NotifyIsQuiet DEF DispatchNotify, QuietLabels
  <1>5. ASSUME NEW w \in Workers, Worker(w)
        PROVE  /\ UNCHANGED << background, main, cur >>
               /\ \A u \in Threads : pc'[u] # "counted"
    <2>1. WorkerWait(w)
      BY Zenon, <1>1, <1>5 DEF Worker, WorkerPop, WorkerFinish, WorkerDecrement, Busy
    <2> QED
      BY Zenon, <1>0, <1>1, <2>1 DEF WorkerWait, Goto, Shape
  <1>6. ASSUME NEW k \in Timers, TimePasses(k) PROVE FALSE
    BY Zenon, <1>2, <1>6 DEF TimePasses
  <1>7. ~ TimerThread
    BY Zenon, <1>2 DEF TimerThread, TimerPop, TimerCount
  <1>8. ~ (\E m \in Modes : CallRun(m)) /\ ~ MainLoop
    BY Zenon, <1>0 DEF CallRun, MainLoop, MainPop, MainFinish, MainIdleScan,
                MainUntilScan, MainLock, MainCheck, MainSleep, MainTimeout,
                MainReturn
  <1>9. ~ ReturnToCaller
    BY Zenon, <1>0 DEF ReturnToCaller, Goto, Shape
  <1> QED
    BY Zenon, <1>1, <1>4, <1>5, <1>6, <1>7, <1>8, <1>9 DEF Next, vars

\* Every step keeps the quiet of an idle dispatcher.
LEMMA NextAllQuiet ==
  ASSUME IInv, TimerShape, AllQuiet, External = {}, [Next]_vars
  PROVE  AllQuiet'
  <1> SUFFICES ASSUME IdleReturned'
               PROVE  /\ Queued' = {} /\ main' = << >>
                      /\ \A w \in Workers : cur'[w] = NoTask
                      /\ \A t \in Threads : pc'[t] # "counted"
    BY Zenon DEF AllQuiet
  <1>1. CASE IdleReturned
    <2>1. /\ UNCHANGED << background, main, cur >>
          /\ \A t \in Threads : pc'[t] # "counted"
      BY Zenon, <1>1, QuietStays
    <2>2. Queued' = Queued
      BY Zenon, <2>1 DEF Queued
    <2> QED
      BY Zenon, <1>1, <2>1, <2>2 DEF AllQuiet
  <1>2. CASE ~ IdleReturned
    <2>1. MainCheck /\ ~ MoreToDo /\ inflight = 0
      BY Zenon, <1>2, OnlyCheckReturns DEF IInv
    <2>2. Queued = {} /\ Running = {} /\ Counted = {}
      BY Zenon, <2>1, ZeroIsQuiet
    <2>3. Queued' = Queued /\ cur' = cur /\ main' = << >>
      BY Zenon, <2>1 DEF MainCheck, MoreToDo, Queued
    <2>4. \A t \in Threads : pc'[t] # "counted"
      BY Zenon, <2>1, <2>2 DEF MainCheck, Goto, IInv, Shape, Counted
    <2> QED
      BY Zenon, <2>2, <2>3, <2>4 DEF Running
  <1> QED
    BY Zenon, <1>1, <1>2

\* With no thread dispatching from outside and no timer dispatched,
\* run_until_idle returns only when every queue is empty and every worker is
\* without a task, for any number of workers and tasks: the count under the
\* mutex is enough, although the queues are not looked at under it.
THEOREM IdleIsQuiet == ASSUME External = {} PROVE Spec => []IdleMeansQuiet
  <1> DEFINE Inv == IInv /\ TimerShape /\ AllQuiet
  <1>1. Init => Inv
    <2>1. Init => TimerShape /\ AllQuiet
      BY Zenon, DispatcherAssumption
      DEF Init, TimerShape, AllQuiet, IdleReturned, Threads
    <2> QED
      BY Zenon, <2>1, InitIInv
  <1>2. Inv /\ [Next]_vars => Inv'
    <2> SUFFICES ASSUME Inv, [Next]_vars PROVE Inv'
      BY Zenon
    <2>1. IInv' /\ TimerShape'
      BY Zenon, NextIInv, NextTimerShape DEF IInv
    <2>2. AllQuiet'
      BY Zenon, NextAllQuiet
    <2> QED
      BY Zenon, <2>1, <2>2
  <1>3. Inv => IdleMeansQuiet
    BY Zenon DEF AllQuiet, IdleReturned, IdleMeansQuiet
  <1> QED
    BY <1>1, <1>2, <1>3, PTL DEF Spec

----------------------------------------------------------------------------
\* The strengthening of BatchOnly: what run_ready_main_tasks still has turns
\* for was queued before it began, and the caller's own code runs outside of
\* any call.
Batch ==
  /\ quota \in Nat /\ quota <= Len(main)
  /\ \A i \in 1 .. quota : main[i] \notin late
  /\ Elems(main) \cap fresh = {}
  /\ mode # "run_ready" => late = {} /\ quota = 0
  /\ pc[Main] \in {"run", "counted", "pushed"} /\ cur[Main] = NoTask
       => mode = "none"

\* Every step keeps the batch of run_ready_main_tasks apart from what is queued
\* behind it.
LEMMA NextBatch == ASSUME Shape, Batch, [Next]_vars PROVE Batch'
  <1>0. Main \in Threads /\ Main \notin Workers /\ Main # Timer
    BY Zenon, DispatcherAssumption DEF Threads
  <1>1. ASSUME UNCHANGED << main, mode, quota, late >>, fresh' \subseteq fresh,
               pc'[Main] \in {"run", "counted", "pushed"} =>
                 pc[Main] \in {"run", "counted", "pushed"}
                 /\ cur'[Main] = cur[Main]
        PROVE  Batch'
    BY Zenon, <1>1 DEF Batch, Elems
  <1>2. ASSUME NEW t \in Threads, NEW k \in Tasks,
               DispatchCount(t, k) \/ DispatchAfter(t, k)
        PROVE  Batch'
    <2>1. pc'[Main] = pc[Main] \/ (t = Main /\ pc[Main] = "run")
      BY Zenon, <1>0, <1>2 DEF DispatchCount, DispatchAfter, Goto, Shape
    <2> QED
      BY Zenon, <1>1, <1>2, <2>1 DEF DispatchCount, DispatchAfter
  <1>3. ASSUME NEW t \in Threads, NEW k \in Tasks, DispatchOnMain(t, k)
        PROVE  Batch'
    <2>1. /\ main' = Append(main, k) /\ Len(main) \in Nat
          /\ Len(main') = Len(main) + 1
          /\ \A i \in 1 .. Len(main) : main'[i] = main[i]
      BY <1>3 DEF DispatchOnMain, Shape
    <2>2. Elems(main') = Elems(main) \cup {k}
      BY <2>1, AppendElems DEF Shape
    <2>3. k \in fresh /\ fresh' = fresh \ {k} /\ late' \subseteq late \cup {k}
      BY Zenon, <1>3 DEF DispatchOnMain
    <2>4. \A i \in 1 .. quota : main[i] \in Elems(main)
      BY <2>1 DEF Batch, Elems, Shape
    <2>5. \A i \in 1 .. quota : main'[i] \notin late'
      BY <2>1, <2>3, <2>4 DEF Batch
    <2>6. Elems(main') \cap fresh' = {}
      BY Zenon, <2>2, <2>3 DEF Batch
    <2>7. /\ quota' = quota /\ mode' = mode /\ cur' = cur
          /\ mode # "run_ready" => late' = late
          /\ pc'[Main] = pc[Main] \/ (t = Main /\ pc[Main] = "run")
      BY Zenon, <1>0, <1>3 DEF DispatchOnMain, Goto, Shape
    <2> QED
      BY <2>1, <2>5, <2>6, <2>7 DEF Batch
  <1>4. ASSUME NEW t \in Threads,
               DispatchPush(t) \/ DispatchNotify(t) \/ CancelPendingTimers(t)
        PROVE  Batch'
    <2>1. CASE DispatchPush(t)
      <3>1. pc'[Main] = pc[Main] \/ pc[Main] = "counted"
        BY Zenon, <1>0, <2>1 DEF DispatchPush, NotifyWorker, Goto, Shape
      <3> QED
        BY Zenon, <1>1, <2>1, <3>1 DEF DispatchPush
    <2>2. CASE DispatchNotify(t)
      <3>1. pc'[Main] \in {pc[Main], "top"} \/ pc[Main] = "pushed"
        BY Zenon, <1>0, <2>2 DEF DispatchNotify, Wake, Shape
      <3> QED
        BY Zenon, <1>1, <2>2, <3>1 DEF DispatchNotify
    <2>3. CASE CancelPendingTimers(t)
      BY Zenon, <1>1, <2>3 DEF CancelPendingTimers
    <2> QED
      BY Zenon, <1>4, <2>1, <2>2, <2>3
  <1>5. ASSUME NEW w \in Workers, Worker(w) PROVE Batch'
    <2>1. /\ UNCHANGED << main, mode, quota, late, fresh >>
          /\ pc'[Main] \in {pc[Main], "top"} /\ cur'[Main] = cur[Main]
      BY Zenon, <1>0, <1>5 DEF Worker, WorkerPop, WorkerWait, WorkerFinish,
                        WorkerDecrement, DecrementNotify, Wake, Goto, Shape
    <2> QED
      BY Zenon, <1>1, <2>1
  <1>6. ASSUME (\E k \in Timers : TimePasses(k)) \/ TimerThread PROVE Batch'
    <2>1. UNCHANGED << main, mode, quota, late, fresh, cur >> /\ pc'[Main] = pc[Main]
      BY Zenon, <1>0, <1>6 DEF TimePasses, TimerThread, TimerPop, TimerCount, Goto, Shape
    <2> QED
      BY Zenon, <1>1, <2>1
  <1>7. ASSUME NEW m \in Modes, CallRun(m) PROVE Batch'
    <2>1. mode = "none" /\ late = {} /\ quota = 0
      BY Zenon, <1>7 DEF CallRun, Batch
    <2>2. /\ UNCHANGED << main, late, fresh >> /\ mode' = m
          /\ quota' = (IF m = "run_ready" THEN Len(main) ELSE 0)
          /\ pc'[Main] = "top"
      BY Zenon, <1>0, <1>7 DEF CallRun, Quota, Goto, Shape
    <2>3. Len(main) \in Nat
      BY DEF Shape
    <2> QED
      BY <2>1, <2>2, <2>3 DEF Batch, Elems
  <1>8. ASSUME MainPop PROVE Batch'
    <2>1. /\ main' = Tail(main) /\ Len(main) \in Nat \ {0}
          /\ Len(main') = Len(main) - 1
          /\ \A i \in 1 .. Len(main) - 1 : main'[i] = main[i + 1]
          /\ DOMAIN main = 1 .. Len(main) /\ DOMAIN main' = 1 .. Len(main) - 1
          /\ Head(main) \in Tasks
      BY <1>8 DEF MainPop, Shape
    <2>2. Elems(main') \subseteq Elems(main)
      BY <2>1 DEF Elems
    <2>3. cur'[Main] # NoTask
      BY Zenon, <1>0, <1>8, <2>1, DispatcherAssumption DEF MainPop, Shape
    <2>4. mode = "run_ready" => quota > 0
      BY Zenon, <1>8 DEF MainPop, MayRunTask
    <2>5. quota' = (IF mode = "run_ready" THEN quota - 1 ELSE 0)
          /\ UNCHANGED << mode, late, fresh >>
      BY Zenon, <1>8 DEF MainPop
    <2>6. \A i \in 1 .. quota' : main'[i] \notin late'
      BY <2>1, <2>4, <2>5 DEF Batch
    <2> QED
      BY <2>1, <2>2, <2>3, <2>4, <2>5, <2>6 DEF Batch
  <1>9. ASSUME MainFinish \/ MainIdleScan \/ MainUntilScan \/ MainLock
               \/ MainCheck \/ MainSleep \/ MainTimeout \/ MainReturn
        PROVE  Batch'
    <2>1. /\ UNCHANGED << main, mode, quota, late, fresh >>
          /\ pc'[Main] \in {"top", "nap", "lock", "locked", "sleepy", "wait",
                            "returned"}
      BY ZenonT(60), <1>0, <1>9
      DEF MainFinish, MainIdleScan, MainUntilScan, MainLock, MainCheck,
          MainSleep, MainTimeout, MainReturn, Goto, Shape
    <2> QED
      BY Zenon, <1>1, <2>1
  <1>10. ASSUME ReturnToCaller PROVE Batch'
    <2>1. Len(main) \in Nat
      BY DEF Shape
    <2> QED
      BY <1>10, <2>1 DEF ReturnToCaller, Batch, Elems
  <1>11. CASE UNCHANGED vars
    BY Zenon, <1>1, <1>11 DEF vars
  <1> QED
    BY <1>2, <1>3, <1>4, <1>5, <1>6, <1>7, <1>8, <1>9, <1>10, <1>11
    DEF Next, Dispatch, MainLoop

\* run_ready_main_tasks runs nothing that was queued after it began, however
\* many tasks there are and whoever queues them.
THEOREM BatchesAreClosed == Spec => BatchOnly
  <1>1. Init => Batch
    BY DEF Init, Batch, Elems
  <1>2. Shape /\ Batch => (MainPop => Head(main) \notin late)
    <2> SUFFICES ASSUME Shape, Batch, MainPop PROVE Head(main) \notin late
      BY Zenon
    <2>1. Head(main) = main[1]
      BY DEF MainPop, Shape
    <2>2. mode = "run_ready" => quota > 0
      BY Zenon DEF MainPop, MayRunTask
    <2> QED
      BY <2>1, <2>2 DEF Batch
  <1>3. Shape /\ Batch /\ [Next]_vars => [MainPop => Head(main) \notin late]_vars
    BY Zenon, <1>2
  <1>4. IInv => Shape
    BY Zenon DEF IInv
  <1>5. Shape /\ Batch /\ [Next]_vars => Batch'
    BY Zenon, NextBatch
  <1> QED
    BY <1>1, <1>3, <1>4, <1>5, InitIInv, NextIInv, PTL DEF Spec, BatchOnly

(***************************************************************************)
(* The single-instance lock                                                *)
(***************************************************************************)

\* Where a process can be.
Stages == {"idle", "connect", "remove", "bind", "close", "held", "serving",
           "refused", "dropped"}

InstanceShape ==
  /\ stage \in [Processes -> Stages]
  /\ file \in Processes \cup {NoSocket}

\* Between its failed probe and its bind a process is alone: nobody else is
\* acquiring, and the probe saw no instance, which an instance would have
\* answered.
ProbeStillTrue ==
  /\ \A p, q \in Processes : Acquiring(p) /\ Acquiring(q) => p = q
  /\ \A p \in Processes :
       stage[p] \in {"remove", "bind"} => \A q \in Processes : ~ Holder(q)
  /\ \A p \in Processes : Holder(p) => file = p /\ p \in open

UnixInv == InstanceShape /\ ProbeStillTrue /\ AtMostOneInstance

\* A holder has its mutex handle open, so CreateMutexW of another process
\* finds the mutex.
MutexInv ==
  /\ stage \in [Processes -> Stages \ {"remove", "bind"}]
  /\ \A p \in Processes : Holder(p) => p \in open
  /\ AtMostOneInstance

\* On each platform its own invariant.
InstanceInv == platform \in Platforms /\ IF Windows THEN MutexInv ELSE UnixInv

\* Every system call of a start on Unix, and every end of a process, keeps it.
LEMMA UnixStep ==
  ASSUME ~ Windows, ~ Overlap, "connect" \notin Faults, UnixInv, [InstanceNext]_instanceVars
  PROVE  UnixInv'
  <1> USE SingleInstanceAssumption
      DEF UnixInv, InstanceShape, Stages, ProbeStillTrue, AtMostOneInstance,
          Acquiring, Holder, GoesTo
  <1>1. ASSUME NEW p \in Processes, Start(p) PROVE UnixInv'
    BY <1>1 DEF Start
  <1>2. ASSUME NEW p \in Processes, ConnectOk(p) PROVE UnixInv'
    BY <1>2 DEF ConnectOk
  <1>3. ASSUME NEW p \in Processes, ConnectFails(p) PROVE UnixInv'
    BY <1>3 DEF ConnectFails, ProbeFails, Answers
  <1>4. ASSUME NEW p \in Processes, RemoveFile(p) PROVE UnixInv'
    BY Zenon, <1>4 DEF RemoveFile, FileRemoved
  <1>5. ASSUME NEW p \in Processes, Bind(p) PROVE UnixInv'
    BY <1>5 DEF Bind, ListenerKept
  <1>6. ASSUME NEW p \in Processes, BindFails(p) \/ CloseHandle(p) PROVE UnixInv'
    BY ZenonT(60), <1>6 DEF BindFails, CloseHandle
  <1>7. ASSUME NEW p \in Processes, OnActivate(p) PROVE UnixInv'
    BY <1>7 DEF OnActivate
  <1>8. ASSUME NEW p \in Processes, Accept(p) \/ AcceptFails(p) PROVE UnixInv'
    BY Zenon, <1>8 DEF Accept, AcceptFails
  <1>9. ASSUME NEW p \in Processes, SendActivate(p) \/ Quit(p)
        PROVE  UnixInv'
    BY <1>9 DEF SendActivate, Quit
  <1>10. ASSUME NEW p \in Processes, DropInstance(p) PROVE UnixInv'
    BY Zenon, <1>10 DEF DropInstance
  <1>11. ASSUME NEW p \in Processes, Exit(p) \/ Crash(p) PROVE UnixInv'
    BY <1>11 DEF Exit, Crash, Ended
  <1>12. CASE UNCHANGED instanceVars
    BY Zenon, <1>12 DEF instanceVars
  <1> QED
    BY ZenonT(60), <1>1, <1>2, <1>3, <1>4, <1>5, <1>6, <1>7, <1>8, <1>9, <1>10, <1>11,
       <1>12 DEF InstanceNext, Acquire, CreateMutex, CreateMutexFails

\* CreateMutexW finds the mutex of the holder, whoever else is starting.
LEMMA WindowsStep ==
  ASSUME Windows, MutexInv, [InstanceNext]_instanceVars
  PROVE  MutexInv'
  <1> USE DEF MutexInv, Stages, AtMostOneInstance, Acquiring, Holder, GoesTo
  <1>1. ASSUME NEW p \in Processes, Start(p) PROVE MutexInv'
    BY Zenon, <1>1 DEF Start
  <1>2. ASSUME NEW p \in Processes, CreateMutex(p) PROVE MutexInv'
    BY Zenon, <1>2 DEF CreateMutex, MutexIsNew
  <1>3. ASSUME NEW p \in Processes, CreateMutexFails(p) \/ CloseHandle(p) PROVE MutexInv'
    BY Zenon, <1>3 DEF CreateMutexFails, CloseHandle
  <1>4. ASSUME NEW p \in Processes,
               Accept(p) \/ AcceptFails(p) \/ SendActivate(p) \/ Quit(p)
        PROVE  MutexInv'
    BY Zenon, <1>4 DEF Accept, AcceptFails, SendActivate, Quit
  <1>5. ASSUME NEW p \in Processes, DropInstance(p) PROVE MutexInv'
    BY Zenon, <1>5 DEF DropInstance
  <1>6. ASSUME NEW p \in Processes, Exit(p) \/ Crash(p) PROVE MutexInv'
    BY <1>6 DEF Exit, Crash, Ended
  <1>7. ASSUME NEW p \in Processes, RemoveFile(p) \/ Bind(p) \/ BindFails(p) PROVE FALSE
    BY Zenon, <1>7 DEF RemoveFile, Bind, BindFails
  <1>8. CASE UNCHANGED instanceVars
    BY Zenon, <1>8 DEF instanceVars
  <1> QED
    BY ZenonT(60), <1>1, <1>2, <1>3, <1>4, <1>5, <1>6, <1>7, <1>8
    DEF InstanceNext, Acquire, ConnectOk, ConnectFails, OnActivate

\* Each platform keeps its own invariant, and no process changes platform.
LEMMA NextInstance ==
  ASSUME ~ Overlap, "connect" \notin Faults, InstanceInv, [InstanceNext]_instanceVars
  PROVE  InstanceInv'
  <1>1. platform' = platform
    BY Zenon DEF InstanceNext, instanceVars, Start, Acquire, ConnectOk, ConnectFails, RemoveFile,
           Bind, BindFails, CreateMutex, CreateMutexFails, CloseHandle, OnActivate,
           Accept, AcceptFails, SendActivate, Quit, DropInstance, Exit, Crash, Ended
  <1> QED
    BY Zenon, <1>1, UnixStep, WindowsStep DEF InstanceInv, Windows

\* At first nobody holds the lock and nobody is acquiring it.
LEMMA InitInstance == InstanceInit => InstanceInv
  BY Zenon DEF InstanceInit, InstanceInv, UnixInv, MutexInv, InstanceShape, Stages, ProbeStillTrue,
         AtMostOneInstance, Acquiring, Holder

\* At most one instance holds the lock, although processes crash anywhere and
\* leave their socket behind, and system calls fail.  With the mutex of
\* Windows, however starts overlap; with the socket of Unix, one start after the
\* other, and if connecting to a running instance does not fail.
THEOREM MutualExclusion ==
  ASSUME ~ Overlap, "connect" \notin Faults
  PROVE  InstanceSpec => []AtMostOneInstance
  <1>1. InstanceInv => AtMostOneInstance
    BY ZenonT(60) DEF InstanceInv, UnixInv, MutexInv
  <1> QED
    BY <1>1, InitInstance, NextInstance, PTL DEF InstanceSpec

\* Under the same assumptions, on Unix the path names the listener of the
\* instance: no start that fails or crashes halfway takes the path away from it.
THEOREM InstanceIsReachable ==
  ASSUME ~ Overlap, "connect" \notin Faults
  PROVE  InstanceSpec => []HolderIsReachable
  <1>1. InstanceInv => HolderIsReachable
    BY ZenonT(60) DEF InstanceInv, UnixInv, ProbeStillTrue, HolderIsReachable
  <1> QED
    BY <1>1, InitInstance, NextInstance, PTL DEF InstanceSpec

----------------------------------------------------------------------------
\* Who has a listener or a mutex handle open: those who acquired it and have
\* not exited, and on Windows those who are about to close it again.  A process
\* that is about to bind has removed the path, or the call to remove it failed.
OpenIsRunning ==
  /\ stage \in [Processes -> Stages]
  /\ \A p \in Processes :
       p \in open <=> stage[p] \in {"held", "serving", "dropped", "close"}
  /\ \A p \in Processes : stage[p] = "bind" => file = NoSocket \/ p \in failed

\* Every step keeps it; that two processes do not start at once matters for
\* the path only.
LEMMA NextOpenIsRunning ==
  ASSUME InstanceInv, OpenIsRunning, [InstanceNext]_instanceVars PROVE OpenIsRunning'
  <1> USE SingleInstanceAssumption DEF OpenIsRunning, Stages, GoesTo, Fails
  <1>1. ASSUME NEW p \in Processes, NEW q \in Processes,
               stage[p] = "bind", stage[q] = "bind"
        PROVE  p = q
    BY Zenon, <1>1 DEF InstanceInv, UnixInv, MutexInv, ProbeStillTrue, Acquiring
  <1>2. ASSUME NEW p \in Processes, Start(p) PROVE OpenIsRunning'
    BY Zenon, <1>2 DEF Start
  <1>3. ASSUME NEW p \in Processes, ConnectOk(p) \/ ConnectFails(p)
        PROVE  OpenIsRunning'
    BY Zenon, <1>3 DEF ConnectOk, ConnectFails
  <1>4. ASSUME NEW p \in Processes, RemoveFile(p) PROVE OpenIsRunning'
    BY Zenon, <1>4 DEF RemoveFile, FileRemoved
  <1>5. ASSUME NEW p \in Processes, Bind(p) PROVE OpenIsRunning'
    BY Zenon, <1>1, <1>5 DEF Bind, ListenerKept
  <1>6. ASSUME NEW p \in Processes, CreateMutex(p) PROVE OpenIsRunning'
    BY Zenon, <1>6 DEF CreateMutex
  <1>7. ASSUME NEW p \in Processes, BindFails(p) \/ CreateMutexFails(p) \/ CloseHandle(p)
        PROVE  OpenIsRunning'
    BY Zenon, <1>7 DEF BindFails, CreateMutexFails, CloseHandle
  <1>8. ASSUME NEW p \in Processes, OnActivate(p) \/ Accept(p) \/ AcceptFails(p)
        PROVE  OpenIsRunning'
    BY Zenon, <1>8 DEF OnActivate, Accept, AcceptFails
  <1>9. ASSUME NEW p \in Processes, SendActivate(p) \/ Quit(p)
        PROVE  OpenIsRunning'
    BY Zenon, <1>9 DEF SendActivate, Quit
  <1>10. ASSUME NEW p \in Processes, DropInstance(p) PROVE OpenIsRunning'
    BY Zenon, <1>10 DEF DropInstance, Holder
  <1>11. ASSUME NEW p \in Processes, Exit(p) \/ Crash(p) PROVE OpenIsRunning'
    BY Zenon, <1>11 DEF Exit, Crash, Ended
  <1>12. CASE UNCHANGED instanceVars
    BY Zenon, <1>12 DEF instanceVars
  <1> QED
    BY ZenonT(60), <1>2, <1>3, <1>4, <1>5, <1>6, <1>7, <1>8, <1>9, <1>10, <1>11, <1>12
    DEF InstanceNext, Acquire

\* The decision on AlreadyRunning: a probe that was answered, a mutex that
\* existed, or a call that failed; that the path exists is not enough for bind
\* to fail, since it was just removed.
LEMMA RefusalStep ==
  ASSUME OpenIsRunning, InstanceNext, NEW p \in Processes, Refuses(p)
  PROVE  open \ {p} # {} \/ p \in failed'
  <1> USE DEF OpenIsRunning, GoesTo, Refuses
  <1>1. PICK q \in Processes :
          \/ Start(q) \/ Acquire(q) \/ OnActivate(q) \/ Accept(q) \/ AcceptFails(q)
          \/ SendActivate(q) \/ Quit(q) \/ DropInstance(q) \/ Exit(q) \/ Crash(q)
    BY Zenon DEF InstanceNext
  <1>2. CASE ConnectOk(q)
    BY Zenon, <1>2 DEF ConnectOk, Answers
  <1>3. CASE CreateMutex(q)
    BY Zenon, <1>3 DEF CreateMutex, MutexIsNew
  <1>4. CASE ConnectFails(q) \/ RemoveFile(q) \/ Bind(q) \/ CloseHandle(q)
    BY Zenon, <1>4 DEF ConnectFails, RemoveFile, Bind, CloseHandle
  <1>5. CASE BindFails(q) \/ CreateMutexFails(q)
    BY Zenon, <1>5 DEF BindFails, CreateMutexFails, Fails
  <1>6. CASE Start(q) \/ OnActivate(q) \/ Accept(q) \/ AcceptFails(q) \/ SendActivate(q)
             \/ Quit(q) \/ DropInstance(q) \/ Exit(q) \/ Crash(q)
    BY Zenon, <1>6 DEF Start, OnActivate, Accept, AcceptFails, SendActivate, Quit,
                DropInstance, Exit, Crash, Ended
  <1> QED
    BY Zenon, <1>1, <1>2, <1>3, <1>4, <1>5, <1>6 DEF Acquire

\* Under the same assumptions, for any number of processes, crashes and failed
\* calls, acquire answers AlreadyRunning only while another process has the
\* listener or the mutex open, or when one of its own calls failed: no socket
\* that was left behind locks out the next start.
THEOREM NobodyIsLockedOut ==
  ASSUME ~ Overlap, "connect" \notin Faults
  PROVE  InstanceSpec => NotLockedOut
  <1>1. InstanceInit => OpenIsRunning
    BY Zenon DEF InstanceInit, OpenIsRunning, Stages
  <1>2. OpenIsRunning /\ [InstanceNext]_instanceVars =>
          [\A p \in Processes : Refuses(p) => open \ {p} # {} \/ p \in failed']_instanceVars
    BY Zenon, RefusalStep
  <1>3. InstanceInv /\ OpenIsRunning /\ [InstanceNext]_instanceVars => OpenIsRunning'
    BY Zenon, NextOpenIsRunning
  <1> QED
    BY <1>1, <1>2, <1>3, InitInstance, NextInstance, PTL DEF InstanceSpec, NotLockedOut
============================================================================
