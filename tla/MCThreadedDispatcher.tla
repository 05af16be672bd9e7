------------------------ MODULE MCThreadedDispatcher -----------------------
(***************************************************************************)
(* Small instances of ThreadedDispatcher.                                  *)
(***************************************************************************)
EXTENDS ThreadedDispatcher, TLC

CONSTANTS w1, w2, x1, t1, t2, t3, main_thread, timer_thread, none

OneWorker == {w1}
TwoWorkers == {w1, w2}
NoThreads == {}
OneThread == {x1}
TwoTasks == {t1, t2}
ThreeTasks == {t1, t2, t3}
NoTasks == {}
FirstTask == {t1}
LastTask == {t3}
EveryMode == {"run_until_idle", "run_until", "run_ready"}
UntilOnly == {"run_until"}
TwoPriorities == t1 :> "High" @@ t2 :> "Low"
ThreePriorities == t1 :> "High" @@ t2 :> "Medium" @@ t3 :> "Low"
=============================================================================
