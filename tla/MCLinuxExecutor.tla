---------------------------- MODULE MCLinuxExecutor ------------------------
(* Instances of LinuxExecutor: one task of the main thread, two background *)
(* tasks, one of which may hang or be a timer, and one worker or two.      *)
EXTENDS LinuxExecutor

CONSTANTS m1, b1, k1, w1, w2

MCTasks == {m1, b1, k1}
MCHomes == {[t \in MCTasks |-> IF t = m1 THEN "main" ELSE IF t = k1 THEN x ELSE "bg"] :
              x \in {"bg", "timer"}}
MCRoots == {m1, b1}
MCEndless == {k1}
AllHomes == {"main", "bg"}
MCWorkers == {w1, w2}
MCPools == {{w1}, {w1, w2}}

============================================================================
