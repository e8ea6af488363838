-------------------------------- MODULE JobPool --------------------------------
(***************************************************************************)
(* What the user is promised of the tasks as a whole: they are taken in    *)
(* the order of the file, at most Capacity of them run at a time, a task   *)
(* that ends makes room for the next one at once, and after the user's     *)
(* break none is taken.  Jobs implements it with the job list, the         *)
(* factory and the notifications of the downloaders.                       *)
(***************************************************************************)
EXTENDS Naturals, FiniteSets

CONSTANTS NTasks, Capacity

VARIABLES status,  \* of each task
          open     \* tasks are still taken

Tasks == 1 .. NTasks

In(st, s) == { t \in Tasks : st[t] = s }

Init == status = [t \in Tasks |-> "waiting"] /\ open = TRUE

\* some tasks are taken in order, all but the last one in vain, since they cannot
\* start; at most one that runs ends, and if it does and a task is left, one starts
Work(st) ==
  LET taken   == In(status, "waiting") \ In(st, "waiting")
      started == In(st, "running") \ In(status, "running")
      ended   == In(status, "running") \ In(st, "running")
  IN  /\ taken # {} => open
      /\ started \subseteq taken
      /\ \A t \in taken : /\ \A u \in In(st, "waiting") : t < u
                          /\ \A u \in started : t <= u
                          /\ t \in started \/ st[t] = "failed"
      /\ Cardinality(ended) <= 1
      /\ open /\ ended # {} => started # {} \/ In(st, "waiting") = {}
      /\ \A t \in Tasks : status[t] \in {"done", "failed"} => st[t] = status[t]
      /\ Cardinality(In(st, "running")) <= Capacity

Advance == /\ status' \in [Tasks -> {"waiting", "running", "done", "failed"}]
           /\ Work(status')
           /\ UNCHANGED open

Interrupt == open /\ open' = FALSE /\ UNCHANGED status

Next == Advance \/ Interrupt
Spec == Init /\ [][Next]_<<status, open>>
===============================================================================
