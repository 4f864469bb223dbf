------------------------------ MODULE MCDaemon ------------------------------
(* Model-checking instances of the scheduler: tasks are model values. *)
EXTENDS Daemon, TLC

TaskSymmetry == Permutations(Task)

\* A daemon whose Shutdown has failed, or whose round was cut short and left
\* the trigger lock taken, is not followed.
Stopping == serving \/ bus \in {"new", "stopped"} \/ \E t \in Task : kind[t] = "Shutdown" /\ Live(t)
Working == triggerActive => Round
=============================================================================
