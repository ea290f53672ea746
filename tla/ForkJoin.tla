------------------------------- MODULE ForkJoin -------------------------------
(***************************************************************************)
(* What the programs that start workers and then wait for them promise:    *)
(* the parent goes on only when every worker it was asked to start has     *)
(* been started and has finished.  A parent that cannot start a worker, or *)
(* that hits an error, gives up instead and promises nothing.              *)
(*                                                                         *)
(* condition.cpp, mutex.cpp, pthread_cancel.cpp and simple_thread.cpp      *)
(* (threads), sigchld.cpp, pipe_sync.cpp, pipe_filter.cpp and wait.cpp     *)
(* (processes) are each shown to implement it.                             *)
(***************************************************************************)
CONSTANT Workers    \* the threads or processes the command line asks for

VARIABLES worker,   \* worker[w]: "idle", "active" or "finished"
          parent    \* "waiting", "through" or "gaveup"

vars == <<worker, parent>>

TypeOK == /\ worker \in [Workers -> {"idle", "active", "finished"}]
          /\ parent \in {"waiting", "through", "gaveup"}

Init == /\ worker = [w \in Workers |-> "idle"]
        /\ parent = "waiting"

Start(w) == /\ parent = "waiting"
            /\ worker[w] = "idle"
            /\ worker' = [worker EXCEPT ![w] = "active"]
            /\ UNCHANGED parent

\* A worker's own step: it may come before or after the parent has left.
Finish(w) == /\ worker[w] = "active"
             /\ worker' = [worker EXCEPT ![w] = "finished"]
             /\ UNCHANGED parent

GoOn == /\ parent = "waiting"
        /\ \A w \in Workers : worker[w] = "finished"
        /\ parent' = "through"
        /\ UNCHANGED worker

GiveUp == /\ parent = "waiting"
          /\ parent' = "gaveup"
          /\ UNCHANGED worker

Next == \/ \E w \in Workers : Start(w) \/ Finish(w)
        \/ GoOn
        \/ GiveUp

Spec == Init /\ [][Next]_vars
===============================================================================
