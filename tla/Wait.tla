--------------------------------- MODULE Wait ---------------------------------
(***************************************************************************)
(* process_template/wait/wait.cpp: fork one child per sleep time of the    *)
(* command line, then call wait until it says that there are no children.  *)
(* A wrong command line is only commented on: the loop starts all the same.*)
(***************************************************************************)
EXTENDS Naturals

CONSTANTS N,        \* argc - 1
          Failing   \* the system calls that may return -1 (wait: not for ECHILD)

Children == 1 .. N

VARIABLES mpc,       \* where main is, by its next system call
          child,     \* child[c]: "none", "running", "zombie" or "gone"
          i,         \* main's loop variable
          num_dead,
          ignored    \* SIGCHLD is ignored, which an exec inherits: no zombies are kept

vars == <<mpc, child, i, num_dead, ignored>>

Init == /\ mpc = "fork"
        /\ child = [c \in Children |-> "none"]
        /\ i = 1
        /\ num_dead = 0
        /\ ignored \in BOOLEAN

With(s) == {c \in Children : child[c] = s}
-------------------------------------------------------------------------------
Fork == /\ mpc = "fork"
        /\ i <= N
        /\ child' = [child EXCEPT ![i] = "running"]
        /\ i' = i + 1
        /\ UNCHANGED <<mpc, num_dead, ignored>>

Forked == /\ mpc = "fork"
          /\ i > N
          /\ mpc' = "wait"
          /\ UNCHANGED <<child, i, num_dead, ignored>>

\* wait returns any of the children that have ended.
Reap(c) == /\ mpc = "wait"
           /\ child[c] = "zombie"
           /\ child' = [child EXCEPT ![c] = "gone"]
           /\ num_dead' = num_dead + 1
           /\ UNCHANGED <<mpc, i, ignored>>

\* Mutant: one wait per run of the program is thought to be enough.
WaitOnce == /\ mpc = "wait"
            /\ num_dead > 0
            /\ mpc' = "exited"
            /\ UNCHANGED <<child, i, num_dead, ignored>>

\* ECHILD: no child is left, in whatever state.
NoMoreChildren == /\ mpc = "wait"
                  /\ With("running") \cup With("zombie") = {}
                  /\ mpc' = "exited"
                  /\ UNCHANGED <<child, i, num_dead, ignored>>

Error == /\ mpc \in Failing
         /\ mpc = "fork" => i <= N
         /\ mpc' = "failed"
         /\ UNCHANGED <<child, i, num_dead, ignored>>

MainStep == Fork \/ Forked \/ (\E c \in Children : Reap(c)) \/ NoMoreChildren

\* _exit(0) after its sleep, or killed.
End(c) == /\ child[c] = "running"
          /\ child' = [child EXCEPT ![c] = IF ignored THEN "gone" ELSE "zombie"]
          /\ UNCHANGED <<mpc, i, num_dead, ignored>>

Ended == mpc \in {"exited", "failed"} /\ UNCHANGED vars

Next == MainStep \/ Error \/ (\E c \in Children : End(c)) \/ Ended

Spec == Init /\ [][Next]_vars
-------------------------------------------------------------------------------
(* TypeOK: the ranges of the variables.                                    *)
TypeOK == /\ mpc \in {"fork", "wait", "exited", "failed"}
          /\ child \in [Children -> {"none", "running", "zombie", "gone"}]
          /\ i \in 1 .. N + 1
          /\ num_dead \in 0 .. N
          /\ ignored \in BOOLEAN

(* Implements: main says that there are no more children only when all of  *)
(* the command line have been forked and have ended, in whatever order, and*)
(* also when the kernel has been told to forget the dead ones at once.     *)
Abstract == INSTANCE ForkJoin WITH
  Workers <- Children,
  worker <- [c \in Children |-> IF child[c] = "none" THEN "idle"
                                ELSE IF child[c] = "running" THEN "active" ELSE "finished"],
  parent <- IF mpc = "exited" THEN "through"
            ELSE IF mpc = "failed" THEN "gaveup" ELSE "waiting"
Implements == Abstract!Spec

(* WaitLeadsToExit: once its children have been forked main ends: it finds *)
(* out that none of them is left whether or not the kernel kept the dead.  *)
WaitLeadsToExit == mpc = "wait" ~> mpc \in {"exited", "failed"}

(* CountsDead: the last number main printed is the number of its children, *)
(* unless the kernel does not keep them for it: then it has printed none.  *)
CountsDead == mpc = "exited" => num_dead = IF ignored THEN 0 ELSE N
===============================================================================
