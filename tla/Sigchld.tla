------------------------------- MODULE Sigchld -------------------------------
(***************************************************************************)
(* process_template/sigchld/sigchld.cpp: the parent forks N children with  *)
(* SIGCHLD blocked, then sleeps in sigsuspend until its SIGCHLD handler has*)
(* reaped them all.  The kernel keeps one pending bit per signal: SIGCHLDs *)
(* raised while one is pending are lost.                                   *)
(*                                                                         *)
(* A location of the parent or of the handler is named after the system    *)
(* call it is about to make, where it is about to make one.                *)
(***************************************************************************)
EXTENDS Naturals, FiniteSets

CONSTANTS N,         \* argc - 1: one child per sleep time on the command line
          Failing,   \* the system calls that may return -1
          MaxJobCtl  \* bound: how often children are stopped or continued

Calls == {"sigaction", "sigprocmask", "fork", "sigsuspend", "waitpid"}

ASSUME NAssumption == N \in Nat
ASSUME FailingAssumption == Failing \subseteq Calls
ASSUME MaxJobCtlAssumption == MaxJobCtl \in Nat

Children == 1 .. N

VARIABLES child,    \* what the kernel knows of each child
          mpc,      \* where main is
          handler,  \* where the handler is: "idle" when it is not running
          i,        \* main's loop variable
          blocked,  \* SIGCHLD is in the parent's signal mask
          pending,  \* a SIGCHLD waits to be delivered to the parent
          num_live_children,
          sig_cnt,
          jobctl    \* history: stops and continuations of children so far

vars == <<child, mpc, handler, i, blocked, pending, num_live_children, sig_cnt, jobctl>>

With(s) == {c \in Children : child[c] = s}
Dead == With("zombie") \cup With("reaped")

Init == /\ child = [c \in Children |-> "none"]
        /\ mpc = "sigaction"
        /\ handler = "idle"
        /\ i = 1
        /\ blocked = FALSE
        /\ pending = FALSE
        /\ num_live_children = N
        /\ sig_cnt = 0
        /\ jobctl = 0
-------------------------------------------------------------------------------
(* main.                                                                   *)

SigAction == /\ mpc = "sigaction"
             /\ mpc' = "sigprocmask"
             /\ UNCHANGED <<child, handler, i, blocked, pending, num_live_children, sig_cnt, jobctl>>

\* Mutant: SIGCHLD is not blocked.
NoSigProcMask == /\ mpc = "sigprocmask"
                 /\ mpc' = "fork"
                 /\ UNCHANGED <<child, handler, i, blocked, pending, num_live_children, sig_cnt, jobctl>>

SigProcMask == /\ mpc = "sigprocmask"
               /\ blocked' = TRUE
               /\ mpc' = "fork"
               /\ UNCHANGED <<child, handler, i, pending, num_live_children, sig_cnt, jobctl>>

Fork == /\ mpc = "fork"
        /\ handler = "idle"
        /\ i <= N
        /\ child' = [child EXCEPT ![i] = "running"]
        /\ i' = i + 1
        /\ UNCHANGED <<mpc, handler, blocked, pending, num_live_children, sig_cnt, jobctl>>

Test == /\ \/ mpc = "fork" /\ i > N
           \/ mpc = "test"
        /\ handler = "idle"
        /\ mpc' = IF num_live_children > 0 THEN "sigsuspend" ELSE "exited"
        /\ UNCHANGED <<child, handler, i, blocked, pending, num_live_children, sig_cnt, jobctl>>

MainError == /\ mpc \in Failing
             /\ handler = "idle"
             /\ mpc = "fork" => i <= N
             /\ mpc' = "failed"
             /\ UNCHANGED <<child, handler, i, blocked, pending, num_live_children, sig_cnt, jobctl>>
-------------------------------------------------------------------------------
(* The handler.  While it runs SIGCHLD is blocked, and main is interrupted.*)

\* sigsuspend replaces the mask by an empty one for as long as it sleeps.
Deliver == /\ pending
           /\ handler = "idle"
           /\ mpc \notin {"exited", "failed"}
           /\ mpc = "sigsuspend" \/ ~blocked
           /\ pending' = FALSE
           /\ handler' = "waitpid"
           /\ UNCHANGED <<child, mpc, i, blocked, num_live_children, sig_cnt, jobctl>>

\* Mutant: waitpid is not in a loop: one child is reaped per signal.
ReapOne(c) == /\ handler = "waitpid"
              /\ child[c] = "zombie"
              /\ child' = [child EXCEPT ![c] = "reaped"]
              /\ num_live_children' = num_live_children - 1
              /\ handler' = "sleep"
              /\ UNCHANGED <<mpc, i, blocked, pending, sig_cnt, jobctl>>

\* Mutant: a child that is only stopped is taken for dead (WUNTRACED).
ReapStopped(c) == /\ handler = "waitpid"
                  /\ child[c] \in {"zombie", "stopped"}
                  /\ child' = [child EXCEPT ![c] = IF @ = "zombie" THEN "reaped" ELSE @]
                  /\ num_live_children' = num_live_children - 1
                  /\ UNCHANGED <<mpc, handler, i, blocked, pending, sig_cnt, jobctl>>

\* waitpid(-1, ..., WNOHANG) finds a child that has ended.
Reap(c) == /\ handler = "waitpid"
           /\ child[c] = "zombie"
           /\ child' = [child EXCEPT ![c] = "reaped"]
           /\ num_live_children' = num_live_children - 1
           /\ UNCHANGED <<mpc, handler, i, blocked, pending, sig_cnt, jobctl>>

\* It finds none: 0 if children are left, -1 with ECHILD if not; then sleep(5).
NoMore == /\ handler = "waitpid"
          /\ With("zombie") = {}
          /\ handler' = "sleep"
          /\ UNCHANGED <<child, mpc, i, blocked, pending, num_live_children, sig_cnt, jobctl>>

\* The handler returns, after its sleep or at once when waitpid has failed.  If it
\* ran inside sigsuspend, that returns too (-1, EINTR): the mask is restored and
\* main counts the signal.
HandlerReturn == /\ handler = "sleep" \/ handler \in Failing
                 /\ handler' = "idle"
                 /\ IF mpc = "sigsuspend"
                    THEN mpc' = "test" /\ sig_cnt' = sig_cnt + 1
                    ELSE UNCHANGED <<mpc, sig_cnt>>
                 /\ UNCHANGED <<child, i, blocked, pending, num_live_children, jobctl>>

ParentStep == \/ SigAction \/ SigProcMask \/ Fork \/ Test
              \/ Deliver \/ (\E c \in Children : Reap(c)) \/ NoMore \/ HandlerReturn
-------------------------------------------------------------------------------
(* The children; sa_flags is 0, so a stop and a continuation raise SIGCHLD *)
(* as an end does.                                                         *)

\* _exit(0) after its sleep, or killed, perhaps while it is stopped.
End(c) == /\ child[c] \in {"running", "stopped"}
          /\ child' = [child EXCEPT ![c] = "zombie"]
          /\ pending' = TRUE
          /\ UNCHANGED <<mpc, handler, i, blocked, num_live_children, sig_cnt, jobctl>>

StopOrContinue(c) == /\ jobctl < MaxJobCtl
                     /\ child[c] \in {"running", "stopped"}
                     /\ child' = [child EXCEPT ![c] = IF @ = "running" THEN "stopped" ELSE "running"]
                     /\ pending' = TRUE
                     /\ jobctl' = jobctl + 1
                     /\ UNCHANGED <<mpc, handler, i, blocked, num_live_children, sig_cnt>>

Ended == mpc \in {"exited", "failed"} /\ UNCHANGED vars

Next == ParentStep \/ MainError \/ (\E c \in Children : End(c) \/ StopOrContinue(c)) \/ Ended

Spec == Init /\ [][Next]_vars

\* The kernel runs the parent and no call need fail; nothing is assumed of
\* the children.
FairSpec == Spec /\ WF_vars(ParentStep)
-------------------------------------------------------------------------------
(* TypeOK: the ranges of the variables.                                    *)
TypeOK == /\ child \in [Children -> {"none", "running", "stopped", "zombie", "reaped"}]
          /\ mpc \in {"sigaction", "sigprocmask", "fork", "test", "sigsuspend", "exited", "failed"}
          /\ handler \in {"idle", "waitpid", "sleep"}
          /\ i \in 1 .. N + 1
          /\ blocked \in BOOLEAN
          /\ pending \in BOOLEAN
          /\ num_live_children \in Nat
          /\ sig_cnt \in Nat
          /\ jobctl \in 0 .. MaxJobCtl

(* Counted: the counter the handler decrements and main loops on is at     *)
(* every moment the number of children not reaped yet.                     *)
Counted == num_live_children + Cardinality(With("reaped")) = N

(* NoLostChild: a child that has ended and is not reaped has either a      *)
(* SIGCHLD pending for it or a handler about to look for it, however many  *)
(* SIGCHLDs were merged into one.                                          *)
NoLostChild == With("zombie") # {} => pending \/ handler = "waitpid"

(* HandlerConfined: the handler interrupts main only inside sigsuspend,    *)
(* never between its test of num_live_children and its sleep, nor inside a *)
(* printf whose buffer the handler's own printf would corrupt.             *)
HandlerConfined == handler # "idle" => mpc = "sigsuspend"

(* SignalsMerge: "signals are not queued" (line 105): the signals counted, *)
(* being handled and pending are never more than the events behind them.   *)
One(b) == IF b THEN 1 ELSE 0
SignalsMerge == sig_cnt + One(handler # "idle") + One(pending) <= Cardinality(Dead) + jobctl

(* Implements: main reports that all children have terminated only when    *)
(* every one of them has been forked and has ended.                        *)
Abstract == INSTANCE ForkJoin WITH
  Workers <- Children,
  worker <- [c \in Children |-> IF child[c] = "none" THEN "idle"
                                ELSE IF child[c] \in {"running", "stopped"} THEN "active"
                                ELSE "finished"],
  parent <- IF mpc = "exited" THEN "through"
            ELSE IF mpc = "failed" THEN "gaveup" ELSE "waiting"
Implements == Abstract!Spec

(* AllDeadLeadsToExit: once every child has ended, however their signals   *)
(* were merged, main comes to its end.                                     *)
AllDeadLeadsToExit == (Dead = Children) ~> (mpc \in {"exited", "failed"})
===============================================================================
