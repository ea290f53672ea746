------------------------------ MODULE Condition ------------------------------
(***************************************************************************)
(* thread_template/condition/condition.cpp: main starts N workers and joins*)
(* each of them once it has ended.  A worker announces its end under the   *)
(* mutex (num_unjoined, state) and then signals the condition variable.    *)
(* num_unjoined++ and num_unjoined-- are a load and a store each.          *)
(*                                                                         *)
(* A location of main or of a worker is named after the pthread call it is *)
(* about to make, where it is about to make one.                           *)
(***************************************************************************)
EXTENDS Naturals, FiniteSets

CONSTANTS N,        \* argc - 1: one worker per sleep time on the command line
          Failing   \* the pthread calls that may return an error number

Calls == {"create", "lock", "unlock", "signal", "wait", "join"}

ASSUME NAssumption == N \in Nat
ASSUME FailingAssumption == Failing \subseteq Calls

Threads == 1 .. N
Main == 0

VARIABLES state,         \* thread[t].state
          wpc,           \* where worker t is
          holder,        \* the thread that holds mutex, as a set
          mpc,           \* where main is; "blocked" is inside pthread_cond_wait
          idx,           \* main's loop variable
          num_live,
          num_unjoined,
          reg            \* the value of num_unjoined each thread has loaded

vars == <<state, wpc, holder, mpc, idx, num_live, num_unjoined, reg>>

With(s) == {t \in Threads : state[t] = s}
Running == mpc \notin {"exited", "failed"}   \* main's return ends the process

Init == /\ state = [t \in Threads |-> "alive"]
        /\ wpc = [t \in Threads |-> "none"]
        /\ holder = {}
        /\ mpc = "create"
        /\ idx = 1
        /\ num_live = 0
        /\ num_unjoined = 0
        /\ reg = [t \in Threads \cup {Main} |-> 0]
-------------------------------------------------------------------------------
(* ThreadFunc.  The sleep is the time a worker spends at "lock".           *)

\* Mutant: the worker does not wait for the mutex.
WorkerNoLock(t) == /\ Running
                   /\ wpc[t] = "lock"
                   /\ wpc' = [wpc EXCEPT ![t] = "load"]
                   /\ UNCHANGED <<state, holder, mpc, idx, num_live, num_unjoined, reg>>

WorkerLock(t) == /\ Running
                 /\ wpc[t] = "lock"
                 /\ holder = {}
                 /\ holder' = {t}
                 /\ wpc' = [wpc EXCEPT ![t] = "load"]
                 /\ UNCHANGED <<state, mpc, idx, num_live, num_unjoined, reg>>

Load(t) == /\ Running
           /\ wpc[t] = "load"
           /\ reg' = [reg EXCEPT ![t] = num_unjoined]
           /\ wpc' = [wpc EXCEPT ![t] = "mark"]
           /\ UNCHANGED <<state, holder, mpc, idx, num_live, num_unjoined>>

\* The store, and the assignment to the state that follows it.
Mark(t) == /\ Running
           /\ wpc[t] = "mark"
           /\ num_unjoined' = reg[t] + 1
           /\ state' = [state EXCEPT ![t] = "terminated"]
           /\ wpc' = [wpc EXCEPT ![t] = "unlock"]
           /\ UNCHANGED <<holder, mpc, idx, num_live, reg>>

\* Mutant: no signal follows.
WorkerUnlockNoSignal(t) == /\ Running
                           /\ wpc[t] = "unlock"
                           /\ holder' = {}
                           /\ wpc' = [wpc EXCEPT ![t] = "returned"]
                           /\ UNCHANGED <<state, mpc, idx, num_live, num_unjoined, reg>>

WorkerUnlock(t) == /\ Running
                   /\ wpc[t] = "unlock"
                   /\ holder' = {}
                   /\ wpc' = [wpc EXCEPT ![t] = "signal"]
                   /\ UNCHANGED <<state, mpc, idx, num_live, num_unjoined, reg>>

\* Only main ever waits on cond: a signal wakes it, or nobody.
Signal(t) == /\ Running
             /\ wpc[t] = "signal"
             /\ wpc' = [wpc EXCEPT ![t] = "returned"]
             /\ mpc' = IF mpc = "blocked" THEN "woken" ELSE mpc
             /\ UNCHANGED <<state, holder, idx, num_live, num_unjoined, reg>>

\* A failed call changes nothing and the worker returns at once.
WorkerError(t) == /\ Running
                  /\ wpc[t] \in Failing
                  /\ wpc' = [wpc EXCEPT ![t] = "failed"]
                  /\ UNCHANGED <<state, holder, mpc, idx, num_live, num_unjoined, reg>>

Worker(t) == WorkerLock(t) \/ Load(t) \/ Mark(t) \/ WorkerUnlock(t) \/ Signal(t)
-------------------------------------------------------------------------------
(* main.                                                                   *)

Create == /\ mpc = "create"
          /\ idx <= N
          /\ wpc' = [wpc EXCEPT ![idx] = "lock"]
          /\ idx' = idx + 1
          /\ UNCHANGED <<state, holder, mpc, num_live, num_unjoined, reg>>

Created == /\ mpc = "create"
           /\ idx > N
           /\ num_live' = N
           /\ mpc' = IF N > 0 THEN "lock" ELSE "exited"
           /\ UNCHANGED <<state, wpc, holder, idx, num_unjoined, reg>>

\* The lock of the outer loop, or the one pthread_cond_wait takes back; then
\* the test of num_unjoined, which nobody changes while main has the mutex.
MainLock == /\ mpc \in {"lock", "woken"}
            /\ holder = {}
            /\ holder' = {Main}
            /\ IF num_unjoined = 0
               THEN mpc' = "wait" /\ UNCHANGED idx
               ELSE mpc' = "scan" /\ idx' = 1
            /\ UNCHANGED <<state, wpc, num_live, num_unjoined, reg>>

Wait == /\ mpc = "wait"
        /\ holder' = {}
        /\ mpc' = "blocked"
        /\ UNCHANGED <<state, wpc, idx, num_live, num_unjoined, reg>>

SpuriousWakeup == /\ mpc = "blocked"
                  /\ mpc' = "woken"
                  /\ UNCHANGED <<state, wpc, holder, idx, num_live, num_unjoined, reg>>

Scan == /\ mpc = "scan"
        /\ IF idx > N
           THEN mpc' = "unlock" /\ UNCHANGED idx
           ELSE IF state[idx] = "terminated"
                THEN mpc' = "join" /\ UNCHANGED idx
                ELSE idx' = idx + 1 /\ UNCHANGED mpc
        /\ UNCHANGED <<state, wpc, holder, num_live, num_unjoined, reg>>

\* Mutant: the thread is detached, not joined.
Detach == /\ mpc = "join"
          /\ state' = [state EXCEPT ![idx] = "joined"]
          /\ num_live' = num_live - 1
          /\ reg' = [reg EXCEPT ![Main] = num_unjoined]
          /\ mpc' = "reap"
          /\ UNCHANGED <<wpc, holder, idx, num_unjoined>>

\* pthread_join returns once the thread's function has.  Of the assignments that follow,
\* the last is split into its load and its store (Reap).
Join == /\ mpc = "join"
        /\ wpc[idx] \in {"returned", "failed"}
        /\ state' = [state EXCEPT ![idx] = "joined"]
        /\ num_live' = num_live - 1
        /\ reg' = [reg EXCEPT ![Main] = num_unjoined]
        /\ mpc' = "reap"
        /\ UNCHANGED <<wpc, holder, idx, num_unjoined>>

Reap == /\ mpc = "reap"
        /\ num_unjoined' = reg[Main] - 1
        /\ idx' = idx + 1
        /\ mpc' = "scan"
        /\ UNCHANGED <<state, wpc, holder, num_live, reg>>

MainUnlock == /\ mpc = "unlock"
              /\ holder' = {}
              /\ mpc' = IF num_live > 0 THEN "lock" ELSE "exited"
              /\ UNCHANGED <<state, wpc, idx, num_live, num_unjoined, reg>>

MainError == /\ mpc \in Failing
             /\ mpc = "create" => idx <= N
             /\ mpc' = "failed"
             /\ UNCHANGED <<state, wpc, holder, idx, num_live, num_unjoined, reg>>

MainStep == \/ Create \/ Created \/ MainLock \/ Wait \/ Scan \/ Join
            \/ Reap \/ MainUnlock

Ended == ~Running /\ UNCHANGED vars

Next == \/ \E t \in Threads : Worker(t) \/ WorkerError(t)
        \/ MainStep \/ MainError \/ SpuriousWakeup \/ Ended

Spec == Init /\ [][Next]_vars

\* The kernel runs every thread that can run; no call need fail.  POSIX allows
\* spurious wakeups, but as accidents: not for ever.
FairSpec == /\ Spec
            /\ WF_vars(MainStep)
            /\ \A t \in Threads : WF_vars(Worker(t))
            /\ <>[][~SpuriousWakeup]_vars
-------------------------------------------------------------------------------
(* TypeOK: the ranges of the variables.                                    *)
TypeOK == /\ state \in [Threads -> {"alive", "terminated", "joined"}]
          /\ wpc \in [Threads -> {"none", "lock", "load", "mark", "unlock", "signal",
                                  "returned", "failed"}]
          /\ holder \in SUBSET (Threads \cup {Main})
          /\ mpc \in {"create", "lock", "wait", "blocked", "woken", "scan",
                      "join", "reap", "unlock", "exited", "failed"}
          /\ idx \in 1 .. N + 1
          /\ num_live \in Nat
          /\ num_unjoined \in Nat
          /\ reg \in [Threads \cup {Main} -> Nat]

(* MutualExclusion: at most one thread is between its lock and its unlock, *)
(* so the counters and the states are never touched by two threads at once.*)
Inside(t) == \/ t \in Threads /\ wpc[t] \in {"load", "mark", "unlock"}
             \/ t = Main /\ mpc \in {"wait", "scan", "join", "reap", "unlock"}

MutualExclusion == \A t, u \in Threads \cup {Main} : Inside(t) /\ Inside(u) => t = u

(* Counted: num_unjoined is the number of threads that have ended and are  *)
(* not joined (one more, between the two halves of main's decrement), and  *)
(* num_live the number still to be joined: no update by a worker or by main*)
(* overwrites another.  main decides from them to wait, to scan, to leave. *)
Counted == /\ num_unjoined = Cardinality(With("terminated")) + (IF mpc = "reap" THEN 1 ELSE 0)
           /\ mpc # "create" /\ Running => num_live + Cardinality(With("joined")) = N

(* NoLostWakeup: main never sleeps on cond while a thread waits to be      *)
(* joined, unless that thread has still to signal it (or failed to): the   *)
(* signal is sent after the unlock, and none is remembered.                *)
NoLostWakeup == mpc = "blocked" /\ num_unjoined > 0 =>
                  \E t \in With("terminated") : wpc[t] \in {"unlock", "signal", "failed"}

(* JoinNeedsNoMutex: main joins while it holds the mutex, so the thread it *)
(* waits for must never need the mutex again.                              *)
JoinNeedsNoMutex == mpc = "join" => wpc[idx] \in {"signal", "returned", "failed"}

(* Implements: main leaves (and frees the array) only when the function of *)
(* every worker has returned.                                              *)
Abstract == INSTANCE ForkJoin WITH
  Workers <- Threads,
  worker <- [t \in Threads |-> IF wpc[t] = "none" THEN "idle"
                               ELSE IF wpc[t] \in {"returned", "failed"} THEN "finished"
                               ELSE "active"],
  parent <- IF mpc = "exited" THEN "through"
            ELSE IF mpc = "failed" THEN "gaveup" ELSE "waiting"
Implements == Abstract!Spec

(* Terminates: every wait of main ends, unless a worker fails: it does not *)
(* announce its end then, or keeps the mutex.                              *)
Terminates == [](\A t \in Threads : wpc[t] # "failed") => <>(mpc \in {"exited", "failed"})
===============================================================================
