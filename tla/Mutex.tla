-------------------------------- MODULE Mutex --------------------------------
(***************************************************************************)
(* thread_template/mutex/mutex.cpp: two threads each increment num Loop    *)
(* times under an error-checking mutex; main joins them, destroys the mutex*)
(* and prints num.  An increment is a load and a store.                    *)
(***************************************************************************)
EXTENDS Integers

CONSTANTS Loop,     \* atoi(argv[1])
          Failing   \* the pthread calls that may return an error number

Setup == {"mutexattr_init", "mutexattr_settype", "mutexattr_destroy"}
Calls == Setup \cup {"mutex_init", "mutex_destroy", "create1", "create2",
                     "join1", "join2", "lock", "unlock"}

\* An int; num is a long long and does not overflow.
ASSUME LoopAssumption == Loop \in Int
ASSUME FailingAssumption == Failing \subseteq Calls

Threads == {1, 2}

VARIABLES mpc,     \* where main is, by its next call
          wpc,     \* where each thread is
          mutex,   \* "raw", "ready" or "destroyed"
          holder,  \* the thread that holds it, as a set
          i,       \* each thread's loop variable
          reg,     \* the value of num each thread has loaded
          num

vars == <<mpc, wpc, mutex, holder, i, reg, num>>

Init == /\ mpc = "mutexattr_init"
        /\ wpc = [t \in Threads |-> "none"]
        /\ mutex = "raw"
        /\ holder = {}
        /\ i = [t \in Threads |-> 0]
        /\ reg = [t \in Threads |-> 0]
        /\ num = 0
-------------------------------------------------------------------------------
(* main: the order of its calls, and what each of them changes.            *)
After == [mutexattr_init    |-> "mutexattr_settype",
          mutexattr_settype |-> "mutex_init",
          mutex_init        |-> "atoi",
          create1           |-> "create2",
          create2           |-> "join1",
          join1             |-> "join2",
          join2             |-> "mutexattr_destroy",
          mutexattr_destroy |-> "mutex_destroy",
          mutex_destroy     |-> "exited"]

Attributes == /\ mpc \in Setup
              /\ mpc' = After[mpc]
              /\ UNCHANGED <<wpc, mutex, holder, i, reg, num>>

MutexInit == /\ mpc = "mutex_init"
             /\ mutex' = "ready"
             /\ mpc' = After[mpc]
             /\ UNCHANGED <<wpc, holder, i, reg, num>>

CheckLoop == /\ mpc = "atoi"
             /\ mpc' = IF Loop <= 0 THEN "failed" ELSE "create1"
             /\ UNCHANGED <<wpc, mutex, holder, i, reg, num>>

Create(t) == /\ mpc = IF t = 1 THEN "create1" ELSE "create2"
             /\ wpc' = [wpc EXCEPT ![t] = "test"]
             /\ mpc' = After[mpc]
             /\ UNCHANGED <<mutex, holder, i, reg, num>>

\* The threads' results are not looked at: an error in one of them is not noticed.
Join(t) == /\ mpc = IF t = 1 THEN "join1" ELSE "join2"
           /\ wpc[t] \in {"returned", "failed"}
           /\ mpc' = After[mpc]
           /\ UNCHANGED <<wpc, mutex, holder, i, reg, num>>

\* EBUSY if a thread holds it.  What is printed next is num.
MutexDestroy == /\ mpc = "mutex_destroy"
                /\ IF holder = {}
                   THEN mutex' = "destroyed" /\ mpc' = After[mpc]
                   ELSE mpc' = "failed" /\ UNCHANGED mutex
                /\ UNCHANGED <<wpc, holder, i, reg, num>>

MainError == /\ mpc \in Failing
             /\ mpc' = "failed"
             /\ UNCHANGED <<wpc, mutex, holder, i, reg, num>>

MainStep == \/ Attributes \/ MutexInit \/ CheckLoop \/ MutexDestroy
            \/ \E t \in Threads : Create(t) \/ Join(t)
-------------------------------------------------------------------------------
(* ThreadWrite.  When main returns the process ends, and every thread.     *)
Running == mpc \notin {"exited", "failed"}

\* Mutant: one round too many.
TestLoopInclusive(t) == /\ Running
                        /\ wpc[t] = "test"
                        /\ wpc' = [wpc EXCEPT ![t] = IF i[t] <= Loop THEN "lock" ELSE "returned"]
                        /\ UNCHANGED <<mpc, mutex, holder, i, reg, num>>

TestLoop(t) == /\ Running
               /\ wpc[t] = "test"
               /\ wpc' = [wpc EXCEPT ![t] = IF i[t] < Loop THEN "lock" ELSE "returned"]
               /\ UNCHANGED <<mpc, mutex, holder, i, reg, num>>

\* Mutant: the mutex is not taken.
NoLock(t) == /\ Running
             /\ wpc[t] = "lock"
             /\ wpc' = [wpc EXCEPT ![t] = "load"]
             /\ UNCHANGED <<mpc, mutex, holder, i, reg, num>>

Lock(t) == /\ Running
           /\ wpc[t] = "lock"
           /\ holder = {}
           /\ holder' = {t}
           /\ wpc' = [wpc EXCEPT ![t] = "load"]
           /\ UNCHANGED <<mpc, mutex, i, reg, num>>

Load(t) == /\ Running
           /\ wpc[t] = "load"
           /\ reg' = [reg EXCEPT ![t] = num]
           /\ wpc' = [wpc EXCEPT ![t] = "store"]
           /\ UNCHANGED <<mpc, mutex, holder, i, num>>

\* With it the loop variable advances, which only its thread sees.
Store(t) == /\ Running
            /\ wpc[t] = "store"
            /\ num' = reg[t] + 1
            /\ i' = [i EXCEPT ![t] = @ + 1]
            /\ wpc' = [wpc EXCEPT ![t] = "unlock"]
            /\ UNCHANGED <<mpc, mutex, holder, reg>>

\* Mutant: the mutex is not released.
NoUnlock(t) == /\ Running
               /\ wpc[t] = "unlock"
               /\ wpc' = [wpc EXCEPT ![t] = "test"]
               /\ UNCHANGED <<mpc, mutex, holder, i, reg, num>>

Unlock(t) == /\ Running
             /\ wpc[t] = "unlock"
             /\ holder' = {}
             /\ wpc' = [wpc EXCEPT ![t] = "test"]
             /\ UNCHANGED <<mpc, mutex, i, reg, num>>

WorkerError(t) == /\ Running
                  /\ wpc[t] \in Failing
                  /\ wpc' = [wpc EXCEPT ![t] = "failed"]
                  /\ UNCHANGED <<mpc, mutex, holder, i, reg, num>>

Worker(t) == TestLoop(t) \/ Lock(t) \/ Load(t) \/ Store(t) \/ Unlock(t)

Ended == ~Running /\ UNCHANGED vars

Next == \/ MainStep \/ MainError
        \/ \E t \in Threads : Worker(t) \/ WorkerError(t)
        \/ Ended

Spec == Init /\ [][Next]_vars

\* The kernel runs every thread that can run, no call need fail, and each
\* takes the mutex Loop times only.
FairSpec == Spec /\ WF_vars(MainStep) /\ \A t \in Threads : WF_vars(Worker(t))
-------------------------------------------------------------------------------
(* TypeOK: the ranges of the variables.                                    *)
TypeOK == /\ mpc \in DOMAIN After \cup {"atoi", "exited", "failed"}
          /\ wpc \in [Threads -> {"none", "test", "lock", "load", "store", "unlock",
                                  "returned", "failed"}]
          /\ mutex \in {"raw", "ready", "destroyed"}
          /\ holder \in SUBSET Threads
          /\ i \in [Threads -> Nat]
          /\ reg \in [Threads -> Nat]
          /\ num \in Nat

(* NoLostUpdate: num is at every moment the number of increments the two   *)
(* threads have made, so that no increment overwrites another.             *)
NoLostUpdate == num = i[1] + i[2]

(* MutexAlive: a thread locks, holds or unlocks the mutex only between its *)
(* initialisation and its destruction.                                     *)
MutexAlive == \A t \in Threads :
                wpc[t] \in {"test", "lock", "load", "store", "unlock"} => mutex = "ready"

(* Result: when main prints a number and exits with 0, the number is never *)
(* above twice the count on the command line, and it is below exactly if a *)
(* thread has returned early on an error, though no error is reported: a   *)
(* thread that fails after its last round keeps the mutex, and the destroy *)
(* tells.                                                                  *)
Result == mpc = "exited" => /\ num <= 2 * Loop
                            /\ num = 2 * Loop <=> \A t \in Threads : wpc[t] # "failed"

(* Implements: main prints only when both threads have been created and    *)
(* have returned.                                                          *)
Abstract == INSTANCE ForkJoin WITH
  Workers <- Threads,
  worker <- [t \in Threads |-> IF wpc[t] = "none" THEN "idle"
                               ELSE IF wpc[t] \in {"returned", "failed"} THEN "finished"
                               ELSE "active"],
  parent <- IF mpc = "exited" THEN "through"
            ELSE IF mpc = "failed" THEN "gaveup" ELSE "waiting"
Implements == Abstract!Spec

(* Terminates: main comes to its end, unless a thread fails: it may keep   *)
(* the mutex then.                                                         *)
Terminates == [](\A t \in Threads : wpc[t] # "failed") => <>(mpc \in {"exited", "failed"})
===============================================================================
