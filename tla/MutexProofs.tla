----------------------------- MODULE MutexProofs -----------------------------
(***************************************************************************)
(* Theorems about Mutex, for every Loop and every set of calls that fail.  *)
(***************************************************************************)
EXTENDS Mutex, TLAPS

Gone(t) == wpc[t] \in {"returned", "failed"}

(* Who is inside owns the mutex, and what it has loaded is still current.  *)
Owned == \A t \in Threads : /\ wpc[t] \in {"load", "store", "unlock"} => holder = {t}
                            /\ wpc[t] = "store" => reg[t] = num

(* How far a thread has come.                                              *)
Progress == \A t \in Threads : /\ wpc[t] = "none" => i[t] = 0
                               /\ wpc[t] # "none" => i[t] <= Loop /\ Loop > 0
                               /\ wpc[t] \in {"lock", "load", "store"} => i[t] < Loop
                               /\ wpc[t] = "returned" => i[t] = Loop
                               /\ wpc[t] = "failed" /\ holder # {t} => i[t] < Loop

(* What main's place says about the threads and the mutex.                 *)
MainAt == /\ mpc \in {"mutexattr_init", "mutexattr_settype", "mutex_init", "atoi", "create1"}
               => \A t \in Threads : wpc[t] = "none"
          /\ mpc = "create1" => Loop > 0
          /\ mpc = "create2" => wpc[2] = "none" /\ Loop > 0
          /\ mpc \in {"create2", "join1"} => wpc[1] # "none"
          /\ mpc \in {"join1", "join2"} => wpc[2] # "none"
          /\ mpc = "join2" => Gone(1)
          /\ mpc \in {"mutexattr_destroy", "mutex_destroy", "exited"}
               => \A t \in Threads : Gone(t)
          /\ mpc = "exited" => holder = {}
          /\ mpc \in {"create1", "create2"} => mutex = "ready"
          /\ mpc = "atoi" => mutex = "ready"

IInv == TypeOK /\ Owned /\ Progress /\ MainAt /\ NoLostUpdate /\ MutexAlive
-------------------------------------------------------------------------------
LEMMA InitIInv == Init => IInv
  BY LoopAssumption DEF Init, IInv, TypeOK, Owned, Progress, MainAt, NoLostUpdate,
     MutexAlive, Threads, After, Gone

LEMMA MainIInv == ASSUME IInv, MainStep \/ MainError PROVE IInv'
  <1> USE LoopAssumption DEF IInv, Threads, Gone
  <1>1. CASE Attributes
    BY <1>1 DEF Attributes, Setup, After, TypeOK, Owned, Progress, MainAt, NoLostUpdate, MutexAlive
  <1>2. CASE MutexInit
    BY <1>2 DEF MutexInit, After, TypeOK, Owned, Progress, MainAt, NoLostUpdate, MutexAlive
  <1>3. CASE CheckLoop
    BY <1>3 DEF CheckLoop, After, TypeOK, Owned, Progress, MainAt, NoLostUpdate, MutexAlive
  <1>4. ASSUME NEW t \in Threads, Create(t) PROVE IInv'
    <2> USE <1>4 DEF Create
    <2>1. wpc[t] = "none" /\ Loop > 0 /\ mutex = "ready"
      BY DEF MainAt
    <2>2. TypeOK'
      BY DEF TypeOK, After
    <2>3. Owned' /\ Progress' /\ NoLostUpdate' /\ MutexAlive'
      BY <2>1 DEF TypeOK, Owned, Progress, NoLostUpdate, MutexAlive
    <2>4. MainAt'
      BY <2>1 DEF TypeOK, MainAt, After
    <2>5. QED
      BY <2>2, <2>3, <2>4
  <1>5. ASSUME NEW t \in Threads, Join(t) PROVE IInv'
    BY <1>5 DEF Join, After, TypeOK, Owned, Progress, MainAt, NoLostUpdate, MutexAlive
  <1>6. CASE MutexDestroy
    <2> USE <1>6 DEF MutexDestroy
    <2>1. TypeOK' /\ Owned' /\ Progress' /\ MainAt' /\ NoLostUpdate'
      BY DEF After, TypeOK, Owned, Progress, MainAt, NoLostUpdate
    <2>2. MutexAlive'
      BY DEF MainAt, MutexAlive
    <2>3. QED
      BY <2>1, <2>2
  <1>7. CASE MainError
    BY <1>7 DEF MainError, TypeOK, Owned, Progress, MainAt, NoLostUpdate, MutexAlive
  <1>8. QED
    BY <1>1, <1>2, <1>3, <1>4, <1>5, <1>6, <1>7 DEF MainStep

LEMMA WorkerIInv == ASSUME IInv, NEW t \in Threads, Worker(t) \/ WorkerError(t) PROVE IInv'
  <1> USE LoopAssumption DEF IInv, Threads, Gone
  <1>1. CASE TestLoop(t)
    BY <1>1 DEF TestLoop, TypeOK, Owned, Progress, MainAt, NoLostUpdate, MutexAlive
  <1>2. CASE Lock(t)
    BY <1>2 DEF Lock, TypeOK, Owned, Progress, MainAt, NoLostUpdate, MutexAlive
  <1>3. CASE Load(t)
    BY <1>3 DEF Load, TypeOK, Owned, Progress, MainAt, NoLostUpdate, MutexAlive
  <1>4. CASE Store(t)
    <2> USE <1>4 DEF Store
    <2>1. num' = num + 1
      BY DEF Owned
    <2>2. TypeOK' /\ Progress' /\ MainAt' /\ MutexAlive'
      BY DEF TypeOK, Progress, MainAt, MutexAlive
    <2>3. NoLostUpdate'
      BY <2>1 DEF TypeOK, NoLostUpdate
    <2>4. Owned'
      BY DEF TypeOK, Owned
    <2>5. QED
      BY <2>2, <2>3, <2>4
  <1>5. CASE Unlock(t)
    BY <1>5 DEF Unlock, TypeOK, Owned, Progress, MainAt, NoLostUpdate, MutexAlive
  <1>6. CASE WorkerError(t)
    <2>1. wpc[t] \in {"lock", "unlock"}
      BY <1>6, FailingAssumption DEF WorkerError, Calls, Setup, TypeOK
    <2>2. QED
      BY <1>6, <2>1 DEF WorkerError, TypeOK, Owned, Progress, MainAt, NoLostUpdate, MutexAlive
  <1>7. QED
    BY <1>1, <1>2, <1>3, <1>4, <1>5, <1>6 DEF Worker

LEMMA NextIInv == IInv /\ [Next]_vars => IInv'
  <1>1. ASSUME IInv, Ended \/ UNCHANGED vars PROVE IInv'
    BY <1>1 DEF Ended, vars, IInv, TypeOK, Owned, Progress, MainAt, NoLostUpdate,
       MutexAlive, Gone
  <1>2. QED
    BY <1>1, MainIInv, WorkerIInv DEF Next

LEMMA Invariance == Spec => []IInv
  BY InitIInv, NextIInv, PTL DEF Spec
-------------------------------------------------------------------------------
(* The variables keep their types.                                         *)
THEOREM TypeCorrect == Spec => []TypeOK
  <1>1. IInv => TypeOK
    BY DEF IInv
  <1>2. QED
    BY <1>1, Invariance, PTL

(* No increment of num is ever lost, for any interleaving and any Loop.    *)
THEOREM NoUpdateLost == Spec => []NoLostUpdate
  <1>1. IInv => NoLostUpdate
    BY DEF IInv
  <1>2. QED
    BY <1>1, Invariance, PTL

(* The mutex is used only while it is initialised and not yet destroyed.   *)
THEOREM MutexUsedAlive == Spec => []MutexAlive
  <1>1. IInv => MutexAlive
    BY DEF IInv
  <1>2. QED
    BY <1>1, Invariance, PTL

(* Main prints 2 * Loop, and less exactly if a thread gave up on an error. *)
THEOREM PrintedResult == Spec => []Result
  <1>1. IInv => Result
    BY LoopAssumption DEF IInv, TypeOK, Result, NoLostUpdate, Progress, MainAt, Gone, Threads
  <1>2. QED
    BY <1>1, Invariance, PTL

LEMMA AbstractStep == IInv /\ [Next]_vars => [Abstract!Next]_Abstract!vars
  <1> SUFFICES ASSUME IInv, [Next]_vars
               PROVE  Abstract!Next \/ UNCHANGED Abstract!vars
    OBVIOUS
  <1> USE DEF Abstract!vars, Running
  <1> TypeOK
    BY DEF IInv
  <1>1. ASSUME NEW t \in Threads, TestLoop(t) \/ WorkerError(t), wpc'[t] \in {"returned", "failed"}
        PROVE  Abstract!Next
    <2>1. wpc[t] \in {"test", "lock", "unlock"}
      BY <1>1, FailingAssumption DEF TestLoop, WorkerError, Calls, Setup, TypeOK
    <2>2. Abstract!Finish(t)
      BY <1>1, <2>1 DEF TestLoop, WorkerError, Abstract!Finish, TypeOK
    <2>3. QED
      BY <2>2 DEF Abstract!Next
  <1>2. ASSUME NEW t \in Threads, Worker(t) \/ WorkerError(t), wpc'[t] \notin {"returned", "failed"}
        PROVE  UNCHANGED Abstract!vars
    BY <1>2 DEF Worker, TestLoop, Lock, Load, Store, Unlock, WorkerError, TypeOK
  <1>3. ASSUME NEW t \in Threads, Create(t)
        PROVE  Abstract!Next
    <2>1. wpc[t] = "none"
      BY <1>3 DEF IInv, MainAt, Create, Threads
    <2>2. Abstract!Start(t)
      BY <1>3, <2>1 DEF Create, After, Abstract!Start, TypeOK, Threads
    <2>3. QED
      BY <2>2 DEF Abstract!Next
  <1>4. ASSUME NEW t \in Threads, Join(t)
        PROVE  UNCHANGED Abstract!vars
    BY <1>4 DEF Join, After, Threads
  <1>5. CASE Attributes \/ MutexInit
    BY <1>5 DEF Attributes, MutexInit, Setup, After
  <1>6. CASE CheckLoop \/ MutexDestroy \/ MainError
    <2>1. CASE mpc' = "failed"
      <3>1. mpc \notin {"exited", "failed"}
        BY <1>6, FailingAssumption DEF CheckLoop, MutexDestroy, MainError, Calls, Setup
      <3>2. Abstract!GiveUp
        BY <1>6, <2>1, <3>1 DEF CheckLoop, MutexDestroy, MainError, Abstract!GiveUp
      <3>3. QED
        BY <3>2 DEF Abstract!Next
    <2>2. CASE mpc' = "create1"
      BY <1>6, <2>2 DEF CheckLoop, MutexDestroy, MainError, After
    <2>3. CASE mpc' = "exited"
      <3>1. MutexDestroy
        BY <1>6, <2>3 DEF CheckLoop, MainError
      <3>2. Abstract!GoOn
        BY <2>3, <3>1 DEF MutexDestroy, IInv, MainAt, Gone, Abstract!GoOn
      <3>3. QED
        BY <3>2 DEF Abstract!Next
    <2>4. QED
      BY <1>6, <2>1, <2>2, <2>3 DEF CheckLoop, MutexDestroy, MainError, After
  <1>7. CASE Ended \/ UNCHANGED vars
    BY <1>7 DEF Ended, vars
  <1>8. \A t \in Threads : Worker(t) \/ WorkerError(t) => Abstract!Next \/ UNCHANGED Abstract!vars
    <2> SUFFICES ASSUME NEW t \in Threads, Worker(t) \/ WorkerError(t), wpc'[t] \in {"returned", "failed"}
                 PROVE  Abstract!Next
      BY <1>2
    <2>1. TestLoop(t) \/ WorkerError(t)
      BY DEF Worker, Lock, Load, Store, Unlock, TypeOK
    <2>2. QED
      BY <1>1, <2>1
  <1>9. QED
    BY <1>3, <1>4, <1>5, <1>6, <1>7, <1>8 DEF Next, MainStep

(* mutex.cpp implements ForkJoin: main prints only when both threads have  *)
(* returned.                                                               *)
THEOREM Refinement == Spec => Implements
  <1>1. Init => Abstract!Init
    BY DEF Init, Abstract!Init
  <1>2. QED
    BY <1>1, AbstractStep, Invariance, PTL DEF Spec, Implements, Abstract!Spec
===============================================================================
