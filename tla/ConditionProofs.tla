--------------------------- MODULE ConditionProofs ---------------------------
(***************************************************************************)
(* Theorems about Condition, for every number of threads and every set of  *)
(* calls that may fail.                                                    *)
(***************************************************************************)
EXTENDS Condition, FiniteSetTheorems, TLAPS

(* Who is inside owns the mutex; a thread's state follows from its place.  *)
Owned == \A u \in Threads \cup {Main} : Inside(u) => holder = {u}

Places == \A t \in Threads :
            /\ wpc[t] \in {"none", "lock", "load", "mark"} => state[t] = "alive"
            /\ wpc[t] \in {"unlock", "signal"} => state[t] = "terminated"
            /\ wpc[t] = "returned" => state[t] # "alive"
            /\ state[t] = "joined" => wpc[t] \in {"returned", "failed"}

MainAt == /\ mpc = "create" => /\ With("joined") = {}
                               /\ \A t \in Threads : t < idx => wpc[t] # "none"
                               /\ \A t \in Threads : t >= idx => wpc[t] = "none"
          /\ mpc \notin {"create", "failed"} => \A t \in Threads : wpc[t] # "none"
          /\ mpc = "wait" => num_unjoined = 0
          /\ mpc = "join" => idx \in Threads /\ state[idx] = "terminated"
          /\ mpc = "reap" => idx \in Threads

(* What has been loaded is still the value of num_unjoined at the store.   *)
Loaded == /\ \A t \in Threads : wpc[t] = "mark" => reg[t] = num_unjoined
          /\ mpc = "reap" => reg[Main] = num_unjoined

IInv == TypeOK /\ Owned /\ Places /\ MainAt /\ Loaded /\ Counted /\ NoLostWakeup

-------------------------------------------------------------------------------
LEMMA ThreadsFinite == IsFiniteSet(Threads) /\ Cardinality(Threads) = N
  BY FS_Interval, NAssumption DEF Threads

LEMMA WithFinite ==
  ASSUME NEW s
  PROVE  /\ IsFiniteSet(With(s))
         /\ Cardinality(With(s)) \in Nat
         /\ Cardinality(With(s)) <= N
         /\ Cardinality(With(s)) = N => With(s) = Threads
  <1>1. With(s) \in SUBSET Threads
    BY DEF With
  <1>2. QED
    BY <1>1, ThreadsFinite, FS_Subset, FS_CardinalityType

(* A thread that changes its state leaves one class and enters another.    *)
LEMMA Moves ==
  ASSUME state \in [Threads -> {"alive", "terminated", "joined"}],
         NEW t \in Threads,
         NEW from, state[t] = from,
         NEW to \in {"alive", "terminated", "joined"}, from # to,
         state' = [state EXCEPT ![t] = to]
  PROVE  /\ Cardinality(With(to)') = Cardinality(With(to)) + 1
         /\ Cardinality(With(from)') = Cardinality(With(from)) - 1
         /\ Cardinality(With(from)) > 0
         /\ \A s : s # to /\ s # from => With(s)' = With(s)
  <1>1. With(to)' = With(to) \cup {t} /\ t \notin With(to)
    BY DEF With
  <1>2. With(from)' = With(from) \ {t} /\ t \in With(from)
    BY DEF With
  <1>3. Cardinality(With(to)') = Cardinality(With(to)) + 1
    BY <1>1, WithFinite, FS_AddElement
  <1>4. Cardinality(With(from)') = Cardinality(With(from)) - 1
    BY <1>2, WithFinite, FS_RemoveElement
  <1>5. Cardinality(With(from)) > 0
    BY <1>2, WithFinite, FS_EmptySet
  <1>6. \A s : s # to /\ s # from => With(s)' = With(s)
    BY DEF With
  <1>7. QED
    BY <1>3, <1>4, <1>5, <1>6
-------------------------------------------------------------------------------
LEMMA InitIInv == Init => IInv
  <1> SUFFICES ASSUME Init PROVE IInv
    OBVIOUS
  <1> USE NAssumption DEF Init
  <1>1. With("terminated") = {} /\ With("joined") = {}
    BY DEF With
  <1>2. TypeOK
    BY DEF TypeOK
  <1>3. Owned /\ Places /\ Loaded /\ NoLostWakeup
    BY DEF Owned, Inside, Places, Loaded, NoLostWakeup
  <1>4. MainAt
    BY <1>1 DEF MainAt, Threads
  <1>5. Counted
    BY <1>1, FS_EmptySet DEF Counted
  <1>6. QED
    BY <1>2, <1>3, <1>4, <1>5 DEF IInv

LEMMA WorkerLockStep == ASSUME IInv, NEW t \in Threads, WorkerLock(t) PROVE IInv'
  <1> USE DEF IInv, WorkerLock
  <1>1. TypeOK'
    BY DEF TypeOK
  <1>2. Owned'
    BY DEF TypeOK, Owned, Inside, Main, Threads
  <1>3. Places' /\ MainAt' /\ Loaded' /\ NoLostWakeup'
    BY DEF TypeOK, Places, MainAt, Loaded, NoLostWakeup, With
  <1>4. Counted'
    BY DEF Counted, With, Running
  <1>5. QED
    BY <1>1, <1>2, <1>3, <1>4

LEMMA LoadStep == ASSUME IInv, NEW t \in Threads, Load(t) PROVE IInv'
  <1> USE DEF IInv, Load
  <1>1. TypeOK'
    BY DEF TypeOK
  <1>2. Owned'
    BY DEF TypeOK, Owned, Inside, Main, Threads
  <1>3. Places' /\ MainAt' /\ NoLostWakeup'
    BY DEF TypeOK, Places, MainAt, NoLostWakeup, With
  <1>4. Loaded'
    BY DEF TypeOK, Loaded, Main, Threads
  <1>5. Counted'
    BY DEF Counted, With, Running
  <1>6. QED
    BY <1>1, <1>2, <1>3, <1>4, <1>5

LEMMA MarkStep == ASSUME IInv, NEW t \in Threads, Mark(t) PROVE IInv'
  <1> USE DEF IInv, Mark
  <1>1. TypeOK'
    BY DEF TypeOK
  <1>2. Owned'
    BY DEF TypeOK, Owned, Inside, Main, Threads
  <1>3. state[t] = "alive"
    BY DEF Places
  <1>4. Cardinality(With("terminated")') = Cardinality(With("terminated")) + 1
         /\ With("joined")' = With("joined")
    BY <1>3, Moves DEF TypeOK
  <1>5. Places' /\ NoLostWakeup'
    BY DEF TypeOK, Places, NoLostWakeup, With
  <1>6. /\ ~Inside(Main)
        /\ \A u \in Threads : Inside(u) => u = t
    BY DEF Inside, Owned, Threads, Main
  <1>7. MainAt'
    BY <1>4, <1>6 DEF TypeOK, MainAt, Inside, Threads
  <1>8. Loaded'
    BY <1>6 DEF TypeOK, Loaded, Inside
  <1>9. num_unjoined' = num_unjoined + 1 /\ mpc # "reap" /\ mpc' # "reap"
    BY <1>6 DEF Loaded, Inside
  <1>10. Counted'
    <2>1. num_unjoined = Cardinality(With("terminated"))
      BY <1>9, WithFinite DEF Counted
    <2>2. num_unjoined' = Cardinality(With("terminated")')
      BY <1>4, <1>9, <2>1
    <2>3. num_unjoined' \in Nat
      BY <1>1 DEF TypeOK
    <2>4. mpc # "create" /\ Running => num_live + Cardinality(With("joined")') = N
      BY <1>4 DEF Counted
    <2>5. QED
      BY <1>9, <2>2, <2>3, <2>4 DEF Counted, Running
  <1>11. QED
    BY <1>1, <1>2, <1>5, <1>7, <1>8, <1>10

LEMMA WorkerUnlockStep == ASSUME IInv, NEW t \in Threads, WorkerUnlock(t) PROVE IInv'
  <1> USE DEF IInv, WorkerUnlock
  <1>1. TypeOK'
    BY DEF TypeOK
  <1>2. Inside(t) /\ holder = {t}
    BY DEF Inside, Owned
  <1>3. Owned'
    <2>1. \A u \in Threads \cup {Main} : Inside(u) => u = t
      BY <1>2 DEF Owned
    <2>2. \A u \in Threads \cup {Main} : Inside(u)' => Inside(u) /\ u # t
      BY DEF TypeOK, Inside, Main, Threads
    <2>3. QED
      BY <2>1, <2>2 DEF Owned
  <1>4. Places' /\ MainAt' /\ Loaded' /\ NoLostWakeup'
    BY DEF TypeOK, Places, MainAt, Loaded, NoLostWakeup, With
  <1>5. Counted'
    BY DEF Counted, With, Running
  <1>6. QED
    BY <1>1, <1>3, <1>4, <1>5

LEMMA SignalStep == ASSUME IInv, NEW t \in Threads, Signal(t) PROVE IInv'
  <1> USE DEF IInv, Signal
  <1>1. TypeOK'
    BY DEF TypeOK
  <1>2. Owned'
    BY DEF TypeOK, Owned, Inside, Main, Threads
  <1>3. Places' /\ MainAt' /\ Loaded' /\ NoLostWakeup'
    BY DEF TypeOK, Places, MainAt, Loaded, NoLostWakeup, With
  <1>4. Counted'
    BY DEF Counted, With, Running
  <1>5. QED
    BY <1>1, <1>2, <1>3, <1>4

LEMMA WorkerErrorStep == ASSUME IInv, NEW t \in Threads, WorkerError(t) PROVE IInv'
  <1> USE DEF IInv, WorkerError
  <1>1. wpc[t] \in {"lock", "unlock", "signal"}
    BY FailingAssumption DEF TypeOK, Calls
  <1>2. TypeOK'
    BY DEF TypeOK
  <1>3. Owned'
    BY DEF TypeOK, Owned, Inside, Main, Threads
  <1>4. Places' /\ MainAt' /\ Loaded'
    BY <1>1 DEF TypeOK, Places, MainAt, Loaded, With
  <1>5. NoLostWakeup'
    BY <1>1 DEF TypeOK, NoLostWakeup, With
  <1>6. Counted'
    BY DEF Counted, With, Running
  <1>7. QED
    BY <1>2, <1>3, <1>4, <1>5, <1>6

LEMMA JoinStep == ASSUME IInv, Join PROVE IInv'
  <1> USE DEF IInv, Join
  <1>1. idx \in Threads /\ state[idx] = "terminated"
    BY DEF MainAt
  <1>2. /\ Cardinality(With("terminated")') = Cardinality(With("terminated")) - 1
        /\ Cardinality(With("joined")') = Cardinality(With("joined")) + 1
    BY <1>1, Moves DEF TypeOK
  <1>3. num_live + Cardinality(With("joined")) = N /\ num_unjoined = Cardinality(With("terminated"))
    <2>1. mpc = "join" /\ Running
      BY DEF Running
    <2>2. QED
      BY <2>1, WithFinite DEF Counted
  <1>4. Cardinality(With("joined")') <= N /\ Cardinality(With("joined")) \in Nat
    <2>1. With("joined")' \in SUBSET Threads
      BY DEF With
    <2>2. QED
      BY <2>1, ThreadsFinite, FS_Subset, WithFinite
  <1>5. num_live > 0
    BY <1>2, <1>3, <1>4, NAssumption DEF TypeOK
  <1>6. TypeOK'
    <2>1. reg' \in [Threads \cup {Main} -> Nat]
      BY DEF TypeOK
    <2>2. num_live' \in Nat
      BY <1>5 DEF TypeOK
    <2>3. state' \in [Threads -> {"alive", "terminated", "joined"}]
      BY <1>1 DEF TypeOK
    <2>4. QED
      BY <2>1, <2>2, <2>3 DEF TypeOK
  <1>7. Owned'
    BY DEF TypeOK, Owned, Inside, Main, Threads
  <1>8. Places' /\ MainAt' /\ NoLostWakeup'
    BY <1>1 DEF TypeOK, Places, MainAt, NoLostWakeup
  <1>9. Loaded'
    BY DEF TypeOK, Loaded, Main, Threads
  <1>10. Counted'
    BY <1>2, <1>3, <1>4, WithFinite, NAssumption DEF Counted, TypeOK
  <1>11. QED
    BY <1>6, <1>7, <1>8, <1>9, <1>10

LEMMA ReapStep == ASSUME IInv, Reap PROVE IInv'
  <1> USE DEF IInv, Reap
  <1>1. num_unjoined' = num_unjoined - 1 /\ idx \in Threads
    BY DEF Loaded, MainAt
  <1>2. /\ num_unjoined = Cardinality(With("terminated")) + 1
        /\ Cardinality(With("terminated")) \in Nat
        /\ \A s : With(s)' = With(s)
    BY WithFinite DEF Counted, With
  <1>3. TypeOK'
    BY <1>1, <1>2, NAssumption DEF TypeOK, Threads
  <1>4. Owned'
    BY DEF TypeOK, Owned, Inside, Main, Threads
  <1>5. Places' /\ MainAt' /\ NoLostWakeup'
    BY DEF TypeOK, Places, MainAt, NoLostWakeup
  <1>6. \A t \in Threads : ~Inside(t)
    BY DEF Owned, Inside, Main, Threads
  <1>7. Loaded'
    BY <1>6 DEF Loaded, Inside
  <1>8. Counted'
    BY <1>1, <1>2 DEF Counted, Running
  <1>9. QED
    BY <1>3, <1>4, <1>5, <1>7, <1>8

(* The other steps of main change no thread's state.                       *)
LEMMA MainStepIInv == ASSUME IInv, MainStep \/ MainError \/ SpuriousWakeup PROVE IInv'
  <1> USE NAssumption DEF IInv
  <1>1. CASE Create
    <2> USE <1>1 DEF Create
    <2>1. idx \in Threads
      BY DEF TypeOK, Threads
    <2>2. wpc[idx] = "none"
      BY <2>1 DEF TypeOK, MainAt
    <2>3. TypeOK'
      BY <2>1 DEF TypeOK, Threads
    <2>4. Owned'
      BY <2>1 DEF TypeOK, Owned, Inside, Main, Threads
    <2>5. Places' /\ Loaded' /\ NoLostWakeup'
      BY <2>2 DEF TypeOK, Places, Loaded, NoLostWakeup
    <2>6. MainAt'
      BY <2>1 DEF TypeOK, MainAt, With, Threads
    <2>7. QED
      BY <2>3, <2>4, <2>5, <2>6 DEF Counted, With, Running
  <1>2. CASE Created
    <2> USE <1>2 DEF Created
    <2>1. With("joined") = {}
      BY DEF MainAt
    <2>2. num_live' + Cardinality(With("joined")') = N
      BY <2>1, FS_EmptySet DEF With
    <2>3. TypeOK' /\ Owned' /\ Places' /\ Loaded' /\ NoLostWakeup'
      BY DEF TypeOK, Owned, Inside, Main, Threads, Places, Loaded, NoLostWakeup
    <2>4. MainAt'
      BY DEF TypeOK, MainAt, Threads
    <2>5. QED
      BY <2>2, <2>3, <2>4 DEF Counted, With
  <1>3. CASE MainLock
    <2> USE <1>3 DEF MainLock
    <2>1. TypeOK' /\ Places' /\ MainAt' /\ Loaded' /\ NoLostWakeup'
      BY DEF TypeOK, Places, MainAt, Loaded, NoLostWakeup
    <2>2. Owned'
      BY DEF TypeOK, Owned, Inside, Main, Threads
    <2>3. QED
      BY <2>1, <2>2 DEF Counted, With, Running
  <1>4. CASE Wait
    <2> USE <1>4 DEF Wait
    <2>1. TypeOK' /\ Places' /\ MainAt' /\ Loaded' /\ NoLostWakeup'
      BY DEF TypeOK, Places, MainAt, Loaded, NoLostWakeup
    <2>2. \A t \in Threads : ~Inside(t)
      BY DEF Owned, Inside, Main, Threads
    <2>3. Owned'
      <3>1. ~Inside(Main)' /\ \A t \in Threads : ~Inside(t)'
        BY <2>2 DEF Inside, Main, Threads
      <3>2. QED
        BY <3>1 DEF Owned
    <2>4. QED
      BY <2>1, <2>3 DEF Counted, With, Running
  <1>5. CASE SpuriousWakeup
    <2> USE <1>5 DEF SpuriousWakeup
    <2>1. TypeOK' /\ Places' /\ MainAt' /\ Loaded' /\ NoLostWakeup'
      BY DEF TypeOK, Places, MainAt, Loaded, NoLostWakeup
    <2>2. Owned'
      BY DEF TypeOK, Owned, Inside, Main, Threads
    <2>3. QED
      BY <2>1, <2>2 DEF Counted, With, Running
  <1>6. CASE Scan
    <2> USE <1>6 DEF Scan
    <2>1. TypeOK' /\ Places' /\ MainAt' /\ Loaded' /\ NoLostWakeup'
      BY DEF TypeOK, Places, MainAt, Loaded, NoLostWakeup, Threads
    <2>2. Owned'
      BY DEF TypeOK, Owned, Inside, Main, Threads
    <2>3. QED
      BY <2>1, <2>2 DEF Counted, With, Running
  <1>7. CASE Join
    BY <1>7, JoinStep
  <1>8. CASE Reap
    BY <1>8, ReapStep
  <1>9. CASE MainUnlock
    <2> USE <1>9 DEF MainUnlock
    <2>1. TypeOK' /\ Places' /\ MainAt' /\ Loaded' /\ NoLostWakeup'
      BY DEF TypeOK, Places, MainAt, Loaded, NoLostWakeup
    <2>2. \A t \in Threads : ~Inside(t)
      BY DEF Owned, Inside, Main, Threads
    <2>3. Owned'
      <3>1. ~Inside(Main)' /\ \A t \in Threads : ~Inside(t)'
        BY <2>2 DEF Inside, Main, Threads
      <3>2. QED
        BY <3>1 DEF Owned
    <2>4. QED
      BY <2>1, <2>3 DEF Counted, With, Running
  <1>10. CASE MainError
    <2> USE <1>10 DEF MainError
    <2>1. TypeOK' /\ Places' /\ MainAt' /\ Loaded' /\ NoLostWakeup'
      BY DEF TypeOK, Places, MainAt, Loaded, NoLostWakeup
    <2>2. Owned'
      BY DEF TypeOK, Owned, Inside, Main, Threads
    <2>3. mpc # "reap"
      BY FailingAssumption DEF Calls
    <2>4. Counted'
      BY <2>3 DEF Counted, With, Running
    <2>5. QED
      BY <2>1, <2>2, <2>4
  <1>11. QED
    BY <1>1, <1>2, <1>3, <1>4, <1>5, <1>6, <1>7, <1>8, <1>9, <1>10 DEF MainStep

LEMMA StutterIInv == ASSUME IInv, UNCHANGED vars PROVE IInv'
  BY DEF IInv, vars, TypeOK, Owned, Inside, Places, MainAt, Loaded, Counted, NoLostWakeup, With, Running

LEMMA NextIInv == IInv /\ [Next]_vars => IInv'
  <1> SUFFICES ASSUME IInv, [Next]_vars PROVE IInv'
    OBVIOUS
  <1>1. CASE \E t \in Threads : Worker(t) \/ WorkerError(t)
    BY <1>1, WorkerLockStep, LoadStep, MarkStep, WorkerUnlockStep, SignalStep, WorkerErrorStep DEF Worker
  <1>2. CASE MainStep \/ MainError \/ SpuriousWakeup
    BY <1>2, MainStepIInv
  <1>3. CASE Ended \/ UNCHANGED vars
    BY <1>3, StutterIInv DEF Ended
  <1>4. QED
    BY <1>1, <1>2, <1>3 DEF Next

LEMMA Invariance == Spec => []IInv
  BY InitIInv, NextIInv, PTL DEF Spec
-------------------------------------------------------------------------------
(* The variables keep their types: in particular num_live and num_unjoined,*)
(* which main decrements, never become negative.                           *)
THEOREM TypeCorrect == Spec => []TypeOK
  <1>1. IInv => TypeOK
    BY DEF IInv
  <1>2. QED
    BY <1>1, Invariance, PTL

(* The counters and the states are touched by one thread at a time.        *)
THEOREM Exclusion == Spec => []MutualExclusion
  <1>1. IInv => MutualExclusion
    BY DEF IInv, Owned, MutualExclusion
  <1>2. QED
    BY <1>1, Invariance, PTL

(* The counters main decides on agree with the threads' states.            *)
THEOREM Counting == Spec => []Counted
  <1>1. IInv => Counted
    BY DEF IInv
  <1>2. QED
    BY <1>1, Invariance, PTL

(* Main never sleeps past a thread that waits to be joined.                *)
THEOREM Wakeups == Spec => []NoLostWakeup
  <1>1. IInv => NoLostWakeup
    BY DEF IInv
  <1>2. QED
    BY <1>1, Invariance, PTL

(* Joining under the mutex cannot block on the mutex.                      *)
THEOREM SafeJoin == Spec => []JoinNeedsNoMutex
  <1>1. IInv => JoinNeedsNoMutex
    <2> SUFFICES ASSUME IInv, mpc = "join"
                 PROVE  wpc[idx] \in {"signal", "returned", "failed"}
      BY DEF JoinNeedsNoMutex
    <2> USE DEF IInv
    <2>1. idx \in Threads /\ state[idx] = "terminated"
      BY DEF MainAt
    <2>2. ~Inside(idx)
      BY <2>1 DEF Owned, Inside, Main, Threads
    <2>3. QED
      BY <2>1, <2>2 DEF TypeOK, Places, Inside
  <1>2. QED
    BY <1>1, Invariance, PTL

(* When num_live has come down to 0 every thread has returned and is joined.*)
LEMMA AllJoined ==
  ASSUME IInv, mpc \notin {"create", "failed", "exited"}, num_live = 0
  PROVE  \A t \in Threads : wpc[t] \in {"returned", "failed"}
  <1>1. With("joined") = Threads
    BY WithFinite, NAssumption DEF IInv, Counted, Running, TypeOK
  <1>2. QED
    BY <1>1 DEF IInv, Places, With

LEMMA AbstractInit == Init => Abstract!Init
  BY DEF Init, Abstract!Init

LEMMA AbstractStep == IInv /\ [Next]_vars => [Abstract!Next]_Abstract!vars
  <1> SUFFICES ASSUME IInv, [Next]_vars
               PROVE  Abstract!Next \/ UNCHANGED Abstract!vars
    OBVIOUS
  <1> USE DEF Abstract!vars, Running
  <1> TypeOK
    BY DEF IInv
  <1>1. ASSUME NEW t \in Threads, Worker(t) \/ WorkerError(t)
        PROVE  Abstract!Next \/ UNCHANGED Abstract!vars
    <2>1. CASE WorkerLock(t)
      BY <2>1 DEF WorkerLock, TypeOK
    <2>2. CASE Load(t) \/ Mark(t)
      BY <2>2 DEF Load, Mark, TypeOK
    <2>3. CASE WorkerUnlock(t)
      BY <2>3 DEF WorkerUnlock, TypeOK
    <2>4. CASE Signal(t)
      <3>1. Abstract!Finish(t)
        BY <2>4 DEF Signal, Abstract!Finish, TypeOK
      <3>2. QED
        BY <3>1 DEF Abstract!Next
    <2>5. CASE WorkerError(t)
      <3>1. wpc[t] \in {"lock", "unlock", "signal"}
        BY <2>5, FailingAssumption DEF WorkerError, TypeOK, Calls
      <3>2. Abstract!Finish(t)
        BY <2>5, <3>1 DEF WorkerError, Abstract!Finish, TypeOK
      <3>3. QED
        BY <3>2 DEF Abstract!Next
    <2>6. QED
      BY <1>1, <2>1, <2>2, <2>3, <2>4, <2>5 DEF Worker
  <1>2. CASE Create
    <2>1. PICK t \in Threads : t = idx /\ wpc[t] = "none"
      BY <1>2, NAssumption DEF Create, IInv, TypeOK, MainAt, Threads
    <2>2. Abstract!Start(t)
      BY <1>2, <2>1 DEF Create, Abstract!Start, TypeOK
    <2>3. QED
      BY <2>2 DEF Abstract!Next
  <1>3. CASE Created
    <2>1. CASE N > 0
      BY <1>3, <2>1 DEF Created
    <2>2. CASE N = 0
      <3>1. Threads = {}
        BY <2>2 DEF Threads
      <3>2. Abstract!GoOn
        BY <1>3, <2>2, <3>1 DEF Created, Abstract!GoOn
      <3>3. QED
        BY <3>2 DEF Abstract!Next
    <2>3. QED
      BY <2>1, <2>2, NAssumption
  <1>4. CASE MainLock \/ Wait \/ SpuriousWakeup \/ Scan \/ Join \/ Reap
    BY <1>4 DEF MainLock, Wait, SpuriousWakeup, Scan, Join, Reap
  <1>5. CASE MainUnlock
    <2>1. CASE num_live > 0
      BY <1>5, <2>1 DEF MainUnlock
    <2>2. CASE num_live = 0
      <3>1. \A t \in Threads : wpc[t] \in {"returned", "failed"}
        BY <1>5, <2>2, AllJoined DEF MainUnlock
      <3>2. Abstract!GoOn
        BY <1>5, <2>2, <3>1 DEF MainUnlock, Abstract!GoOn
      <3>3. QED
        BY <3>2 DEF Abstract!Next
    <2>3. QED
      BY <2>1, <2>2 DEF TypeOK
  <1>6. CASE MainError
    <2>1. mpc \notin {"exited", "failed"}
      BY <1>6, FailingAssumption DEF MainError, Calls
    <2>2. Abstract!GiveUp
      BY <1>6, <2>1 DEF MainError, Abstract!GiveUp
    <2>3. QED
      BY <2>2 DEF Abstract!Next
  <1>7. CASE Ended \/ UNCHANGED vars
    BY <1>7 DEF Ended, vars
  <1>8. QED
    BY <1>1, <1>2, <1>3, <1>4, <1>5, <1>6, <1>7 DEF Next, MainStep

(* condition.cpp implements ForkJoin: main leaves only when every worker's *)
(* function has returned.                                                  *)
THEOREM Refinement == Spec => Implements
  BY AbstractInit, AbstractStep, Invariance, PTL DEF Spec, Implements, Abstract!Spec
===============================================================================
