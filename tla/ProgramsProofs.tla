---------------------------- MODULE ProgramsProofs ----------------------------
(***************************************************************************)
(* Theorems about the programs that Programs puts next to each other.      *)
(***************************************************************************)
EXTENDS Programs, SequenceTheorems, FiniteSetTheorems, TLAPS

(* Each program behaves as it does alone.                                  *)
LEMMA Separation == Spec => /\ Wait!Spec /\ ChildStatus!Spec /\ Process!Spec /\ PosixShm!Spec
                            /\ Timerfd!Spec /\ Cancel!Spec /\ SimpleThread!Spec
  <1>1. Init => /\ Wait!Init /\ ChildStatus!Init /\ Process!Init /\ PosixShm!Init
                /\ Timerfd!Init /\ Cancel!Init /\ SimpleThread!Init
    BY DEF Init
  <1>2. [Next]_vars => /\ [Wait!Next]_(Wait!vars) /\ [ChildStatus!Next]_(ChildStatus!vars)
                       /\ [Process!Next]_(Process!vars) /\ [PosixShm!Next]_(PosixShm!vars)
                       /\ [Timerfd!Next]_(Timerfd!vars) /\ [Cancel!Next]_(Cancel!vars)
                       /\ [SimpleThread!Next]_(SimpleThread!vars)
    BY DEF Next, Others, vars, wait_vars, status_vars, process_vars, shm_vars, timer_vars,
           cancel_vars, simple_vars, Wait!vars, ChildStatus!vars, Process!vars, PosixShm!vars,
           Timerfd!vars, Cancel!vars, SimpleThread!vars
  <1>3. QED
    BY <1>1, <1>2, PTL DEF Spec, Wait!Spec, ChildStatus!Spec, Process!Spec, PosixShm!Spec,
                           Timerfd!Spec, Cancel!Spec, SimpleThread!Spec
-------------------------------------------------------------------------------
(* simple_thread.cpp: main joins a thread that it could not create only    *)
(* after it has said so.                                                   *)

SimpleInv == /\ SimpleThread!TypeOK
             /\ simple_mpc = "pthread_create" => simple_thread = "none" /\ simple_errors = {}
             /\ simple_mpc = "pthread_join" /\ simple_thread = "none" => simple_errors # {}
             /\ simple_mpc = "lost" => simple_errors # {}
             /\ SimpleThread!Returned

LEMMA SimpleInvariant == SimpleThread!Spec => []SimpleInv
  <1> USE DEF SimpleInv
  <1>1. SimpleThread!Init => SimpleInv
    BY DEF SimpleThread!Init, SimpleThread!TypeOK, SimpleThread!Calls, SimpleThread!Returned
  <1>2. SimpleInv /\ [SimpleThread!Next]_(SimpleThread!vars) => SimpleInv'
    <2> SUFFICES ASSUME SimpleInv, [SimpleThread!Next]_(SimpleThread!vars) PROVE SimpleInv'
      OBVIOUS
    <2>1. CASE SimpleThread!Create
      BY <2>1 DEF SimpleThread!Create, SimpleThread!TypeOK, SimpleThread!Calls, SimpleThread!Returned
    <2>2. CASE SimpleThread!CreateError
      BY <2>2 DEF SimpleThread!CreateError, SimpleThread!TypeOK, SimpleThread!Calls, SimpleThread!Returned
    <2>3. CASE SimpleThread!Join \/ SimpleThread!JoinError \/ SimpleThread!JoinGarbage
      BY <2>3 DEF SimpleThread!Join, SimpleThread!JoinError, SimpleThread!JoinGarbage,
                  SimpleThread!TypeOK, SimpleThread!Calls, SimpleThread!Returned
    <2>4. CASE SimpleThread!ThreadFunc
      BY <2>4 DEF SimpleThread!ThreadFunc, SimpleThread!TypeOK, SimpleThread!Calls, SimpleThread!Returned
    <2>5. CASE UNCHANGED SimpleThread!vars
      BY <2>5 DEF SimpleThread!vars, SimpleThread!TypeOK, SimpleThread!Returned
    <2>6. QED
      BY <2>1, <2>2, <2>3, <2>4, <2>5
         DEF SimpleThread!Next, SimpleThread!MainStep, SimpleThread!Error, SimpleThread!Ended
  <1>3. QED
    BY <1>1, <1>2, PTL DEF SimpleThread!Spec

LEMMA SimpleImplements == SimpleThread!Spec => SimpleThread!Implements
  <1>1. SimpleThread!Init => SimpleThread!Abstract!Init
    BY DEF SimpleThread!Init, SimpleThread!Abstract!Init
  <1>2. SimpleInv /\ [SimpleThread!Next]_(SimpleThread!vars)
          => [SimpleThread!Abstract!Next]_(SimpleThread!Abstract!vars)
    <2> SUFFICES ASSUME SimpleInv, [SimpleThread!Next]_(SimpleThread!vars)
                 PROVE  [SimpleThread!Abstract!Next]_(SimpleThread!Abstract!vars)
      OBVIOUS
    <2> USE DEF SimpleInv, SimpleThread!TypeOK, SimpleThread!Calls
    <2>1. CASE SimpleThread!Create
      <3>1. SimpleThread!Abstract!Start("thread")
        BY <2>1 DEF SimpleThread!Create, SimpleThread!Abstract!Start
      <3>2. QED
        BY <3>1 DEF SimpleThread!Abstract!Next
    <2>2. CASE SimpleThread!CreateError \/ SimpleThread!JoinError
      BY <2>2 DEF SimpleThread!CreateError, SimpleThread!JoinError, SimpleThread!Abstract!Next,
                  SimpleThread!Abstract!GiveUp, SimpleThread!Abstract!vars
    <2>3. CASE SimpleThread!Join
      BY <2>3 DEF SimpleThread!Join, SimpleThread!Abstract!Next, SimpleThread!Abstract!GoOn,
                  SimpleThread!Abstract!vars
    <2>4. CASE SimpleThread!JoinGarbage
      BY <2>4 DEF SimpleThread!JoinGarbage, SimpleThread!Abstract!vars
    <2>5. CASE SimpleThread!ThreadFunc
      BY <2>5 DEF SimpleThread!ThreadFunc, SimpleThread!Abstract!Next,
                  SimpleThread!Abstract!Finish, SimpleThread!Abstract!vars
    <2>6. CASE UNCHANGED SimpleThread!vars
      BY <2>6 DEF SimpleThread!vars, SimpleThread!Abstract!vars
    <2>7. QED
      BY <2>1, <2>2, <2>3, <2>4, <2>5, <2>6
         DEF SimpleThread!Next, SimpleThread!MainStep, SimpleThread!Error, SimpleThread!Ended
  <1>3. QED
    BY <1>1, <1>2, SimpleInvariant, PTL
       DEF SimpleThread!Spec, SimpleThread!Implements, SimpleThread!Abstract!Spec
-------------------------------------------------------------------------------
(* pthread_cancel.cpp: the lock of stdout is the thread's only while it    *)
(* writes, and an error of main's is one of the pthread calls.             *)

CancelInv == /\ Cancel!TypeOK
             /\ cancel_thread = "none" => cancel_mpc \in {"pthread_create", "failed"}
             /\ cancel_mpc = "pthread_create" => cancel_thread = "none"
             /\ cancel_lock = "thread" <=> cancel_thread = "write"
             /\ cancel_message = "none" \/ cancel_message = "was canceled"
             /\ cancel_mpc \in {"printf", "exited"} => cancel_thread = "canceled"

LEMMA CancelInvariant == Cancel!Spec => []CancelInv
  <1> USE DEF CancelInv
  <1>1. Cancel!Init => CancelInv
    BY DEF Cancel!Init, Cancel!TypeOK, Cancel!Calls
  <1>2. CancelInv /\ [Cancel!Next]_(Cancel!vars) => CancelInv'
    <2> SUFFICES ASSUME CancelInv, [Cancel!Next]_(Cancel!vars) PROVE CancelInv'
      OBVIOUS
    <2> USE DEF Cancel!TypeOK, Cancel!Calls
    <2>1. CASE Cancel!MainStep
      BY <2>1 DEF Cancel!MainStep, Cancel!Create, Cancel!PthreadCancel, Cancel!Join, Cancel!Report
    <2>2. CASE Cancel!Error
      BY <2>2, FailingAssumption DEF Cancel!Error, Calls
    <2>3. CASE Cancel!Printf \/ Cancel!Written \/ Cancel!Slept
      BY <2>3 DEF Cancel!Printf, Cancel!Written, Cancel!Slept, Cancel!Dead
    <2>4. CASE Cancel!ActOnCancel
      BY <2>4 DEF Cancel!ActOnCancel, Cancel!Dead
    <2>5. CASE UNCHANGED Cancel!vars
      BY <2>5 DEF Cancel!vars
    <2>6. QED
      BY <2>1, <2>2, <2>3, <2>4, <2>5 DEF Cancel!Next, Cancel!ThreadStep, Cancel!TooLate, Cancel!Ended
  <1>3. QED
    BY <1>1, <1>2, PTL DEF Cancel!Spec

LEMMA CancelImplements == Cancel!Spec => Cancel!Implements
  <1>1. Cancel!Init => Cancel!Abstract!Init
    BY DEF Cancel!Init, Cancel!Abstract!Init
  <1>2. CancelInv /\ [Cancel!Next]_(Cancel!vars)
          => [Cancel!Abstract!Next]_(Cancel!Abstract!vars)
    <2> SUFFICES ASSUME CancelInv, [Cancel!Next]_(Cancel!vars)
                 PROVE  [Cancel!Abstract!Next]_(Cancel!Abstract!vars)
      OBVIOUS
    <2> USE DEF CancelInv, Cancel!TypeOK, Cancel!Calls, Cancel!Abstract!Next, Cancel!Abstract!vars
    <2>1. CASE Cancel!Create
      BY <2>1 DEF Cancel!Create, Cancel!Abstract!Start
    <2>2. CASE Cancel!PthreadCancel \/ Cancel!Report
      BY <2>2 DEF Cancel!PthreadCancel, Cancel!Report
    <2>3. CASE Cancel!Join
      BY <2>3 DEF Cancel!Join, Cancel!Abstract!GoOn
    <2>4. CASE Cancel!Error
      BY <2>4, FailingAssumption DEF Cancel!Error, Calls, Cancel!Abstract!GiveUp
    <2>5. CASE Cancel!Printf \/ Cancel!Written \/ Cancel!Slept
      BY <2>5 DEF Cancel!Printf, Cancel!Written, Cancel!Slept
    <2>6. CASE Cancel!ActOnCancel
      BY <2>6 DEF Cancel!ActOnCancel, Cancel!Abstract!Finish
    <2>7. CASE UNCHANGED Cancel!vars
      BY <2>7 DEF Cancel!vars
    <2>8. QED
      BY <2>1, <2>2, <2>3, <2>4, <2>5, <2>6, <2>7
         DEF Cancel!Next, Cancel!MainStep, Cancel!ThreadStep, Cancel!TooLate, Cancel!Ended
  <1>3. QED
    BY <1>1, <1>2, CancelInvariant, PTL DEF Cancel!Spec, Cancel!Implements, Cancel!Abstract!Spec
-------------------------------------------------------------------------------
(* wait.cpp: the children up to i have been forked, and the dead that main *)
(* has counted are the ones it has reaped, if the kernel keeps any for it. *)

WaitInv == /\ Wait!TypeOK
           /\ \A c \in Wait!Children : wait_child[c] = "none" <=> c >= wait_i
           /\ wait_mpc \in {"wait", "exited"} => wait_i = WaitN + 1
           /\ IF wait_ignored
              THEN wait_num_dead = 0 /\ \A c \in Wait!Children : wait_child[c] # "zombie"
              ELSE wait_num_dead = Cardinality(Wait!With("gone"))
           /\ wait_mpc = "exited" => \A c \in Wait!Children : wait_child[c] = "gone"

LEMMA WaitInvariant == Wait!Spec => []WaitInv
  <1> USE WaitAssumption DEF WaitInv, Wait!Children
  <1>0. IsFiniteSet(Wait!Children) /\ Cardinality(Wait!Children) = WaitN
    BY FS_Interval
  <1>1. Wait!Init => WaitInv
    <2> SUFFICES ASSUME Wait!Init PROVE WaitInv
      OBVIOUS
    <2>1. Wait!With("gone") = {}
      BY DEF Wait!Init, Wait!With
    <2>2. QED
      BY <2>1, FS_EmptySet, SMTT(30) DEF Wait!Init, Wait!TypeOK
  <1>2. WaitInv /\ [Wait!Next]_(Wait!vars) => WaitInv'
    <2> SUFFICES ASSUME WaitInv, [Wait!Next]_(Wait!vars) PROVE WaitInv'
      OBVIOUS
    <2> USE DEF Wait!TypeOK
    <2>0. ASSUME Wait!With("gone")' = Wait!With("gone")
          PROVE  Cardinality(Wait!With("gone"))' = Cardinality(Wait!With("gone"))
      BY <2>0
    <2>1. CASE Wait!Fork
      <3>1. Wait!With("gone")' = Wait!With("gone")
        BY <2>1 DEF Wait!Fork, Wait!With
      <3>2. Wait!TypeOK'
        BY <2>1 DEF Wait!Fork
      <3>3. QED
        BY <2>1, <3>1, <3>2, <2>0 DEF Wait!Fork
    <2>2. CASE Wait!Forked \/ Wait!Error
      <3>1. Wait!With("gone")' = Wait!With("gone")
        BY <2>2 DEF Wait!Forked, Wait!Error, Wait!With
      <3>2. QED
        BY <2>2, <3>1, <2>0 DEF Wait!Forked, Wait!Error
    <2>3. ASSUME NEW c \in Wait!Children, Wait!Reap(c) PROVE WaitInv'
      <3>1. ~wait_ignored /\ wait_child[c] = "zombie" /\ c \notin Wait!With("gone")
        BY <2>3 DEF Wait!Reap, Wait!With
      <3>2. Wait!With("gone")' = Wait!With("gone") \cup {c}
        BY <2>3 DEF Wait!Reap, Wait!With
      <3>3. Wait!With("gone") \in SUBSET Wait!Children
        BY DEF Wait!With
      <3>4. IsFiniteSet(Wait!With("gone"))
        BY <3>3, <1>0, FS_Subset
      <3>5. Cardinality(Wait!With("gone"))' = Cardinality(Wait!With("gone")) + 1
        BY <3>1, <3>2, <3>4, FS_AddElement
      <3>6. Wait!With("gone")' \in SUBSET Wait!Children
        BY <3>2, <3>3
      <3>7. Cardinality(Wait!With("gone"))' <= WaitN
        BY <3>6, <1>0, FS_Subset
      <3>8. Wait!TypeOK'
        BY <2>3, <3>1, <3>5, <3>7 DEF Wait!Reap
      <3>9. QED
        BY <2>3, <3>1, <3>5, <3>8 DEF Wait!Reap
    <2>4. CASE Wait!NoMoreChildren
      <3>1. Wait!With("gone")' = Wait!With("gone")
        BY <2>4 DEF Wait!NoMoreChildren, Wait!With
      <3>2. \A c \in Wait!Children : wait_child[c] = "gone"
        BY <2>4 DEF Wait!NoMoreChildren, Wait!With
      <3>3. QED
        BY <2>4, <3>1, <3>2, <2>0 DEF Wait!NoMoreChildren
    <2>5. ASSUME NEW c \in Wait!Children, Wait!End(c) PROVE WaitInv'
      <3>1. wait_mpc # "exited"
        BY <2>5 DEF Wait!End
      <3>2. ~wait_ignored => Wait!With("gone")' = Wait!With("gone")
        BY <2>5 DEF Wait!End, Wait!With
      <3>3. Wait!TypeOK'
        BY <2>5 DEF Wait!End
      <3>4. QED
        BY <2>5, <3>1, <3>2, <3>3, <2>0 DEF Wait!End
    <2>6. CASE UNCHANGED Wait!vars
      BY <2>6 DEF Wait!vars, Wait!With
    <2>7. QED
      BY <2>1, <2>2, <2>3, <2>4, <2>5, <2>6 DEF Wait!Next, Wait!MainStep, Wait!Ended
  <1>3. QED
    BY <1>1, <1>2, PTL DEF Wait!Spec

LEMMA WaitCounts == WaitInv => Wait!CountsDead
  <1> SUFFICES ASSUME WaitInv, wait_mpc = "exited", ~wait_ignored PROVE wait_num_dead = WaitN
    BY DEF Wait!CountsDead, WaitInv
  <1>1. Wait!With("gone") = 1 .. WaitN
    BY DEF WaitInv, Wait!With, Wait!Children
  <1>2. QED
    BY <1>1, FS_Interval, WaitAssumption DEF WaitInv

LEMMA WaitImplements == Wait!Spec => Wait!Implements
  <1> USE WaitAssumption DEF Wait!Children
  <1>1. Wait!Init => Wait!Abstract!Init
    BY DEF Wait!Init, Wait!Abstract!Init
  <1>2. WaitInv /\ [Wait!Next]_(Wait!vars) => [Wait!Abstract!Next]_(Wait!Abstract!vars)
    <2> SUFFICES ASSUME WaitInv, [Wait!Next]_(Wait!vars)
                 PROVE  [Wait!Abstract!Next]_(Wait!Abstract!vars)
      OBVIOUS
    <2> USE DEF WaitInv, Wait!TypeOK, Wait!Abstract!Next, Wait!Abstract!vars
    <2>1. CASE Wait!Fork
      <3>1. PICK c \in Wait!Children : c = wait_i
        BY <2>1 DEF Wait!Fork
      <3>2. wait_child[c] = "none" /\ wait_mpc = "fork"
        BY <2>1, <3>1 DEF Wait!Fork
      <3>3. wait_child' = [wait_child EXCEPT ![c] = "running"] /\ wait_mpc' = "fork"
        BY <2>1, <3>1 DEF Wait!Fork
      <3>4. Wait!Abstract!Start(c)
        BY <3>2, <3>3 DEF Wait!Abstract!Start
      <3>5. QED
        BY <3>4
    <2>2. CASE Wait!Forked
      BY <2>2 DEF Wait!Forked
    <2>3. ASSUME NEW c \in Wait!Children, Wait!Reap(c)
          PROVE  [Wait!Abstract!Next]_(Wait!Abstract!vars)
      BY <2>3 DEF Wait!Reap
    <2>4. CASE Wait!NoMoreChildren
      BY <2>4 DEF Wait!NoMoreChildren, Wait!With, Wait!Abstract!GoOn
    <2>5. CASE Wait!Error
      BY <2>5, FailingAssumption DEF Wait!Error, Calls, Wait!Abstract!GiveUp
    <2>6. ASSUME NEW c \in Wait!Children, Wait!End(c)
          PROVE  [Wait!Abstract!Next]_(Wait!Abstract!vars)
      BY <2>6 DEF Wait!End, Wait!Abstract!Finish
    <2>7. CASE UNCHANGED Wait!vars
      BY <2>7 DEF Wait!vars
    <2>8. QED
      BY <2>1, <2>2, <2>3, <2>4, <2>5, <2>6, <2>7 DEF Wait!Next, Wait!MainStep, Wait!Ended
  <1>3. QED
    BY <1>1, <1>2, WaitInvariant, PTL DEF Wait!Spec, Wait!Implements, Wait!Abstract!Spec
-------------------------------------------------------------------------------
(* child_status.cpp: a status that is kept for main is the encoding of what*)
(* happened to the child last.                                             *)

Codes == 0 .. 255
Signals == 1 .. 126

Events == [kind : {"exited"}, number : Codes]
          \cup [kind : {"killed", "dumped", "stopped"}, number : Signals]
          \cup [kind : {"continued"}, number : {0}]

Final == {"exited", "killed", "dumped"}

StatusInv == /\ status_cpc \in {"none", "started", "stopped", "ended"}
             /\ status_arg \in Args
             /\ status_mpc = "fork" => status_cpc = "none"
             /\ status_cpc = "none" => status_status = ChildStatus!None
             /\ status_status # ChildStatus!None =>
                  /\ status_last \in Events
                  /\ status_status = ChildStatus!Encode(status_last)
                  /\ status_last.kind \in Final <=> status_cpc = "ended"

LEMMA BytesOfAStatus ==
  ASSUME NEW n \in Codes
  PROVE  /\ (n * 256) % 128 = 0 /\ ((n * 256) \div 256) % 256 = n
         /\ (n * 256 + 127) % 128 = 127 /\ (n * 256 + 127) % 256 = 127
         /\ ((n * 256 + 127) \div 256) % 256 = n
         /\ n \in Signals => /\ n % 128 = n /\ (n \div 128) % 2 = 0
                              /\ (n + 128) % 128 = n /\ ((n + 128) \div 128) % 2 = 1
  <1>1. (n * 256) % 128 = 0 /\ ((n * 256) \div 256) % 256 = n
    BY SMT DEF Codes
  <1>2. (n * 256 + 127) % 128 = 127
    BY SMT DEF Codes
  <1>3. (n * 256 + 127) % 256 = 127
    BY SMT DEF Codes
  <1>4. ((n * 256 + 127) \div 256) % 256 = n
    BY SMT DEF Codes
  <1>5. ASSUME n \in Signals PROVE n % 128 = n /\ n \div 128 = 0
    BY <1>5, SMT DEF Signals
  <1>6. ASSUME n \in Signals PROVE (n + 128) % 128 = n
    BY <1>6, SMT DEF Signals
  <1>7. ASSUME n \in Signals PROVE (n + 128) \div 128 = 1
    BY <1>7, SMT DEF Signals
  <1>8. QED
    BY <1>1, <1>2, <1>3, <1>4, <1>5, <1>6, <1>7, SMT

LEMMA InCodes == Signals \subseteq Codes
  BY SMT DEF Signals, Codes

LEMMA Codec ==
  ASSUME NEW e \in Events
  PROVE  /\ ChildStatus!PrintWaitStatus(ChildStatus!Encode(e)) = e
         /\ ChildStatus!WIFEXITED(ChildStatus!Encode(e)) \/ ChildStatus!WIFSIGNALED(ChildStatus!Encode(e))
              <=> e.kind \in Final
  <1> DEFINE s == ChildStatus!Encode(e)
  <1> HIDE DEF s
  <1> SUFFICES /\ ChildStatus!PrintWaitStatus(s) = e
               /\ ChildStatus!WIFEXITED(s) \/ ChildStatus!WIFSIGNALED(s) <=> e.kind \in Final
    BY Zenon DEF s
  <1>1. CASE e \in [kind : {"exited"}, number : Codes]
    <2>1. PICK n \in Codes : e = [kind |-> "exited", number |-> n]
      BY <1>1
    <2>2. s = n * 256
      BY <2>1, SMT DEF ChildStatus!Encode, s
    <2>3. ChildStatus!WIFEXITED(s) /\ ChildStatus!HighByte(s) = n
      BY <2>2, BytesOfAStatus, InCodes, SMT DEF ChildStatus!WIFEXITED, ChildStatus!WIFSIGNALED,
                                      ChildStatus!WIFSTOPPED, ChildStatus!WCOREDUMP,
                                      ChildStatus!Low7, ChildStatus!HighByte
    <2>4. ChildStatus!PrintWaitStatus(s) = e
      BY ONLY <2>1, <2>3 DEF ChildStatus!PrintWaitStatus, ChildStatus!Exited
    <2>5. e.kind \in Final
      BY <2>1 DEF Final
    <2>6. QED
      BY <2>3, <2>4, <2>5
  <1>2. CASE e \in [kind : {"killed"}, number : Signals]
    <2>1. PICK n \in Signals : e = [kind |-> "killed", number |-> n]
      BY <1>2
    <2>2. s = n
      BY <2>1, SMT DEF ChildStatus!Encode, s
    <2>3. /\ ~ChildStatus!WIFEXITED(s) /\ ChildStatus!WIFSIGNALED(s)
          /\ ChildStatus!Low7(s) = n /\ ~ChildStatus!WCOREDUMP(s)
      <3>1. n % 128 = n /\ (n \div 128) % 2 = 0
        BY BytesOfAStatus, InCodes, SMT
      <3>2. n \in 1 .. 126
        BY SMT DEF Signals
      <3>3. QED
        BY <2>2, <3>1, <3>2, SMT
           DEF ChildStatus!WIFEXITED, ChildStatus!WIFSIGNALED, ChildStatus!WCOREDUMP,
               ChildStatus!Low7
    <2>4. ChildStatus!PrintWaitStatus(s) = e
      BY ONLY <2>1, <2>3 DEF ChildStatus!PrintWaitStatus, ChildStatus!Killed
    <2>5. e.kind \in Final
      BY <2>1 DEF Final
    <2>6. QED
      BY <2>3, <2>4, <2>5
  <1>3. CASE e \in [kind : {"dumped"}, number : Signals]
    <2>1. PICK n \in Signals : e = [kind |-> "dumped", number |-> n]
      BY <1>3
    <2>2. s = n + 128
      BY <2>1, SMT DEF ChildStatus!Encode, s
    <2>3. /\ ~ChildStatus!WIFEXITED(s) /\ ChildStatus!WIFSIGNALED(s)
          /\ ChildStatus!Low7(s) = n /\ ChildStatus!WCOREDUMP(s)
      <3>1. (n + 128) % 128 = n /\ ((n + 128) \div 128) % 2 = 1
        BY BytesOfAStatus, InCodes, SMT
      <3>2. n \in 1 .. 126
        BY SMT DEF Signals
      <3>3. QED
        BY <2>2, <3>1, <3>2, SMT
           DEF ChildStatus!WIFEXITED, ChildStatus!WIFSIGNALED, ChildStatus!WCOREDUMP,
               ChildStatus!Low7
    <2>4. ChildStatus!PrintWaitStatus(s) = e
      BY ONLY <2>1, <2>3 DEF ChildStatus!PrintWaitStatus, ChildStatus!Killed
    <2>5. e.kind \in Final
      BY <2>1 DEF Final
    <2>6. QED
      BY <2>3, <2>4, <2>5
  <1>4. CASE e \in [kind : {"stopped"}, number : Signals]
    <2>1. PICK n \in Signals : e = [kind |-> "stopped", number |-> n]
      BY <1>4
    <2>2. s = n * 256 + 127
      BY <2>1, SMT DEF ChildStatus!Encode, s
    <2>3. /\ ~ChildStatus!WIFEXITED(s) /\ ~ChildStatus!WIFSIGNALED(s) /\ ChildStatus!WIFSTOPPED(s)
          /\ ChildStatus!HighByte(s) = n
      BY <2>2, BytesOfAStatus, InCodes, SMT DEF ChildStatus!WIFEXITED, ChildStatus!WIFSIGNALED,
                                      ChildStatus!WIFSTOPPED, ChildStatus!WCOREDUMP,
                                      ChildStatus!Low7, ChildStatus!HighByte
    <2>4. ChildStatus!PrintWaitStatus(s) = e
      BY ONLY <2>1, <2>3 DEF ChildStatus!PrintWaitStatus, ChildStatus!Stopped
    <2>5. e.kind \notin Final
      BY <2>1 DEF Final
    <2>6. QED
      BY <2>3, <2>4, <2>5
  <1>5. CASE e \in [kind : {"continued"}, number : {0}]
    <2>1. e = [kind |-> "continued", number |-> 0]
      BY <1>5
    <2>2. s = 65535
      BY <2>1, SMT DEF ChildStatus!Encode, s
    <2>3. /\ ~ChildStatus!WIFEXITED(s) /\ ~ChildStatus!WIFSIGNALED(s) /\ ~ChildStatus!WIFSTOPPED(s)
      BY <2>2, SMT DEF ChildStatus!WIFEXITED, ChildStatus!WIFSIGNALED,
                                      ChildStatus!WIFSTOPPED, ChildStatus!WCOREDUMP,
                                      ChildStatus!Low7, ChildStatus!HighByte
    <2>4. ChildStatus!PrintWaitStatus(s) = e
      BY ONLY <2>1, <2>3 DEF ChildStatus!PrintWaitStatus, ChildStatus!Continued
    <2>5. e.kind \notin Final
      BY <2>1 DEF Final
    <2>6. QED
      BY <2>3, <2>4, <2>5
  <1>6. QED
    BY <1>1, <1>2, <1>3, <1>4, <1>5, SMT DEF Events

LEMMA StatusInvariant == ChildStatus!Spec => []StatusInv
  <1> USE DEF StatusInv
  <1>1. ChildStatus!Init => StatusInv
    BY DEF ChildStatus!Init
  <1>2. StatusInv /\ [ChildStatus!Next]_(ChildStatus!vars) => StatusInv'
    <2> SUFFICES ASSUME StatusInv, [ChildStatus!Next]_(ChildStatus!vars) PROVE StatusInv'
      OBVIOUS
    <2>1. ASSUME NEW e \in Events, NEW state \in {"started", "stopped", "ended"},
                 e.kind \in Final <=> state = "ended", status_cpc # "none",
                 ChildStatus!Happens(e, state)
          PROVE  StatusInv'
      <3>1. ChildStatus!Encode(status_last)' = ChildStatus!Encode(e)
        BY <2>1, SMT DEF ChildStatus!Happens, ChildStatus!Encode
      <3>2. QED
        BY <2>1, <3>1 DEF ChildStatus!Happens
    <2>2. CASE ChildStatus!Fork
      BY <2>2 DEF ChildStatus!Fork, ChildStatus!None
    <2>3. CASE ChildStatus!Report
      BY <2>3 DEF ChildStatus!Report
    <2>4. CASE ChildStatus!NoChild \/ ChildStatus!Error
      BY <2>4 DEF ChildStatus!NoChild, ChildStatus!Error
    <2>5. CASE ChildStatus!Exit
      <3>1. status_arg % 256 \in Codes
        BY ChildStatusAssumption, SMT DEF Codes
      <3>2. ChildStatus!Exited(status_arg % 256) \in Events
        BY <3>1 DEF ChildStatus!Exited, Events
      <3>3. QED
        BY <2>1, <2>5, <3>2 DEF ChildStatus!Exit, ChildStatus!Exited, Final
    <2>6. CASE ChildStatus!Kill
      <3>1. PICK sig \in KillSignals, core \in BOOLEAN :
              ChildStatus!Happens(ChildStatus!Killed(sig, core), "ended")
        BY <2>6 DEF ChildStatus!Kill
      <3>2. ChildStatus!Killed(sig, core) \in Events
        BY ChildStatusAssumption DEF ChildStatus!Killed, Events, Signals
      <3>3. ChildStatus!Killed(sig, core).kind \in Final
        BY DEF ChildStatus!Killed, Final
      <3>4. QED
        BY <2>1, <2>6, <3>1, <3>2, <3>3 DEF ChildStatus!Kill
    <2>7. CASE ChildStatus!Stop
      <3>1. PICK sig \in StopSignals : ChildStatus!Happens(ChildStatus!Stopped(sig), "stopped")
        BY <2>7 DEF ChildStatus!Stop
      <3>2. ChildStatus!Stopped(sig) \in Events
        BY ChildStatusAssumption DEF ChildStatus!Stopped, Events, Signals
      <3>3. ChildStatus!Stopped(sig).kind \notin Final
        BY DEF ChildStatus!Stopped, Final
      <3>4. QED
        BY <2>1, <2>7, <3>1, <3>2, <3>3 DEF ChildStatus!Stop
    <2>8. CASE ChildStatus!Continue
      <3>1. ChildStatus!Continued \in Events /\ ChildStatus!Continued.kind \notin Final
        BY DEF ChildStatus!Continued, Events, Final
      <3>2. QED
        BY <2>1, <2>8, <3>1 DEF ChildStatus!Continue
    <2>9. CASE UNCHANGED ChildStatus!vars
      BY <2>9 DEF ChildStatus!vars
    <2>10. QED
      BY <2>2, <2>3, <2>4, <2>5, <2>6, <2>7, <2>8, <2>9
         DEF ChildStatus!Next, ChildStatus!MainStep, ChildStatus!Ended
  <1>3. QED
    BY <1>1, <1>2, PTL DEF ChildStatus!Spec

(* child_status.cpp prints what happened to its child last, whatever was   *)
(* not reported before it, and leaves after the report of its end alone.   *)
THEOREM ReportsTheLast == Spec => Reports
  <1> DEFINE Right == ChildStatus!Report => /\ status_printed' = status_last
                                            /\ status_mpc' = "exited" <=> status_cpc = "ended"
  <1>1. StatusInv => Right
    BY Codec DEF StatusInv, ChildStatus!Report
  <1>2. QED
    BY <1>1, Separation, StatusInvariant, PTL DEF Reports, ChildStatus!Reports
-------------------------------------------------------------------------------
(* process.cpp: the parent has a signal pending, or leaves sigsuspend, only*)
(* after its child has sent one or somebody else has.                      *)

Signalled == process_sent = "parent" \/ process_stray

(* Where the two processes are when they are.                              *)
ProcessAt == /\ process_mpc \in {"block", "sigaction", "fork"} => process_cpc = "none"
             /\ process_mpc \in {"register", "sigsuspend", "restore"} => process_cpc # "none"
             /\ process_cpc \in {"none", "register", "getppid", "kill"} => process_sent = "no"
             /\ process_cpc = "kill" => process_target # "none"
             /\ process_target = "reaper" => Process!Dead

(* Where a signal must have come from.                                     *)
ProcessSignals == /\ process_pending => Signalled
                  /\ process_mpc = "restore" => Signalled
                  /\ process_mpc \in {"return", "exited"} /\ process_cpc # "none" => Signalled
                  /\ process_mpc # "killed" => process_sent \in {"no", "parent"} \/ process_stray

(* What has become of the exit functions.                                  *)
ProcessExit ==
  LET reg == process_registered["parent"]
      out == process_output["parent"]
  IN  /\ process_output["child"] = <<>>
      /\ process_cpc = "none" => reg = <<>>
      /\ Len(out) <= Len(reg)
      /\ \A j \in 1 .. Len(out) : out[j] = reg[Len(reg) + 1 - j]
      /\ process_mpc \notin {"return", "exited", "killed"} => out = <<>>
      /\ process_mpc = "exited" => Len(out) = Len(reg)
      /\ out # <<>> => Signalled

ProcessInv == Process!TypeOK /\ ProcessAt /\ ProcessSignals /\ ProcessExit

LEMMA ProcessBegins == Process!Init => ProcessInv
  <1> SUFFICES ASSUME Process!Init PROVE ProcessInv
    OBVIOUS
  <1>1. Process!TypeOK
    <2>1. [p \in {"parent", "child"} |-> <<>>] \in [{"parent", "child"} -> Seq(1 .. Len(Process!ExitFuncs))]
      OBVIOUS
    <2>2. {process_blocked, process_origin_mask, process_caught, process_pending, process_stray}
            \subseteq BOOLEAN
      BY Zenon DEF Process!Init
    <2>3. QED
      BY <2>1, <2>2 DEF Process!Init, Process!TypeOK
  <1>2. ProcessAt /\ ProcessSignals
    BY DEF Process!Init, ProcessAt, ProcessSignals
  <1>3. ProcessExit
    BY DEF Process!Init, ProcessExit
  <1>4. QED
    BY <1>1, <1>2, <1>3 DEF ProcessInv

LEMMA ProcessStep == ProcessInv /\ [Process!Next]_(Process!vars) => ProcessInv'
  <1> SUFFICES ASSUME ProcessInv, [Process!Next]_(Process!vars) PROVE ProcessInv'
    OBVIOUS
  <1> USE DEF Process!mask, Process!exit, Process!signal, Process!Dead
  <1>1. CASE Process!SigProcMask \/ Process!SigAction \/ Process!Fork
    <2>1. UNCHANGED <<process_registered, process_output>>
      BY <1>1 DEF Process!SigProcMask, Process!SigAction, Process!Fork
    <2>2. Process!TypeOK'
      BY <1>1 DEF Process!SigProcMask, Process!SigAction, Process!Fork, ProcessInv, Process!TypeOK
    <2>3. ProcessAt' /\ ProcessSignals'
      <3>1. CASE Process!SigProcMask
        BY <3>1 DEF Process!SigProcMask, ProcessInv, ProcessAt, ProcessSignals, Signalled
      <3>2. CASE Process!SigAction
        BY <3>2 DEF Process!SigAction, ProcessInv, ProcessAt, ProcessSignals, Signalled
      <3>3. CASE Process!Fork
        BY <3>3 DEF Process!Fork, ProcessInv, ProcessAt, ProcessSignals, Signalled
      <3>4. QED
        BY <1>1, <3>1, <3>2, <3>3
    <2>4. ProcessExit'
      BY <1>1, <2>1 DEF Process!SigProcMask, Process!SigAction, Process!Fork, ProcessInv,
                        ProcessAt, ProcessExit, Signalled
    <2>5. QED
      BY <2>2, <2>3, <2>4 DEF ProcessInv
  <1>2. ASSUME NEW p \in {"parent", "child"}, Process!RegisterExitFunc(p)
        PROVE  /\ process_registered' \in [{"parent", "child"} -> Seq(1 .. 4)]
               /\ process_output' = process_output
               /\ p = "child" => process_registered'["parent"] = process_registered["parent"]
    <2>1. Len(Process!ExitFuncs) = 4
      BY DEF Process!ExitFuncs
    <2>2. PICK k \in 0 .. 4 :
            process_registered' = [process_registered EXCEPT ![p] = [j \in 1 .. k |-> j]]
      BY <1>2, <2>1 DEF Process!RegisterExitFunc
    <2>3. [j \in 1 .. k |-> j] \in Seq(1 .. 4)
      OBVIOUS
    <2>4. process_registered \in [{"parent", "child"} -> Seq(1 .. 4)]
      BY <2>1 DEF ProcessInv, Process!TypeOK
    <2>5. QED
      BY <1>2, <2>2, <2>3, <2>4 DEF Process!RegisterExitFunc
  <1>3. CASE Process!Register
    <2>1. Len(Process!ExitFuncs) = 4
      BY DEF Process!ExitFuncs
    <2>2. Process!TypeOK'
      BY <1>2, <1>3, <2>1 DEF Process!Register, ProcessInv, Process!TypeOK
    <2>3. ProcessAt' /\ ProcessSignals'
      BY <1>3 DEF Process!Register, ProcessInv, Process!TypeOK, ProcessAt, ProcessSignals, Signalled
    <2>4. ProcessExit'
      <3>1. process_output' = process_output /\ process_output["parent"] = <<>>
        BY <1>2, <1>3 DEF Process!Register, ProcessInv, ProcessExit
      <3>2. Len(process_registered'["parent"]) \in Nat
        BY <1>2, <1>3 DEF Process!Register
      <3>3. QED
        BY <1>3, <3>1, <3>2 DEF Process!Register, ProcessInv, ProcessAt, ProcessExit, Signalled
    <2>5. QED
      BY <2>2, <2>3, <2>4 DEF ProcessInv
  <1>4. CASE Process!SigSuspend \/ Process!Restore \/ Process!Error \/ Process!KillParent
               \/ Process!KillChild \/ Process!GetPpid
    <2>1. UNCHANGED <<process_registered, process_output>>
      BY <1>4 DEF Process!SigSuspend, Process!Restore, Process!Error, Process!KillParent,
                  Process!KillChild, Process!GetPpid
    <2>2. Process!TypeOK'
      BY <1>4 DEF Process!SigSuspend, Process!Restore, Process!Error, Process!KillParent,
                  Process!KillChild, Process!GetPpid, ProcessInv, Process!TypeOK
    <2>3. ProcessAt'
      BY <1>4 DEF Process!SigSuspend, Process!Restore, Process!Error, Process!KillParent,
                  Process!KillChild, Process!GetPpid, ProcessInv, Process!TypeOK, ProcessAt
    <2>4. ProcessSignals'
      BY <1>4 DEF Process!SigSuspend, Process!Restore, Process!Error, Process!KillParent,
                  Process!KillChild, Process!GetPpid, ProcessInv, Process!TypeOK, ProcessAt,
                  ProcessSignals, Signalled
    <2>5. ProcessExit'
      BY <1>4, <2>1 DEF Process!SigSuspend, Process!Restore, Process!Error, Process!KillParent,
                  Process!KillChild, Process!GetPpid, ProcessInv, ProcessAt, ProcessExit, Signalled
    <2>6. QED
      BY <2>2, <2>3, <2>4, <2>5 DEF ProcessInv
  <1>5. CASE Process!RunExitFunc
    <2> DEFINE reg == process_registered["parent"]
               out == process_output["parent"]
               left == Len(reg) - Len(out)
    <2>1. /\ left > 0 /\ process_mpc = "return"
          /\ process_output' = [process_output EXCEPT !["parent"] = Append(out, reg[left])]
          /\ UNCHANGED <<process_mpc, process_cpc, process_blocked, process_origin_mask,
                         process_caught, process_pending, process_registered, process_target,
                         process_sent, process_stray>>
      BY <1>5 DEF Process!RunExitFunc
    <2>2. reg \in Seq(1 .. 4) /\ out \in Seq(1 .. 4)
      BY DEF ProcessInv, Process!TypeOK, Process!ExitFuncs
    <2>3. left \in 1 .. Len(reg) /\ reg[left] \in 1 .. 4
      <3>1. Len(reg) \in Nat /\ Len(out) \in Nat
        BY <2>2
      <3>2. \A m, n \in Nat : n - m > 0 => n - m \in 1 .. n
        OBVIOUS
      <3>3. left \in 1 .. Len(reg)
        BY ONLY <2>1, <3>1, <3>2
      <3>4. QED
        BY <2>2, <3>3, ElementOfSeq
    <2>4. /\ Append(out, reg[left]) \in Seq(1 .. 4)
          /\ Len(Append(out, reg[left])) = Len(out) + 1
          /\ \A j \in 1 .. Len(out) + 1 :
               Append(out, reg[left])[j] = IF j = Len(out) + 1 THEN reg[left] ELSE out[j]
      BY <2>2, <2>3
    <2>5. /\ process_output'["parent"] = Append(out, reg[left])
          /\ process_output'["child"] = process_output["child"]
      BY <2>1 DEF ProcessInv, Process!TypeOK
    <2>6. Process!TypeOK'
      BY <2>1, <2>4 DEF ProcessInv, Process!TypeOK, Process!ExitFuncs
    <2>7. ProcessAt' /\ ProcessSignals'
      BY <2>1 DEF ProcessInv, ProcessAt, ProcessSignals, Signalled
    <2>8. process_cpc # "none" /\ Signalled
      <3>1. reg # <<>>
        BY <2>2, <2>3
      <3>2. QED
        BY <2>1, <3>1 DEF ProcessInv, ProcessExit, ProcessSignals
    <2>9. \A j \in 1 .. Len(out) + 1 : Append(out, reg[left])[j] = reg[Len(reg) + 1 - j]
      <3>1. \A j \in 1 .. Len(out) : out[j] = reg[Len(reg) + 1 - j]
        BY DEF ProcessInv, ProcessExit
      <3>2. Len(reg) + 1 - (Len(out) + 1) = left
        <4>1. Len(reg) \in Nat /\ Len(out) \in Nat
          BY <2>2
        <4>2. \A m, n \in Nat : n + 1 - (m + 1) = n - m
          OBVIOUS
        <4>3. QED
          BY ONLY <4>1, <4>2
      <3>3. QED
        BY <2>2, <2>4, <3>1, <3>2
    <2>10. Len(process_output'["parent"]) <= Len(reg)
      BY <2>2, <2>3, <2>4, <2>5
    <2>11. ProcessExit'
      BY <2>1, <2>4, <2>5, <2>8, <2>9, <2>10 DEF ProcessInv, ProcessExit, Signalled
    <2>12. QED
      BY <2>6, <2>7, <2>11 DEF ProcessInv
  <1>6. CASE Process!Exit
    BY <1>6 DEF Process!Exit, ProcessInv, Process!TypeOK, ProcessAt, ProcessSignals, ProcessExit,
                Signalled
  <1>7. CASE Process!ChildRegister
    <2>1. Len(Process!ExitFuncs) = 4
      BY DEF Process!ExitFuncs
    <2>2. Process!TypeOK'
      BY <1>2, <1>7, <2>1 DEF Process!ChildRegister, ProcessInv, Process!TypeOK
    <2>3. ProcessAt' /\ ProcessSignals'
      BY <1>7 DEF Process!ChildRegister, ProcessInv, ProcessAt, ProcessSignals, Signalled
    <2>4. process_output' = process_output /\ process_registered'["parent"] = process_registered["parent"]
      BY <1>2, <1>7 DEF Process!ChildRegister
    <2>5. ProcessExit'
      BY <1>7, <2>4 DEF Process!ChildRegister, ProcessInv, ProcessExit, Signalled
    <2>6. QED
      BY <2>2, <2>3, <2>5 DEF ProcessInv
  <1>8. CASE Process!Kill
    <2>1. Process!TypeOK'
      BY <1>8 DEF Process!Kill, Process!Signal, ProcessInv, Process!TypeOK
    <2>2. ProcessAt' /\ ProcessSignals'
      <3>1. CASE process_target = "parent" /\ ~Process!Dead
        BY <1>8, <3>1 DEF Process!Kill, Process!Signal, ProcessInv, ProcessAt, ProcessSignals,
                          Signalled
      <3>2. CASE ~(process_target = "parent" /\ ~Process!Dead)
        BY <1>8, <3>2 DEF Process!Kill, ProcessInv, Process!TypeOK, ProcessAt, ProcessSignals,
                          Signalled
      <3>3. QED
        BY <3>1, <3>2
    <2>3. ProcessExit'
      BY <1>8 DEF Process!Kill, Process!Signal, ProcessInv, Process!TypeOK, ProcessAt,
                  ProcessSignals, ProcessExit, Signalled
    <2>4. QED
      BY <2>1, <2>2, <2>3 DEF ProcessInv
  <1>9. CASE Process!Stray
    <2>1. Process!TypeOK'
      BY <1>9 DEF Process!Stray, Process!Signal, ProcessInv, Process!TypeOK
    <2>2. ProcessAt' /\ ProcessSignals'
      BY <1>9 DEF Process!Stray, Process!Signal, ProcessInv, Process!TypeOK, ProcessAt,
                  ProcessSignals, Signalled
    <2>3. ProcessExit'
      BY <1>9 DEF Process!Stray, Process!Signal, ProcessInv, ProcessAt, ProcessExit, Signalled
    <2>4. QED
      BY <2>1, <2>2, <2>3 DEF ProcessInv
  <1>10. CASE UNCHANGED Process!vars
    BY <1>10 DEF Process!vars, ProcessInv, Process!TypeOK, ProcessAt, ProcessSignals, ProcessExit,
                 Signalled
  <1>11. QED
    BY <1>1, <1>3, <1>4, <1>5, <1>6, <1>7, <1>8, <1>9, <1>10
       DEF Process!Next, Process!MainStep, Process!ChildStep, Process!Ended

LEMMA ProcessInvariant == Process!Spec => []ProcessInv
  BY ProcessBegins, ProcessStep, PTL DEF Process!Spec

(* process.cpp: if nobody interferes, the parent goes on only after its    *)
(* child's signal, and the signal reaches the parent.                      *)
THEOREM SignalIsTheChilds == Spec => []Handshake
  <1>1. ProcessInv => Handshake
    BY DEF ProcessInv, ProcessSignals, Signalled, Handshake, Process!Handshake
  <1>2. QED
    BY <1>1, Separation, ProcessInvariant, PTL

(* process.cpp runs the exit functions of the parent alone, the last one   *)
(* first, and none before the signal.                                      *)
THEOREM ExitInReverse == Spec => []ExitHandlers
  <1>1. ProcessInv => ExitHandlers
    <2> SUFFICES ASSUME ProcessInv PROVE ExitHandlers
      OBVIOUS
    <2> DEFINE reg == process_registered["parent"]
               out == process_output["parent"]
    <2>1. reg \in Seq(1 .. 4) /\ out \in Seq(1 .. 4)
      BY DEF ProcessInv, Process!TypeOK, Process!ExitFuncs
    <2>2. Len(out) <= Len(reg) /\ \A j \in 1 .. Len(out) : out[j] = reg[Len(reg) + 1 - j]
      BY DEF ProcessInv, ProcessExit
    <2>3. /\ Len(Process!Reverse(reg)) = Len(reg)
          /\ \A j \in 1 .. Len(reg) : Process!Reverse(reg)[j] = reg[(Len(reg) - j) + 1]
      BY <2>1 DEF Process!Reverse
    <2>4. SubSeq(out, 1, Len(out)) = SubSeq(Process!Reverse(reg), 1, Len(out))
      BY <2>1, <2>2, <2>3
    <2>5. Process!IsPrefix(out, Process!Reverse(reg))
      BY <2>2, <2>3, <2>4 DEF Process!IsPrefix
    <2>6. QED
      BY <2>5 DEF ProcessInv, ProcessExit, Signalled, ExitHandlers, Process!ExitHandlers
  <1>2. QED
    BY <1>1, Separation, ProcessInvariant, PTL
-------------------------------------------------------------------------------
(* posix_shm: the object only grows in what it holds, and each process is  *)
(* where its program can be.                                               *)

AtOpen == {p \in Creators : shm_pc[p] = "shm_open"}

ShmCount == shm_made + Cardinality(AtOpen) <= Cardinality(Creators)

(* An object that has been created or written has a size, and one that has *)
(* been written holds the data.                                            *)
ShmObjects == \A o \in PosixShm!Objects :
                /\ shm_done[o] # {} => shm_size[o] > 0
                /\ "write" \in shm_done[o] => shm_bytes[o] = 1 .. len

ShmRole(p) == /\ p \in Creators => shm_pc[p] \in {"shm_open", "ftruncate", "mmap", "exited", "failed"}
              /\ p \in Writers => shm_pc[p] \in {"shm_open", "ftruncate", "mmap", "close", "memcpy",
                                                 "exited", "failed"}
              /\ p \in Readers => shm_pc[p] \in {"shm_open", "fstat", "mmap", "close", "printf",
                                                 "exited", "failed"}
              /\ p \in Unlinkers => shm_pc[p] \in {"shm_unlink", "exited", "failed"}

ShmView(p) == LET o == shm_obj[p]
              IN  /\ shm_pc[p] \in {"ftruncate", "fstat", "mmap", "close", "memcpy", "printf"}
                       => o \in PosixShm!Objects
                  /\ shm_pc[p] \in {"shm_open", "ftruncate", "fstat"} => shm_mapped[p] = 0
                  /\ shm_pc[p] \in {"close", "memcpy", "printf"} => shm_mapped[p] > 0
                  /\ shm_mapped[p] > 0 => o \in PosixShm!Objects /\ shm_size[o] > 0
                  /\ shm_pc[p] = "memcpy" => (1 .. len) \ shm_left[p] \subseteq shm_bytes[o]
                  /\ shm_before[p] # {} => o \in PosixShm!Objects /\ shm_before[p] \subseteq shm_done[o]

ShmRead(p) == p \in Readers =>
                /\ shm_pc[p] = "exited" /\ "write" \in shm_before[p] => shm_at[p] = len
                /\ shm_pc[p] = "mmap" /\ shm_before[p] # {} => shm_mapped[p] > 0

ShmProcess(p) == ShmRole(p) /\ ShmView(p) /\ ShmRead(p)

ShmInv == /\ PosixShm!TypeOK
          /\ ShmCount
          /\ ShmObjects
          /\ \A p \in PosixShm!Procs : ShmProcess(p)

ShmGrows == \A o \in PosixShm!Objects : /\ shm_size[o] > 0 => shm_size'[o] > 0
                                        /\ shm_bytes[o] \subseteq shm_bytes'[o]
                                        /\ shm_done[o] \subseteq shm_done'[o]

ShmOnly(p) == \A q \in PosixShm!Procs \ {p} :
                /\ shm_pc'[q] = shm_pc[q] /\ shm_obj'[q] = shm_obj[q] /\ shm_mapped'[q] = shm_mapped[q]
                /\ shm_at'[q] = shm_at[q] /\ shm_left'[q] = shm_left[q]
                /\ shm_before'[q] = shm_before[q]

LEMMA SameCardinality == ASSUME NEW S PROVE PosixShm!Cardinality(S) = Cardinality(S)
  BY DEF PosixShm!Cardinality, Cardinality

LEMMA ObjectPerCreator ==
  IsFiniteSet(Creators) => Cardinality(PosixShm!Objects) = Cardinality(Creators)
  <1>1. \A n \in Nat : Cardinality(1 .. n) = n
    <2> TAKE n \in Nat
    <2>1. Cardinality(1 .. n) = IF 1 > n THEN 0 ELSE n - 1 + 1
      BY FS_Interval
    <2>2. QED
      BY <2>1
  <1>2. IsFiniteSet(Creators) => Cardinality(Creators) \in Nat
    BY FS_CardinalityType
  <1>3. QED
    BY <1>1, <1>2, SameCardinality DEF PosixShm!Objects

LEMMA ShmBegins == PosixShm!Init => ShmInv
  <1> SUFFICES ASSUME PosixShm!Init PROVE ShmInv
    OBVIOUS
  <1>1. IsFiniteSet(Creators) /\ Cardinality(Creators) \in Nat
    BY ShmAssumption, FS_CardinalityType
  <1>2. Cardinality(PosixShm!Objects) = Cardinality(Creators)
    BY ShmAssumption, ObjectPerCreator
  <1>3. PosixShm!TypeOK
    <2>1. shm_pc \in [PosixShm!Procs -> PosixShm!Calls \cup {"memcpy", "printf", "exited", "failed",
                                                           "faulted"}]
      BY DEF PosixShm!Init, PosixShm!Calls
    <2>2. shm_made \in 0 .. Cardinality(PosixShm!Objects)
      BY <1>1, <1>2 DEF PosixShm!Init
    <2>3. shm_size \in [PosixShm!Objects -> {0, len, CreateSize}]
          /\ shm_bytes \in [PosixShm!Objects -> SUBSET (1 .. len)]
          /\ shm_done \in [PosixShm!Objects -> SUBSET {"create", "write"}]
      BY DEF PosixShm!Init
    <2>4. 0 \in 0 .. len
      BY ShmAssumption
    <2>5. /\ shm_mapped \in [PosixShm!Procs -> {0, len, CreateSize}]
          /\ shm_at \in [PosixShm!Procs -> 0 .. len]
          /\ shm_left \in [PosixShm!Procs -> SUBSET (1 .. len)]
          /\ shm_before \in [PosixShm!Procs -> SUBSET {"create", "write"}]
      BY <2>4 DEF PosixShm!Init
    <2>6. /\ shm_name \in PosixShm!Objects \cup {PosixShm!None}
          /\ shm_obj \in [PosixShm!Procs -> PosixShm!Objects \cup {PosixShm!None}]
      BY DEF PosixShm!Init
    <2>7. QED
      BY <2>1, <2>2, <2>3, <2>5, <2>6, SameCardinality DEF PosixShm!TypeOK
  <1>4. ShmCount
    <2>1. AtOpen \in SUBSET Creators
      BY DEF AtOpen
    <2>2. Cardinality(AtOpen) <= Cardinality(Creators) /\ Cardinality(AtOpen) \in Nat
      BY <1>1, <2>1, FS_Subset, FS_CardinalityType
    <2>3. QED
      BY <1>1, <2>2 DEF PosixShm!Init, ShmCount
  <1>5. ShmObjects
    BY DEF PosixShm!Init, ShmObjects
  <1>6. ASSUME NEW p \in PosixShm!Procs PROVE ShmProcess(p)
    BY ShmAssumption DEF PosixShm!Init, ShmProcess, ShmRole, ShmView, ShmRead
  <1>7. QED
    BY <1>3, <1>4, <1>5, <1>6 DEF ShmInv

(* What one process does leaves the others where they are.                 *)
LEMMA ShmFrame ==
  ASSUME ShmInv, PosixShm!TypeOK', NEW p \in PosixShm!Procs, ShmGrows, ShmOnly(p), ShmProcess(p)'
  PROVE  \A q \in PosixShm!Procs : ShmProcess(q)'
  <1> SUFFICES ASSUME NEW q \in PosixShm!Procs, q # p PROVE ShmProcess(q)'
    OBVIOUS
  <1>1. ShmProcess(q)
    BY DEF ShmInv
  <1>2. /\ shm_pc'[q] = shm_pc[q] /\ shm_obj'[q] = shm_obj[q] /\ shm_mapped'[q] = shm_mapped[q]
        /\ shm_at'[q] = shm_at[q] /\ shm_left'[q] = shm_left[q] /\ shm_before'[q] = shm_before[q]
    BY DEF ShmOnly
  <1>3. ShmRole(q)' /\ ShmRead(q)'
    BY <1>1, <1>2 DEF ShmProcess, ShmRole, ShmRead
  <1>4. ShmView(q)'
    <2>1. shm_pc[q] = "memcpy" => shm_obj[q] \in PosixShm!Objects
      BY <1>1 DEF ShmProcess, ShmView
    <2>2. QED
      BY <1>1, <1>2, <2>1 DEF ShmProcess, ShmView, ShmGrows, PosixShm!Objects
  <1>5. QED
    BY <1>3, <1>4 DEF ShmProcess

LEMMA ShmCounts ==
  ASSUME ShmInv, NEW p \in PosixShm!Procs, NEW x, x # "shm_open",
         shm_pc' = [shm_pc EXCEPT ![p] = x],
         \/ shm_made' = shm_made
         \/ p \in Creators /\ shm_pc[p] = "shm_open" /\ shm_made' = shm_made + 1
  PROVE  ShmCount' /\ shm_made' \in 0 .. Cardinality(PosixShm!Objects)
  <1>1. IsFiniteSet(Creators) /\ Cardinality(Creators) \in Nat
    BY ShmAssumption, FS_CardinalityType
  <1>2. Cardinality(PosixShm!Objects) = Cardinality(Creators)
    BY ShmAssumption, ObjectPerCreator
  <1>3. AtOpen' = AtOpen \ {p}
    BY DEF AtOpen, PosixShm!Procs, ShmInv, PosixShm!TypeOK
  <1>4. AtOpen \in SUBSET Creators
    BY DEF AtOpen
  <1>5. IsFiniteSet(AtOpen) /\ Cardinality(AtOpen) \in Nat
    BY <1>1, <1>4, FS_Subset, FS_CardinalityType
  <1>6. Cardinality(AtOpen \ {p}) = IF p \in AtOpen THEN Cardinality(AtOpen) - 1 ELSE Cardinality(AtOpen)
    BY <1>5, FS_RemoveElement
  <1>7. IsFiniteSet(AtOpen \ {p}) /\ Cardinality(AtOpen \ {p}) \in Nat
    BY <1>5, FS_RemoveElement, FS_CardinalityType
  <1>8. p \in Creators /\ shm_pc[p] = "shm_open" => p \in AtOpen
    BY DEF AtOpen
  <1>9. shm_made \in Nat /\ shm_made + Cardinality(AtOpen) <= Cardinality(Creators)
    BY SameCardinality DEF ShmInv, PosixShm!TypeOK, ShmCount
  <1>10. shm_made' \in Nat /\ shm_made' + Cardinality(AtOpen \ {p}) <= Cardinality(Creators)
    BY <1>5, <1>6, <1>7, <1>8, <1>9, <1>1
  <1>11. QED
    BY <1>1, <1>2, <1>3, <1>7, <1>10 DEF ShmCount

(* The data, and the byte after it, may be touched in an object of any size*)
(* but 0.                                                                  *)
LEMMA LastPage == ASSUME NEW n \in Nat, n > 0 PROVE len + 1 <= PosixShm!PageEnd(n)
  <1>1. Page \in Nat /\ len \in Nat /\ len < Page
    BY ShmAssumption
  <1>2. (n + Page - 1) \div Page >= 1 /\ (n + Page - 1) \div Page \in Nat
    BY <1>1
  <1>3. \A k \in Nat : k >= 1 => k * Page >= Page
    BY <1>1
  <1>4. QED
    BY <1>1, <1>2, <1>3 DEF PosixShm!PageEnd

LEMMA Touches ==
  ASSUME PosixShm!TypeOK, NEW p \in PosixShm!Procs, ShmView(p), shm_mapped[p] > 0,
         NEW b \in 1 .. len + 1
  PROVE  PosixShm!MayTouch(p, b)
  <1>1. /\ shm_mapped[p] \in Nat /\ shm_size[shm_obj[p]] \in Nat /\ shm_size[shm_obj[p]] > 0
    BY ShmAssumption DEF PosixShm!TypeOK, ShmView
  <1>2. len + 1 <= PosixShm!PageEnd(shm_mapped[p]) /\ len + 1 <= PosixShm!PageEnd(shm_size[shm_obj[p]])
    BY <1>1, LastPage
  <1>3. PosixShm!PageEnd(shm_mapped[p]) \in Nat /\ PosixShm!PageEnd(shm_size[shm_obj[p]]) \in Nat
    BY <1>1, ShmAssumption DEF PosixShm!PageEnd
  <1>4. QED
    BY <1>2, <1>3, ShmAssumption DEF PosixShm!MayTouch

(* One lemma for each kind of step: what p does keeps the invariant.       *)
LEMMA ShmPreserved ==
  ASSUME ShmInv, PosixShm!TypeOK', ShmCount', ShmObjects', NEW p \in PosixShm!Procs, ShmGrows,
         ShmOnly(p), ShmProcess(p)'
  PROVE  ShmInv'
  BY ShmFrame DEF ShmInv

LEMMA ShmOpens ==
  ASSUME ShmInv, NEW p \in PosixShm!Procs, PosixShm!Create(p) \/ PosixShm!OpenExisting(p)
  PROVE  ShmInv'
  <1> USE DEF PosixShm!Goto, PosixShm!Open, PosixShm!memory, PosixShm!progress, PosixShm!history,
              PosixShm!None
  <1>1. ShmProcess(p) /\ PosixShm!TypeOK /\ shm_pc[p] = "shm_open" /\ p \notin Unlinkers
    BY ShmAssumption DEF ShmInv, PosixShm!Create, PosixShm!OpenExisting
  <1>2. PICK x \in {"fstat", "ftruncate", "failed"} : shm_pc' = [shm_pc EXCEPT ![p] = x]
    BY DEF PosixShm!Create, PosixShm!OpenExisting
  <1>3. UNCHANGED <<shm_size, shm_bytes, shm_mapped, shm_at, shm_left, shm_done>>
    BY DEF PosixShm!Create, PosixShm!OpenExisting
  <1>4. ShmCount' /\ shm_made' \in 0 .. Cardinality(PosixShm!Objects)
    BY <1>1, <1>2, ShmCounts DEF PosixShm!Create, PosixShm!OpenExisting
  <1>5. shm_name' \in PosixShm!Objects \cup {0}
    <2>1. CASE shm_made' = shm_made + 1 /\ shm_name' = shm_made'
      <3>1. shm_made \in Nat
        BY <1>1 DEF PosixShm!TypeOK
      <3>2. Cardinality(PosixShm!Objects) = Cardinality(Creators) /\ Cardinality(Creators) \in Nat
        BY ShmAssumption, ObjectPerCreator, FS_CardinalityType
      <3>3. shm_made' \in 1 .. Cardinality(Creators)
        BY <2>1, <1>4, <3>1, <3>2
      <3>4. QED
        BY <2>1, <3>3, SameCardinality DEF PosixShm!Objects
    <2>2. CASE shm_name' = shm_name
      BY <1>1, <2>2 DEF PosixShm!TypeOK
    <2>3. QED
      BY <2>1, <2>2 DEF PosixShm!Create, PosixShm!OpenExisting
  <1>6. \/ /\ x = "failed" /\ UNCHANGED <<shm_obj, shm_before>>
        \/ /\ x = IF p \in Readers THEN "fstat" ELSE "ftruncate"
           /\ shm_name' \in PosixShm!Objects
           /\ shm_obj' = [shm_obj EXCEPT ![p] = shm_name']
           /\ shm_before' = [shm_before EXCEPT ![p] = IF p \in Readers THEN shm_done[shm_name'] ELSE {}]
    <2>1. shm_pc'[p] = x
      BY <1>1, <1>2 DEF PosixShm!TypeOK
    <2>2. CASE PosixShm!Create(p)
      <3>1. shm_name' # 0
        <4>1. shm_made \in Nat
          BY <1>1 DEF PosixShm!TypeOK
        <4>2. QED
          BY <4>1, <2>2 DEF PosixShm!Create
      <3>2. shm_pc' = [shm_pc EXCEPT ![p] = IF p \in Readers THEN "fstat" ELSE "ftruncate"]
        BY <2>2 DEF PosixShm!Create
      <3>3. x = IF p \in Readers THEN "fstat" ELSE "ftruncate"
        BY <2>1, <3>2, <1>1 DEF PosixShm!TypeOK
      <3>4. QED
        BY <2>2, <3>1, <3>3, <1>5 DEF PosixShm!Create
    <2>3. CASE PosixShm!OpenExisting(p) /\ shm_name = 0
      <3>1. shm_pc' = [shm_pc EXCEPT ![p] = "failed"]
        BY <2>3 DEF PosixShm!OpenExisting
      <3>2. x = "failed"
        BY <2>1, <3>1, <1>1 DEF PosixShm!TypeOK
      <3>3. QED
        BY <2>3, <3>2 DEF PosixShm!OpenExisting
    <2>4. CASE PosixShm!OpenExisting(p) /\ shm_name # 0
      <3>1. shm_pc' = [shm_pc EXCEPT ![p] = IF p \in Readers THEN "fstat" ELSE "ftruncate"]
        BY <2>4 DEF PosixShm!OpenExisting
      <3>2. x = IF p \in Readers THEN "fstat" ELSE "ftruncate"
        BY <2>1, <3>1, <1>1 DEF PosixShm!TypeOK
      <3>3. shm_name' = shm_name
        BY <2>4 DEF PosixShm!OpenExisting
      <3>4. QED
        BY <2>4, <3>2, <3>3, <1>5 DEF PosixShm!OpenExisting
    <2>5. QED
      BY <2>2, <2>3, <2>4
  <1>7. PosixShm!TypeOK'
    <2>1. shm_pc' \in [PosixShm!Procs -> PosixShm!Calls \cup {"memcpy", "printf", "exited", "failed",
                                                            "faulted"}]
      BY <1>1, <1>2 DEF PosixShm!TypeOK, PosixShm!Calls
    <2>2. shm_obj' \in [PosixShm!Procs -> PosixShm!Objects \cup {0}]
      BY <1>1, <1>6 DEF PosixShm!TypeOK
    <2>3. shm_before' \in [PosixShm!Procs -> SUBSET {"create", "write"}]
      BY <1>1, <1>6 DEF PosixShm!TypeOK
    <2>4. QED
      BY <1>1, <1>3, <1>4, <1>5, <2>1, <2>2, <2>3, SameCardinality DEF PosixShm!TypeOK
  <1>8. ShmObjects' /\ ShmGrows
    BY <1>3 DEF ShmInv, ShmObjects, ShmGrows, PosixShm!Objects
  <1>9. ShmOnly(p)
    BY <1>1, <1>2, <1>3, <1>6 DEF ShmOnly, PosixShm!TypeOK
  <1>10. /\ shm_pc'[p] = x
         /\ shm_mapped'[p] = 0 /\ shm_at'[p] = shm_at[p]
         /\ x # "failed" => /\ shm_obj'[p] \in PosixShm!Objects
                            /\ shm_before'[p] = IF p \in Readers THEN shm_done'[shm_obj'[p]] ELSE {}
         /\ x = "failed" => shm_obj'[p] = shm_obj[p] /\ shm_before'[p] = shm_before[p]
    <2>1. shm_pc'[p] = x
      BY <1>1, <1>2 DEF PosixShm!TypeOK
    <2>2. shm_mapped'[p] = 0 /\ shm_at'[p] = shm_at[p]
      BY <1>1, <1>3 DEF ShmProcess, ShmView
    <2>3. /\ x # "failed" => /\ shm_obj'[p] \in PosixShm!Objects
                             /\ shm_before'[p] = IF p \in Readers THEN shm_done'[shm_obj'[p]] ELSE {}
          /\ x = "failed" => shm_obj'[p] = shm_obj[p] /\ shm_before'[p] = shm_before[p]
      <3>1. p \in DOMAIN shm_obj /\ p \in DOMAIN shm_before
        BY <1>1 DEF PosixShm!TypeOK
      <3>2. QED
        BY <1>3, <1>6, <3>1
    <2>4. QED
      BY <2>1, <2>2, <2>3
  <1>11. ShmRole(p)' /\ ShmRead(p)'
    BY <1>1, <1>2, <1>6, <1>10, ShmAssumption DEF ShmProcess, ShmRole, ShmRead
  <1>12. ShmView(p)'
    BY <1>1, <1>3, <1>10 DEF ShmProcess, ShmView, PosixShm!Objects
  <1>13. QED
    BY <1>4, <1>7, <1>8, <1>9, <1>11, <1>12, ShmPreserved DEF ShmProcess

LEMMA ShmSizes ==
  ASSUME ShmInv, NEW p \in PosixShm!Procs, PosixShm!Ftruncate(p)
  PROVE  ShmInv'
  <1> DEFINE o == shm_obj[p]
             n == IF p \in Creators THEN CreateSize ELSE len
  <1>1. ShmProcess(p) /\ PosixShm!TypeOK /\ shm_pc[p] = "ftruncate" /\ o \in PosixShm!Objects
    BY DEF ShmInv, ShmProcess, ShmView, PosixShm!Ftruncate
  <1>2. /\ shm_pc' = [shm_pc EXCEPT ![p] = "mmap"]
        /\ shm_size' = [shm_size EXCEPT ![o] = n]
        /\ shm_bytes' = [shm_bytes EXCEPT ![o] = {b \in @ : b <= n}]
        /\ shm_mapped' = [shm_mapped EXCEPT ![p] = n]
        /\ UNCHANGED <<shm_name, shm_made, shm_obj, shm_at, shm_left, shm_done, shm_before>>
    BY DEF PosixShm!Ftruncate, PosixShm!Goto, PosixShm!Truncate, PosixShm!history
  <1>3. n \in {len, CreateSize} /\ n \in Nat /\ n >= len /\ n > 0 /\ len \in Nat
    BY ShmAssumption
  <1> HIDE DEF n, o
  <1>4. shm_bytes' = shm_bytes
    <2>1. shm_bytes[o] \in SUBSET (1 .. len)
      BY <1>1 DEF PosixShm!TypeOK
    <2>2. {b \in shm_bytes[o] : b <= n} = shm_bytes[o]
      BY <1>3, <2>1
    <2>3. QED
      BY <1>1, <1>2, <2>2 DEF PosixShm!TypeOK
  <1>5. ShmCount'
    BY <1>2, ShmCounts
  <1>6. PosixShm!TypeOK'
    BY <1>1, <1>2, <1>3, <1>4 DEF PosixShm!TypeOK, PosixShm!Calls
  <1>7. ShmObjects' /\ ShmGrows
    BY <1>1, <1>2, <1>3, <1>4 DEF ShmInv, ShmObjects, ShmGrows, PosixShm!TypeOK, PosixShm!Objects
  <1>8. ShmOnly(p)
    BY <1>1, <1>2 DEF ShmOnly, PosixShm!TypeOK
  <1>9. /\ shm_pc'[p] = "mmap" /\ shm_mapped'[p] = n /\ shm_obj'[p] = o /\ shm_size'[o] = n
        /\ shm_before'[p] = shm_before[p] /\ shm_done' = shm_done
    BY <1>1, <1>2 DEF PosixShm!TypeOK, o
  <1>10. ShmRole(p)' /\ ShmRead(p)'
    BY <1>1, <1>3, <1>9, ShmAssumption DEF ShmProcess, ShmRole, ShmRead
  <1>11. ShmView(p)'
    BY <1>1, <1>3, <1>9 DEF ShmProcess, ShmView, PosixShm!Objects, o
  <1>12. QED
    BY <1>5, <1>6, <1>7, <1>8, <1>10, <1>11, ShmPreserved DEF ShmProcess

LEMMA ShmLooks ==
  ASSUME ShmInv, NEW p \in PosixShm!Procs, PosixShm!Fstat(p)
  PROVE  ShmInv'
  <1> DEFINE o == shm_obj[p]
  <1>1. ShmProcess(p) /\ PosixShm!TypeOK /\ shm_pc[p] = "fstat" /\ o \in PosixShm!Objects
    BY DEF ShmInv, ShmProcess, ShmView, PosixShm!Fstat
  <1>2. /\ shm_pc' = [shm_pc EXCEPT ![p] = "mmap"]
        /\ shm_mapped' = [shm_mapped EXCEPT ![p] = shm_size[o]]
        /\ UNCHANGED <<shm_name, shm_made, shm_size, shm_bytes, shm_obj, shm_at, shm_left, shm_done,
                       shm_before>>
    BY DEF PosixShm!Fstat, PosixShm!Goto, PosixShm!memory, PosixShm!history
  <1> HIDE DEF o
  <1>3. ShmCount'
    BY <1>2, ShmCounts
  <1>4. PosixShm!TypeOK'
    BY <1>1, <1>2 DEF PosixShm!TypeOK, PosixShm!Calls
  <1>5. ShmObjects' /\ ShmGrows
    BY <1>2 DEF ShmInv, ShmObjects, ShmGrows, PosixShm!Objects
  <1>6. ShmOnly(p)
    BY <1>1, <1>2 DEF ShmOnly, PosixShm!TypeOK
  <1>7. /\ shm_pc'[p] = "mmap" /\ shm_mapped'[p] = shm_size[o] /\ shm_obj'[p] = o
        /\ shm_before'[p] = shm_before[p] /\ shm_done' = shm_done /\ shm_size' = shm_size
    BY <1>1, <1>2 DEF PosixShm!TypeOK, o
  <1>8. shm_before[p] # {} => shm_size[o] > 0
    BY <1>1 DEF ShmInv, ShmObjects, ShmProcess, ShmView, o
  <1>9. ShmRole(p)' /\ ShmRead(p)'
    BY <1>1, <1>7, <1>8, ShmAssumption DEF ShmProcess, ShmRole, ShmRead
  <1>10. ShmView(p)'
    BY <1>1, <1>7 DEF ShmProcess, ShmView, PosixShm!Objects, o
  <1>11. QED
    BY <1>3, <1>4, <1>5, <1>6, <1>9, <1>10, ShmPreserved DEF ShmProcess

LEMMA ShmMaps ==
  ASSUME ShmInv, NEW p \in PosixShm!Procs, PosixShm!Mmap(p)
  PROVE  ShmInv'
  <1> DEFINE o == shm_obj[p]
  <1>1. ShmProcess(p) /\ PosixShm!TypeOK /\ shm_pc[p] = "mmap" /\ o \in PosixShm!Objects
    BY DEF ShmInv, ShmProcess, ShmView, PosixShm!Mmap
  <1>2. PICK x \in {"failed", "exited", "close"} :
          /\ shm_pc' = [shm_pc EXCEPT ![p] = x]
          /\ x = "exited" <=> shm_mapped[p] # 0 /\ p \in Creators
          /\ x = "failed" <=> shm_mapped[p] = 0
    BY DEF PosixShm!Mmap, PosixShm!Goto, PosixShm!Done
  <1>3. UNCHANGED <<shm_name, shm_made, shm_size, shm_bytes, shm_obj, shm_mapped, shm_at, shm_left,
                    shm_before>>
    BY DEF PosixShm!Mmap, PosixShm!Done, PosixShm!memory, PosixShm!progress, PosixShm!history
  <1>4. shm_mapped[p] \in Nat
    BY <1>1, ShmAssumption DEF PosixShm!TypeOK
  <1>5. \/ shm_done' = shm_done
        \/ shm_done' = [shm_done EXCEPT ![o] = @ \cup {"create"}] /\ shm_size[o] > 0
    BY <1>1, <1>4 DEF PosixShm!Mmap, PosixShm!Done, PosixShm!history, ShmProcess, ShmView
  <1> HIDE DEF o
  <1>6. ShmCount'
    BY <1>2, <1>3, ShmCounts
  <1>7. PosixShm!TypeOK'
    BY <1>1, <1>2, <1>3, <1>5 DEF PosixShm!TypeOK, PosixShm!Calls
  <1>8. ShmObjects' /\ ShmGrows
    <2>1. ASSUME NEW w \in PosixShm!Objects
          PROVE  /\ shm_done[w] \subseteq shm_done'[w]
                 /\ shm_done'[w] # {} => shm_size[w] > 0
                 /\ "write" \in shm_done'[w] => "write" \in shm_done[w]
      <3>1. shm_done[w] # {} => shm_size[w] > 0
        BY DEF ShmInv, ShmObjects
      <3>2. shm_done'[w] = shm_done[w] \/ (w = o /\ shm_done'[w] = shm_done[w] \cup {"create"})
        BY <1>1, <1>5 DEF PosixShm!TypeOK
      <3>3. QED
        BY <1>5, <3>1, <3>2
    <2>2. ShmObjects'
      BY <1>3, <2>1 DEF ShmInv, ShmObjects, PosixShm!Objects
    <2>3. QED
      BY <1>3, <2>1, <2>2 DEF ShmGrows
  <1>9. ShmOnly(p)
    BY <1>1, <1>2, <1>3 DEF ShmOnly, PosixShm!TypeOK
  <1>10. shm_pc'[p] = x /\ shm_done[o] \subseteq shm_done'[o]
    BY <1>1, <1>2, <1>5 DEF PosixShm!TypeOK
  <1>11. ShmRole(p)' /\ ShmRead(p)'
    BY <1>1, <1>2, <1>3, <1>10, ShmAssumption DEF ShmProcess, ShmRole, ShmRead, PosixShm!Procs
  <1>12. ShmView(p)'
    BY <1>1, <1>2, <1>3, <1>4, <1>10 DEF ShmProcess, ShmView, PosixShm!Objects, o
  <1>13. QED
    BY <1>6, <1>7, <1>8, <1>9, <1>11, <1>12, ShmPreserved DEF ShmProcess

LEMMA ShmCloses ==
  ASSUME ShmInv, NEW p \in PosixShm!Procs, PosixShm!Close(p)
  PROVE  ShmInv'
  <1>1. ShmProcess(p) /\ PosixShm!TypeOK /\ shm_pc[p] = "close"
    BY DEF ShmInv, PosixShm!Close
  <1>2. PICK x \in {"memcpy", "printf"} :
          /\ x = "memcpy" <=> p \in Writers
          /\ shm_pc' = [shm_pc EXCEPT ![p] = x]
    BY DEF PosixShm!Close, PosixShm!Goto
  <1>3. /\ shm_left' = [shm_left EXCEPT ![p] = IF p \in Writers THEN 1 .. len ELSE {}]
        /\ UNCHANGED <<shm_name, shm_made, shm_size, shm_bytes, shm_obj, shm_mapped, shm_at, shm_done,
                       shm_before>>
    BY DEF PosixShm!Close, PosixShm!Goto, PosixShm!memory, PosixShm!history
  <1>4. ShmCount'
    BY <1>2, <1>3, ShmCounts
  <1>5. PosixShm!TypeOK'
    BY <1>1, <1>2, <1>3 DEF PosixShm!TypeOK, PosixShm!Calls
  <1>6. ShmObjects' /\ ShmGrows
    BY <1>3 DEF ShmInv, ShmObjects, ShmGrows, PosixShm!Objects
  <1>7. ShmOnly(p)
    BY <1>1, <1>2, <1>3 DEF ShmOnly, PosixShm!TypeOK
  <1>8. shm_pc'[p] = x /\ (p \in Writers => shm_left'[p] = 1 .. len)
    BY <1>1, <1>2, <1>3 DEF PosixShm!TypeOK
  <1>9. ShmRole(p)' /\ ShmRead(p)'
    BY <1>1, <1>2, <1>3, <1>8, ShmAssumption DEF ShmProcess, ShmRole, ShmRead, PosixShm!Procs
  <1>10. ShmView(p)'
    <2>1. x = "memcpy" => (1 .. len) \ shm_left'[p] = {}
      BY <1>2, <1>8
    <2>2. QED
      BY <1>1, <1>2, <1>3, <1>8, <2>1 DEF ShmProcess, ShmView, PosixShm!Objects
  <1>11. QED
    BY <1>4, <1>5, <1>6, <1>7, <1>9, <1>10, ShmPreserved DEF ShmProcess

LEMMA ShmWrites ==
  ASSUME ShmInv, NEW p \in PosixShm!Procs, PosixShm!Memcpy(p)
  PROVE  ShmInv'
  <1> DEFINE o == shm_obj[p]
  <1>1. ShmProcess(p) /\ PosixShm!TypeOK /\ shm_pc[p] = "memcpy" /\ o \in PosixShm!Objects
    BY DEF ShmInv, ShmProcess, ShmView, PosixShm!Memcpy
  <1>2. ShmView(p) /\ shm_mapped[p] > 0 /\ shm_size[o] > 0
    BY <1>1 DEF ShmProcess, ShmView
  <1>3. PICK b \in shm_left[p] :
          /\ shm_left' = [shm_left EXCEPT ![p] = @ \ {b}]
          /\ IF PosixShm!MayTouch(p, b)
             THEN /\ shm_bytes' = [shm_bytes EXCEPT ![o] = @ \cup {b}]
                  /\ IF shm_left'[p] = {} THEN PosixShm!Done(p, "write")
                     ELSE UNCHANGED <<shm_pc, PosixShm!history>>
             ELSE PosixShm!Goto(p, "faulted") /\ UNCHANGED <<shm_bytes, PosixShm!history>>
    BY DEF PosixShm!Memcpy
  <1>4. b \in 1 .. len /\ shm_left[p] \subseteq 1 .. len /\ b \in 1 .. len + 1
    BY <1>1, ShmAssumption DEF PosixShm!TypeOK
  <1>5. PosixShm!MayTouch(p, b)
    BY <1>1, <1>2, <1>4, Touches
  <1>6. shm_left'[p] = shm_left[p] \ {b}
    BY <1>1, <1>3 DEF PosixShm!TypeOK
  <1>7. PICK x \in {"memcpy", "exited"} :
          /\ shm_pc' = [shm_pc EXCEPT ![p] = x]
          /\ x = "exited" => shm_left'[p] = {}
          /\ shm_done' = IF x = "exited" THEN [shm_done EXCEPT ![o] = @ \cup {"write"}] ELSE shm_done
          /\ shm_before' = shm_before
    <2>1. CASE shm_left'[p] = {}
      BY <1>3, <1>5, <2>1 DEF PosixShm!Done, PosixShm!Goto
    <2>2. CASE shm_left'[p] # {}
      <3>1. UNCHANGED <<shm_pc, shm_done, shm_before>>
        BY <1>3, <1>5, <2>2 DEF PosixShm!history
      <3>2. shm_pc' = [shm_pc EXCEPT ![p] = "memcpy"]
        BY <1>1, <3>1 DEF PosixShm!TypeOK
      <3>3. QED
        BY <3>1, <3>2
    <2>3. QED
      BY <2>1, <2>2
  <1>8. /\ shm_bytes' = [shm_bytes EXCEPT ![o] = @ \cup {b}]
        /\ UNCHANGED <<shm_name, shm_made, shm_size, shm_obj, shm_mapped, shm_at>>
    BY <1>3, <1>5 DEF PosixShm!Memcpy
  <1>9. shm_bytes'[o] = shm_bytes[o] \cup {b} /\ shm_bytes[o] \subseteq 1 .. len
    BY <1>1, <1>8 DEF PosixShm!TypeOK
  <1>10. (1 .. len) \ shm_left'[p] \subseteq shm_bytes'[o]
    BY <1>1, <1>4, <1>6, <1>9 DEF ShmProcess, ShmView
  <1>11. x = "exited" => shm_bytes'[o] = 1 .. len
    BY <1>4, <1>7, <1>9, <1>10
  <1> HIDE DEF o
  <1>12. ShmCount'
    BY <1>7, <1>8, ShmCounts
  <1>13. PosixShm!TypeOK'
    <2>1. shm_left' \in [PosixShm!Procs -> SUBSET (1 .. len)]
      BY <1>1, <1>3 DEF PosixShm!TypeOK
    <2>2. shm_bytes' \in [PosixShm!Objects -> SUBSET (1 .. len)]
      BY <1>1, <1>4, <1>8 DEF PosixShm!TypeOK
    <2>3. shm_done' \in [PosixShm!Objects -> SUBSET {"create", "write"}]
      BY <1>1, <1>7 DEF PosixShm!TypeOK
    <2>4. QED
      BY <1>1, <1>7, <1>8, <2>1, <2>2, <2>3 DEF PosixShm!TypeOK, PosixShm!Calls
  <1>14. ASSUME NEW w \in PosixShm!Objects
         PROVE  /\ shm_bytes[w] \subseteq shm_bytes'[w] /\ shm_done[w] \subseteq shm_done'[w]
                /\ shm_done'[w] # {} => shm_size[w] > 0
                /\ "write" \in shm_done'[w] => shm_bytes'[w] = 1 .. len
    <2>1. CASE w = o
      <3>1. /\ shm_done[o] # {} => shm_size[o] > 0
            /\ "write" \in shm_done[o] => shm_bytes[o] = 1 .. len
        BY <1>1 DEF ShmInv, ShmObjects
      <3>2. shm_done'[o] = IF x = "exited" THEN shm_done[o] \cup {"write"} ELSE shm_done[o]
        BY <1>1, <1>7 DEF PosixShm!TypeOK
      <3>3. QED
        BY <1>2, <1>4, <1>9, <1>11, <2>1, <3>1, <3>2
    <2>2. CASE w # o
      <3>1. shm_done'[w] = shm_done[w] /\ shm_bytes'[w] = shm_bytes[w]
        BY <1>1, <1>7, <1>8, <2>2 DEF PosixShm!TypeOK
      <3>2. QED
        BY <3>1 DEF ShmInv, ShmObjects
    <2>3. QED
      BY <2>1, <2>2
  <1>15. ShmObjects' /\ ShmGrows
    BY <1>8, <1>14 DEF ShmObjects, ShmGrows, PosixShm!Objects
  <1>16. ShmOnly(p)
    BY <1>1, <1>3, <1>7, <1>8 DEF ShmOnly, PosixShm!TypeOK
  <1>17. shm_pc'[p] = x
    BY <1>1, <1>7 DEF PosixShm!TypeOK
  <1>18. ShmRole(p)' /\ ShmRead(p)'
    BY <1>1, <1>17, ShmAssumption DEF ShmProcess, ShmRole, ShmRead, PosixShm!Procs
  <1>19. ShmView(p)'
    BY <1>1, <1>2, <1>7, <1>8, <1>10, <1>14, <1>17 DEF ShmProcess, ShmView, PosixShm!Objects, o
  <1>20. QED
    BY <1>12, <1>13, <1>15, <1>16, <1>18, <1>19, ShmPreserved DEF ShmProcess

LEMMA ShmPrints ==
  ASSUME ShmInv, NEW p \in PosixShm!Procs, PosixShm!Printf(p)
  PROVE  ShmInv'
  <1> DEFINE o == shm_obj[p]
             b == shm_at[p] + 1
  <1>1. ShmProcess(p) /\ PosixShm!TypeOK /\ shm_pc[p] = "printf" /\ o \in PosixShm!Objects
    BY DEF ShmInv, ShmProcess, ShmView, PosixShm!Printf
  <1>2. ShmView(p) /\ shm_mapped[p] > 0 /\ b \in 1 .. len + 1 /\ shm_bytes[o] \subseteq 1 .. len
    BY <1>1, ShmAssumption DEF ShmProcess, ShmView, PosixShm!TypeOK
  <1>3. PosixShm!MayTouch(p, b)
    BY <1>1, <1>2, Touches
  <1>4. /\ IF b \in shm_bytes[o] THEN shm_at' = [shm_at EXCEPT ![p] = b] /\ shm_pc' = shm_pc
           ELSE shm_pc' = [shm_pc EXCEPT ![p] = "exited"] /\ shm_at' = shm_at
        /\ UNCHANGED <<shm_name, shm_made, shm_size, shm_bytes, shm_obj, shm_mapped, shm_left, shm_done,
                       shm_before>>
    BY <1>3 DEF PosixShm!Printf, PosixShm!Goto, PosixShm!memory, PosixShm!history
  <1> HIDE DEF o, b
  <1>5. PICK x \in {"printf", "exited"} :
          /\ shm_pc' = [shm_pc EXCEPT ![p] = x]
          /\ x = "printf" => b \in shm_bytes[o] /\ shm_at' = [shm_at EXCEPT ![p] = b]
          /\ x = "exited" => b \notin shm_bytes[o] /\ shm_at' = shm_at
    BY <1>1, <1>4 DEF PosixShm!TypeOK
  <1>6. ShmCount'
    BY <1>4, <1>5, ShmCounts
  <1>7. PosixShm!TypeOK'
    <2>1. x = "printf" => b \in 0 .. len
      BY <1>2, <1>5, ShmAssumption
    <2>2. shm_at' \in [PosixShm!Procs -> 0 .. len]
      BY <1>1, <1>5, <2>1 DEF PosixShm!TypeOK
    <2>3. QED
      BY <1>1, <1>4, <1>5, <2>2 DEF PosixShm!TypeOK, PosixShm!Calls
  <1>8. ShmObjects' /\ ShmGrows
    BY <1>4 DEF ShmInv, ShmObjects, ShmGrows, PosixShm!Objects
  <1>9. ShmOnly(p)
    BY <1>1, <1>4, <1>5 DEF ShmOnly, PosixShm!TypeOK
  <1>10. shm_pc'[p] = x
    BY <1>1, <1>5 DEF PosixShm!TypeOK
  <1>11. ShmRole(p)'
    BY <1>1, <1>10, ShmAssumption DEF ShmProcess, ShmRole, PosixShm!Procs
  <1>12. x = "exited" /\ "write" \in shm_before[p] => shm_at'[p] = len
    <2>1. "write" \in shm_before[p] => shm_bytes[o] = 1 .. len
      BY <1>1 DEF ShmInv, ShmObjects, ShmProcess, ShmView, o
    <2>2. shm_at[p] \in 0 .. len
      BY <1>1 DEF PosixShm!TypeOK
    <2>3. QED
      BY <1>5, <2>1, <2>2, ShmAssumption DEF b
  <1>13. ShmRead(p)'
    BY <1>4, <1>10, <1>12 DEF ShmRead
  <1>14. ShmView(p)'
    BY <1>1, <1>4, <1>10 DEF ShmProcess, ShmView, PosixShm!Objects
  <1>15. QED
    BY <1>6, <1>7, <1>8, <1>9, <1>11, <1>13, <1>14, ShmPreserved DEF ShmProcess

LEMMA ShmLeaves ==
  ASSUME ShmInv, NEW p \in PosixShm!Procs,
         PosixShm!Unlink(p) \/ PosixShm!Error(p) \/ PosixShm!Kill(p)
  PROVE  ShmInv'
  <1>1. ShmProcess(p) /\ PosixShm!TypeOK
    BY DEF ShmInv
  <1>2. PICK x \in {"exited", "failed"} :
          /\ shm_pc' = [shm_pc EXCEPT ![p] = x]
          /\ x = "exited" => shm_pc[p] = "shm_unlink"
    BY DEF PosixShm!Unlink, PosixShm!Error, PosixShm!Kill, PosixShm!Goto
  <1>3. /\ UNCHANGED <<shm_made, shm_size, shm_bytes, shm_obj, shm_mapped, shm_at, shm_left, shm_done,
                       shm_before>>
        /\ shm_name' \in {shm_name, PosixShm!None}
    BY DEF PosixShm!Unlink, PosixShm!Error, PosixShm!Kill, PosixShm!memory, PosixShm!progress,
           PosixShm!history
  <1>4. ShmCount'
    BY <1>2, <1>3, ShmCounts
  <1>5. PosixShm!TypeOK'
    BY <1>1, <1>2, <1>3 DEF PosixShm!TypeOK, PosixShm!Calls, PosixShm!None
  <1>6. ShmObjects' /\ ShmGrows
    BY <1>3 DEF ShmInv, ShmObjects, ShmGrows, PosixShm!Objects
  <1>7. ShmOnly(p)
    BY <1>1, <1>2, <1>3 DEF ShmOnly, PosixShm!TypeOK
  <1>8. shm_pc'[p] = x
    BY <1>1, <1>2 DEF PosixShm!TypeOK
  <1>9. ShmRole(p)' /\ ShmRead(p)'
    BY <1>1, <1>2, <1>3, <1>8, ShmAssumption DEF ShmProcess, ShmRole, ShmRead
  <1>10. ShmView(p)'
    BY <1>1, <1>3, <1>8 DEF ShmProcess, ShmView, PosixShm!Objects
  <1>11. QED
    BY <1>4, <1>5, <1>6, <1>7, <1>9, <1>10, ShmPreserved DEF ShmProcess

LEMMA ShmStays == ShmInv /\ UNCHANGED PosixShm!vars => ShmInv'
  <1> SUFFICES ASSUME ShmInv, UNCHANGED PosixShm!vars PROVE ShmInv'
    OBVIOUS
  <1>1. PosixShm!TypeOK'
    BY DEF PosixShm!vars, ShmInv, PosixShm!TypeOK
  <1>2. ShmCount' /\ ShmObjects'
    BY DEF PosixShm!vars, ShmInv, ShmCount, AtOpen, ShmObjects, PosixShm!Objects
  <1>3. ASSUME NEW p \in PosixShm!Procs PROVE ShmProcess(p)'
    BY DEF PosixShm!vars, ShmInv, ShmProcess, ShmRole, ShmView, ShmRead, PosixShm!Objects
  <1>4. QED
    BY <1>1, <1>2, <1>3 DEF ShmInv

LEMMA ShmInvariant == PosixShm!Spec => []ShmInv
  <1>1. ShmInv /\ [PosixShm!Next]_(PosixShm!vars) => ShmInv'
    <2> SUFFICES ASSUME ShmInv, [PosixShm!Next]_(PosixShm!vars) PROVE ShmInv'
      OBVIOUS
    <2>1. ASSUME NEW p \in PosixShm!Procs, PosixShm!Step(p) PROVE ShmInv'
      BY <2>1, ShmOpens, ShmSizes, ShmLooks, ShmMaps, ShmCloses, ShmWrites, ShmPrints, ShmLeaves
         DEF PosixShm!Step
    <2>2. QED
      BY <2>1, ShmStays DEF PosixShm!Next, PosixShm!Ended
  <1>2. QED
    BY <1>1, ShmBegins, PTL DEF PosixShm!Spec

(* posix_shm: no process touches memory that is not there, whatever the    *)
(* others do to the size of the object.                                    *)
THEOREM NeverFaults == Spec => []NoFault
  <1>1. ShmInv => NoFault
    BY DEF ShmInv, ShmProcess, ShmRole, PosixShm!Procs, NoFault, PosixShm!NoFault
  <1>2. QED
    BY <1>1, Separation, ShmInvariant, PTL

(* posix_shm_read prints all of the data if it opens the object after a    *)
(* write, and finds a size if it opens it after a create.                  *)
THEOREM ReadAfterWrite == Spec => []ReadsWhatWasWritten
  <1>1. ShmInv => ReadsWhatWasWritten
    <2> SUFFICES ASSUME ShmInv PROVE PosixShm!ReadsWhatWasWritten
      BY DEF ReadsWhatWasWritten
    <2>1. \A p \in Readers : ShmRead(p)
      BY DEF ShmInv, ShmProcess, PosixShm!Procs
    <2>2. QED
      BY <2>1 DEF ShmRead, PosixShm!ReadsWhatWasWritten
  <1>2. QED
    BY <1>1, Separation, ShmInvariant, PTL
-------------------------------------------------------------------------------
(* timerfd.cpp: the first argument, taken apart.                           *)

(* A character that is in a string once is found where it is.              *)
LEMMA Found ==
  ASSUME NEW str \in Seq(Int), NEW c, NEW k \in 1 .. Len(str),
         \A j \in 1 .. Len(str) : str[j] = c <=> j = k
  PROVE  Timerfd!strchr(str, c) = k
  <1>1. {j \in DOMAIN str : str[j] = c} = {k}
    OBVIOUS
  <1>2. Timerfd!Min({k}) = k
    BY DEF Timerfd!Min
  <1>3. QED
    BY <1>1, <1>2 DEF Timerfd!strchr

LEMMA NotFound ==
  ASSUME NEW str \in Seq(Int), NEW c, \A j \in 1 .. Len(str) : str[j] # c
  PROVE  Timerfd!strchr(str, c) = 0
  <1>1. {j \in DOMAIN str : str[j] = c} = {}
    OBVIOUS
  <1>2. QED
    BY <1>1 DEF Timerfd!strchr

LEMMA NonEmpty == ASSUME NEW s, Len(s) # 0 PROVE s # <<>>
  OBVIOUS

LEMMA OneCharacter == ASSUME NEW S, NEW u \in Seq(S), NEW m \in 1 .. Len(u)
  PROVE  SubSeq(u, m, m) = <<u[m]>>
  <1>1. SubSeq(u, m, m) \in Seq(S) /\ Len(SubSeq(u, m, m)) = 1 /\ SubSeq(u, m, m)[1] = u[m]
    <2>1. \A i \in m .. m : u[i] \in S
      BY ElementOfSeq
    <2>2. m \in Int /\ 1 \in 1 .. m - m + 1
      OBVIOUS
    <2>3. QED
      BY <2>1, <2>2, SubSeqProperties
  <1>2. u[m] \in S
    BY ElementOfSeq
  <1> DEFINE v == SubSeq(u, m, m)
             w == <<u[m]>>
  <1>3. w \in Seq(S) /\ Len(w) = 1 /\ w[1] = u[m]
    BY <1>2
  <1>4. v \in Seq(S) /\ Len(v) = 1 /\ v[1] = u[m]
    BY <1>1
  <1> HIDE DEF v, w
  <1>5. Len(v) = Len(w) /\ \A i \in 1 .. Len(v) : v[i] = w[i]
    BY <1>3, <1>4
  <1>6. v = w
    BY <1>3, <1>4, <1>5, SeqEqual
  <1>7. QED
    BY <1>6 DEF v, w

(* What was put before and after a character is found there again.         *)
LEMMA Glued ==
  ASSUME NEW S, NEW u \in Seq(S), NEW c \in S, NEW w \in Seq(S), Len(u) >= 1, Len(w) >= 1
  PROVE  /\ SubSeq(u \o <<c>> \o w, 1, Len(u)) = u
         /\ SubSeq(u \o <<c>> \o w, Len(u) + 2, Len(u \o <<c>> \o w)) = w
  <1> DEFINE v == u \o <<c>>
  <1>1. <<c>> \in Seq(S) /\ Len(<<c>>) = 1
    OBVIOUS
  <1>2. v \in Seq(S) /\ Len(v) = Len(u) + 1
    BY <1>1, ConcatProperties
  <1>3. /\ 1 \in 1 .. Len(u) /\ Len(u) \in 1 .. Len(u) /\ Len(u) \in 1 .. Len(u) + 1
        /\ 1 \in 1 .. Len(u) + 1
    OBVIOUS
  <1>4. SubSeq(v, 1, Len(u)) = SubSeq(u, 1, Len(u))
    BY <1>1, <1>3, SubSeqOfConcat1
  <1>5. SubSeq(u, 1, Len(u)) = u /\ SubSeq(w, 1, Len(w)) = w
    BY SubSeqFull
  <1> HIDE DEF v
  <1>6. SubSeq(v \o w, 1, Len(u)) = SubSeq(v, 1, Len(u))
    BY <1>2, <1>3, SubSeqOfConcat1
  <1>7. Len(v \o w) = Len(v) + Len(w)
    BY <1>2, ConcatProperties
  <1>8. /\ Len(v) + 1 \in Len(v) + 1 .. Len(v) + Len(w)
        /\ Len(v) + Len(w) \in Len(v) + 1 .. Len(v) + Len(w)
        /\ Len(v) + 1 - Len(v) = 1 /\ Len(v) + Len(w) - Len(v) = Len(w)
    BY <1>2
  <1>9. SubSeq(v \o w, Len(v) + 1, Len(v) + Len(w)) = SubSeq(w, 1, Len(w))
    BY <1>2, <1>8, SubSeqOfConcat2
  <1>10. Len(v) + 1 = Len(u) + 2
    BY <1>2
  <1>11. QED
    BY <1>4, <1>5, <1>6, <1>7, <1>9, <1>10 DEF v

LEMMA OnePart ==
  ASSUME NEW part \in Seq(Nat), Len(part) \in 1 .. 2
  PROVE  LET str == Timerfd!FormatPart(part)
         IN  /\ str \in Seq(Int) /\ Len(str) \in {1, 3}
             /\ \A j \in 1 .. Len(str) : str[j] # Timerfd!Colon
             /\ Timerfd!Seconds(str) = part[1]
             /\ Timerfd!Nanoseconds(str) = IF Len(part) = 1 THEN 0 ELSE part[2]
  <1> DEFINE str == Timerfd!FormatPart(part)
  <1> HIDE DEF str
  <1> SUFFICES /\ str \in Seq(Int) /\ Len(str) \in {1, 3}
               /\ \A j \in 1 .. Len(str) : str[j] # Timerfd!Colon
               /\ Timerfd!Seconds(str) = part[1]
               /\ Timerfd!Nanoseconds(str) = IF Len(part) = 1 THEN 0 ELSE part[2]
    BY DEF str
  <1>0. \A j \in 1 .. Len(part) : part[j] \in Nat
    BY ElementOfSeq
  <1>1. CASE Len(part) = 1
    <2>1. str = part
      BY <1>1 DEF Timerfd!FormatPart, str
    <2>2. part[1] \in Nat /\ \A j \in 1 .. Len(part) : part[j] # Timerfd!Slash /\ part[j] # Timerfd!Colon
      BY <1>0, <1>1 DEF Timerfd!Colon, Timerfd!Slash
    <2>3. Timerfd!strchr(part, Timerfd!Slash) = 0
      BY <2>2, NotFound
    <2>4. part # <<>> /\ Head(part) = part[1]
      <3>1. part # <<>>
        <4>1. Len(part) # 0
          BY <1>1
        <4>2. QED
          BY <4>1, NonEmpty, Zenon
      <3>2. QED
        BY <3>1
    <2>5. Timerfd!Seconds(part) = part[1]
      BY <2>2, <2>3, <2>4 DEF Timerfd!Seconds, Timerfd!Before, Timerfd!atoi
    <2>6. Timerfd!Nanoseconds(part) = 0
      BY <2>3 DEF Timerfd!Nanoseconds
    <2>7. QED
      <3>1. part \in Seq(Int)
        OBVIOUS
      <3>2. QED
        BY <1>1, <2>1, <2>2, <2>5, <2>6, <3>1
  <1>2. CASE Len(part) = 2
    <2>1. part[1] \in Nat /\ part[2] \in Nat
      BY <1>0, <1>2
    <2>2. str = <<part[1], Timerfd!Slash, part[2]>>
      BY <1>2 DEF Timerfd!FormatPart, str
    <2>3. /\ str \in Seq(Int) /\ Len(str) = 3
          /\ str[1] = part[1] /\ str[2] = Timerfd!Slash /\ str[3] = part[2]
      BY <2>1, <2>2 DEF Timerfd!Slash
    <2>4. \A j \in 1 .. Len(str) : str[j] # Timerfd!Colon /\ (str[j] = Timerfd!Slash <=> j = 2)
      BY <2>1, <2>3 DEF Timerfd!Colon, Timerfd!Slash
    <2>5. Timerfd!strchr(str, Timerfd!Slash) = 2
      <3>1. 2 \in 1 .. Len(str) /\ \A j \in 1 .. Len(str) : str[j] = Timerfd!Slash <=> j = 2
        BY <2>3, <2>4
      <3>2. QED
        BY <2>3, <3>1, Found
    <2>6. SubSeq(str, 1, 2 - 1) = <<part[1]>> /\ SubSeq(str, 2 + 1, Len(str)) = <<part[2]>>
      <3>1. SubSeq(str, 1, 1) = <<str[1]>> /\ SubSeq(str, 3, 3) = <<str[3]>>
        BY <2>3, OneCharacter, SMTT(30)
      <3>2. QED
        BY <2>3, <3>1
    <2>7. \A n \in Nat : Timerfd!atoi(<<n>>) = n
      BY DEF Timerfd!atoi
    <2>8. Timerfd!Seconds(str) = part[1]
      <3>1. Timerfd!Before(str, 2) = <<part[1]>>
        BY <2>6 DEF Timerfd!Before
      <3>2. Timerfd!Seconds(str) = Timerfd!atoi(<<part[1]>>)
        BY <2>5, <3>1, Zenon DEF Timerfd!Seconds
      <3>3. QED
        BY <2>1, <2>7, <3>2, Zenon
    <2>9. Timerfd!Nanoseconds(str) = part[2]
      <3>1. Timerfd!After(str, 2) = <<part[2]>>
        BY <2>6 DEF Timerfd!After
      <3>2. Timerfd!Nanoseconds(str) = Timerfd!atoi(<<part[2]>>)
        <4>1. 2 # 0
          OBVIOUS
        <4>2. QED
          BY <2>5, <3>1, <4>1, Zenon DEF Timerfd!Nanoseconds
      <3>3. QED
        BY <2>1, <2>7, <3>2, Zenon
    <2>10. QED
      BY <1>2, <2>3, <2>4, <2>8, <2>9
  <1>3. QED
    BY <1>1, <1>2

LEMMA Argument ==
  ASSUME NEW s \in Seq(Seq(Nat)), Len(s) \in 1 .. 2, \A k \in DOMAIN s : Len(s[k]) \in 1 .. 2
  PROVE  LET time == Timerfd!ItimerspecFromStr(Timerfd!Format(s))
         IN  time.value = Timerfd!Part(s, 1) /\ time.interval = Timerfd!Part(s, 2)
  <1>1. ASSUME NEW part \in Seq(Nat), Len(part) \in 1 .. 2
        PROVE  <<Timerfd!Seconds(Timerfd!FormatPart(part)), Timerfd!Nanoseconds(Timerfd!FormatPart(part))>>
                 = IF Len(part) = 1 THEN <<part[1], 0>> ELSE part
    <2>1. /\ Timerfd!Seconds(Timerfd!FormatPart(part)) = part[1]
          /\ Timerfd!Nanoseconds(Timerfd!FormatPart(part)) = IF Len(part) = 1 THEN 0 ELSE part[2]
      BY <1>1, OnePart
    <2>2. Len(part) = 2 => part = <<part[1], part[2]>>
      OBVIOUS
    <2>3. QED
      BY <1>1, <2>1, <2>2
  <1>2. CASE Len(s) = 1
    <2> DEFINE str == Timerfd!FormatPart(s[1])
    <2>1. s[1] \in Seq(Nat) /\ Len(s[1]) \in 1 .. 2
      BY <1>2
    <2>2. str \in Seq(Int) /\ \A j \in 1 .. Len(str) : str[j] # Timerfd!Colon
      BY <2>1, OnePart
    <2>3. Timerfd!strchr(str, Timerfd!Colon) = 0
      BY <2>2, NotFound
    <2>4. Timerfd!Format(s) = str
      BY <1>2 DEF Timerfd!Format
    <2>5. Timerfd!ItimerspecFromStr(str) = [value |-> <<Timerfd!Seconds(str), Timerfd!Nanoseconds(str)>>,
                                            interval |-> <<0, 0>>]
      BY <2>3 DEF Timerfd!ItimerspecFromStr, Timerfd!Before
    <2>6. QED
      BY <1>1, <1>2, <2>1, <2>4, <2>5 DEF Timerfd!Part
  <1>3. CASE Len(s) = 2
    <2> DEFINE one == Timerfd!FormatPart(s[1])
               two == Timerfd!FormatPart(s[2])
               str == one \o <<Timerfd!Colon>> \o two
               n == Len(one) + 1
    <2>1. /\ s[1] \in Seq(Nat) /\ Len(s[1]) \in 1 .. 2
          /\ s[2] \in Seq(Nat) /\ Len(s[2]) \in 1 .. 2
      BY <1>3
    <2>2. /\ one \in Seq(Int) /\ Len(one) \in {1, 3} /\ \A j \in 1 .. Len(one) : one[j] # Timerfd!Colon
          /\ two \in Seq(Int) /\ Len(two) \in {1, 3} /\ \A j \in 1 .. Len(two) : two[j] # Timerfd!Colon
      BY <2>1, OnePart
    <2>3. Timerfd!Format(s) = str
      BY <1>3 DEF Timerfd!Format
    <2> HIDE DEF one, two
    <2>4. /\ str \in Seq(Int) /\ Len(str) = n + Len(two)
          /\ \A j \in 1 .. Len(str) : str[j] = IF j < n THEN one[j]
                                               ELSE IF j = n THEN Timerfd!Colon ELSE two[j - n]
      BY <2>2 DEF Timerfd!Colon
    <2> HIDE DEF str
    <2>5. n \in 1 .. Len(str) /\ n # 0 /\ n - 1 = Len(one) /\ n \in Nat
      BY <2>2, <2>4
    <2> HIDE DEF n
    <2>6. \A j \in 1 .. Len(str) : str[j] = Timerfd!Colon <=> j = n
      <3> SUFFICES ASSUME NEW j \in 1 .. Len(str) PROVE str[j] = Timerfd!Colon <=> j = n
        OBVIOUS
      <3>1. CASE j < n
        <4>1. str[j] = one[j] /\ j \in 1 .. Len(one)
          BY <2>2, <2>4, <2>5, <3>1
        <4>2. QED
          BY <2>2, <3>1, <4>1
      <3>2. CASE j = n
        BY <2>4, <2>5, <3>2
      <3>3. CASE j > n
        <4>1. str[j] = two[j - n]
          BY <2>4, <2>5, <3>3
        <4>2. j - n \in 1 .. Len(two)
          BY <2>2, <2>4, <2>5, <3>3
        <4>3. QED
          BY <2>2, <2>5, <3>3, <4>1, <4>2, SMTT(30)
      <3>4. QED
        BY <2>5, <3>1, <3>2, <3>3
    <2>7. Timerfd!strchr(str, Timerfd!Colon) = n
      BY <2>4, <2>5, <2>6, Found
    <2>8. SubSeq(str, 1, n - 1) = one
      <3>1. Timerfd!Colon \in Int
        BY DEF Timerfd!Colon
      <3>2. SubSeq(str, 1, Len(one)) = one
        BY <2>2, <3>1, Glued DEF str
      <3>3. QED
        BY <2>5, <3>2
    <2>9. SubSeq(str, n + 1, Len(str)) = two
      <3>1. Timerfd!Colon \in Int
        BY DEF Timerfd!Colon
      <3>2. SubSeq(str, Len(one) + 2, Len(str)) = two
        BY <2>2, <3>1, Glued DEF str
      <3>3. n + 1 = Len(one) + 2
        BY <2>2, <2>5
      <3>4. QED
        BY <3>2, <3>3
    <2>10. Timerfd!ItimerspecFromStr(str) = [value |-> <<Timerfd!Seconds(one), Timerfd!Nanoseconds(one)>>,
                                             interval |-> <<Timerfd!Seconds(two), Timerfd!Nanoseconds(two)>>]
      BY <2>5, <2>7, <2>8, <2>9 DEF Timerfd!ItimerspecFromStr, Timerfd!Before, Timerfd!After
    <2>11. QED
      BY <1>1, <1>3, <2>1, <2>3, <2>10 DEF Timerfd!Part, one, two
  <1>4. QED
    BY <1>2, <1>3

(* timerfd.cpp: the int that the expirations are counted in is their       *)
(* number, modulo the number of ints.                                      *)

LEMMA Division == ASSUME NEW m \in Nat, m > 0, NEW y \in Int
  PROVE  y = (m * (y \div m)) + (y % m) /\ y % m \in 0 .. m - 1 /\ y \div m \in Int
  OBVIOUS

LEMMA Remainders == ASSUME NEW m \in Nat, m > 0, NEW d \in Int, NEW r \in 0 .. m - 1,
                           NEW s \in 0 .. m - 1, m * d = r - s
  PROVE  r = s
  <1>1. d >= 1 => m * d >= m
    OBVIOUS
  <1>2. d <= -1 => m * d <= -m
    OBVIOUS
  <1>3. d = 0
    BY <1>1, <1>2
  <1>4. QED
    BY <1>3

(* What differs by a multiple of m is the same modulo m.                   *)
LEMMA Modulo == ASSUME NEW m \in Nat, m > 0, NEW y \in Int, NEW q \in Int
  PROVE  (y - (m * q)) % m = y % m
  <1> DEFINE z == y - (m * q)
             r == z % m
             s == y % m
             a == y \div m
             b == z \div m
  <1>1. m * q \in Int /\ z \in Int
    OBVIOUS
  <1>2. y = (m * a) + s /\ s \in 0 .. m - 1 /\ a \in Int
    BY Division
  <1>3. z = (m * b) + r /\ r \in 0 .. m - 1 /\ b \in Int
    <2> HIDE DEF z
    <2>1. QED
      BY <1>1, Division
  <1>4. y - (m * q) = (m * b) + r
    BY <1>3
  <1> HIDE DEF z, r, s, a, b
  <1>5. m * (a - q - b) = r - s /\ a - q - b \in Int
    BY <1>2, <1>3, <1>4
  <1>6. r = s
    BY <1>2, <1>3, <1>5, Remainders
  <1>7. QED
    BY <1>6 DEF r, s, z

LEMMA SmallRemainder == ASSUME NEW m \in Nat, m > 0, NEW y \in Nat
  PROVE  y % m <= y /\ (y < m => y % m = y)
  <1>1. y % m <= y
    OBVIOUS
  <1>2. y < m => y % m = y
    OBVIOUS
  <1>3. QED
    BY <1>1, <1>2

(* An int is in range; it is the number itself if that fits, and never     *)
(* more than a natural number that does not.                               *)
LEMMA InInt == ASSUME NEW x \in Int
  PROVE  Timerfd!AsInt(x) \in Timerfd!Ints
  <1> DEFINE m == 2 * (IntMax + 1)
             y == x - Timerfd!IntMin
  <1>1. IntMax \in Nat /\ m \in Nat /\ m > 0 /\ y \in Int
    BY TimerAssumption DEF Timerfd!IntMin
  <1>2. y % m \in 0 .. m - 1
    <2> HIDE DEF m, y
    <2>1. QED
      BY <1>1, Division
  <1>3. Timerfd!AsInt(x) = (y % m) - (IntMax + 1)
    BY <1>1, <1>2 DEF Timerfd!AsInt, Timerfd!IntMin
  <1>4. QED
    BY <1>1, <1>2, <1>3 DEF Timerfd!Ints, Timerfd!IntMin

LEMMA IntOfNat == ASSUME NEW x \in Nat
  PROVE  Timerfd!AsInt(x) <= x /\ (x <= IntMax => Timerfd!AsInt(x) = x)
  <1> DEFINE m == 2 * (IntMax + 1)
             y == x - Timerfd!IntMin
  <1>1. IntMax \in Nat /\ m \in Nat /\ m > 0 /\ y = x + IntMax + 1
    BY TimerAssumption DEF Timerfd!IntMin
  <1>2. y \in Nat /\ y % m <= y /\ (y < m => y % m = y) /\ y % m \in Int
    <2> HIDE DEF m
    <2>1. y \in Nat
      BY <1>1
    <2> HIDE DEF y
    <2>2. QED
      BY <1>1, <2>1, SmallRemainder, Division
  <1>3. Timerfd!AsInt(x) = (y % m) - (IntMax + 1)
    BY <1>1, <1>2 DEF Timerfd!AsInt, Timerfd!IntMin
  <1>4. QED
    <2> DEFINE r == y % m
    <2>1. r <= x + IntMax + 1 /\ (x + IntMax + 1 < m => r = x + IntMax + 1) /\ r \in Int
      BY <1>1, <1>2
    <2>2. Timerfd!AsInt(x) = r - (IntMax + 1)
      BY <1>3
    <2> HIDE DEF r
    <2>3. QED
      BY <1>1, <2>1, <2>2

(* It makes no difference how often the sum is put into an int.            *)
LEMMA SumOfInts == ASSUME NEW a \in Nat, NEW b \in Nat
  PROVE  Timerfd!AsInt(Timerfd!AsInt(a) + Timerfd!AsInt(b)) = Timerfd!AsInt(a + b)
  <1> DEFINE h == IntMax + 1
             m == 2 * h
  <1>1. h \in Nat /\ m \in Nat /\ m > 0 /\ Timerfd!IntMin = -h
    BY TimerAssumption DEF Timerfd!IntMin
  <1>2. ASSUME NEW x \in Int PROVE Timerfd!AsInt(x) = ((x + h) % m) - h
    <2>1. x - Timerfd!IntMin = x + h
      BY <1>1
    <2>2. Timerfd!AsInt(x) = ((x + h) % m) + (-h)
      BY <1>1, <2>1 DEF Timerfd!AsInt
    <2>3. x + h \in Int /\ (x + h) % m \in Int
      <3> HIDE DEF h, m
      <3>1. QED
        BY <1>1, Division
    <2> HIDE DEF h, m
    <2>4. QED
      BY <1>1, <2>2, <2>3
  <1> HIDE DEF h
  <1>3. ASSUME NEW x \in Nat
        PROVE  \E q \in Int : Timerfd!AsInt(x) = x - (m * q)
    <2> DEFINE q == (x + h) \div m
               r == (x + h) % m
    <2> HIDE DEF m
    <2>1. x + h = (m * q) + r /\ q \in Int /\ r \in Int
      <3>1. x + h \in Int
        BY <1>1
      <3>2. QED
        BY <1>1, <3>1, Division
    <2>2. Timerfd!AsInt(x) = r - h
      BY <1>2
    <2> HIDE DEF q, r
    <2>3. Timerfd!AsInt(x) = x - (m * q)
      BY <1>1, <2>1, <2>2
    <2>4. QED
      BY <2>1, <2>3
  <1> HIDE DEF m
  <1>4. PICK p \in Int : Timerfd!AsInt(a) = a - (m * p)
    BY <1>3
  <1>5. PICK q \in Int : Timerfd!AsInt(b) = b - (m * q)
    BY <1>3
  <1>6. Timerfd!AsInt(a) + Timerfd!AsInt(b) + h = (a + b + h) - (m * (p + q))
    BY <1>1, <1>4, <1>5
  <1>7. ((a + b + h) - (m * (p + q))) % m = (a + b + h) % m
    <2>1. a + b + h \in Int /\ p + q \in Int
      BY <1>1
    <2>2. QED
      BY <1>1, <2>1, Modulo
  <1>8. Timerfd!AsInt(a) + Timerfd!AsInt(b) \in Int
    BY <1>1, <1>4, <1>5
  <1>9. a + b \in Int
    OBVIOUS
  <1>10. QED
    BY <1>2, <1>6, <1>7, <1>8, <1>9

(* The elapsed time is rounded to the nearest millisecond.                 *)
LEMMA Rounded == ASSUME NEW m \in Nat, m > 0, NEW n \in Int
  PROVE  (((n + (m \div 2)) \div m) * m) - n \in -(m \div 2) .. (m \div 2)
  <1> DEFINE h == m \div 2
             q == (n + h) \div m
             r == (n + h) % m
  <1>1. h \in Nat /\ 2 * h <= m /\ m <= (2 * h) + 1
    OBVIOUS
  <1> HIDE DEF h
  <1>2. n + h = (m * q) + r /\ r \in 0 .. m - 1 /\ q \in Int
    <2>1. n + h \in Int
      BY <1>1
    <2>2. QED
      BY <2>1, Division
  <1> HIDE DEF q, r
  <1>3. (q * m) - n = h - r
    BY <1>1, <1>2
  <1>4. (q * m) - n \in -h .. h
    BY <1>1, <1>2, <1>3
  <1>5. QED
    BY <1>4 DEF h, q

LEMMA Thousands == Timerfd!NsecPerSec \in Nat /\ Timerfd!NsecPerMs \in Nat /\ Timerfd!NsecPerMs > 0
  BY SMT DEF Timerfd!NsecPerSec, Timerfd!NsecPerMs

LEMMA ElapsedTime ==
  ASSUME NEW t \in [sec : Nat, nsec : 0 .. Timerfd!NsecPerSec - 1],
         NEW u \in [sec : Nat, nsec : 0 .. Timerfd!NsecPerSec - 1]
  PROVE  LET ns == (u.sec - t.sec) * Timerfd!NsecPerSec + u.nsec - t.nsec
             printed == Timerfd!Elapsed(t, u)
         IN  printed[1] * Timerfd!NsecPerSec + printed[2] * Timerfd!NsecPerMs - ns
               \in -(Timerfd!NsecPerMs \div 2) .. Timerfd!NsecPerMs \div 2
  <1> DEFINE D == Timerfd!NsecPerSec
             m == Timerfd!NsecPerMs
             secs == u.sec - t.sec
             nsecs == u.nsec - t.nsec
             s == IF nsecs < 0 THEN secs - 1 ELSE secs
             n == IF nsecs < 0 THEN nsecs + D ELSE nsecs
             k == (n + (m \div 2)) \div m
  <1>1. D \in Nat /\ m \in Nat /\ m > 0
    BY Thousands
  <1>2. Timerfd!Elapsed(t, u) = <<s, k>>
    BY DEF Timerfd!Elapsed
  <1> HIDE DEF D, m
  <1>3. secs \in Int /\ nsecs \in Int
    <2>1. t.sec \in Int /\ u.sec \in Int /\ t.nsec \in Int /\ u.nsec \in Int
      BY <1>1 DEF D
    <2>2. QED
      BY <2>1
  <1> HIDE DEF secs, nsecs
  <1>4. s \in Int /\ n \in Int
    BY <1>1, <1>3
  <1>5. (s * D) + n = (secs * D) + nsecs
    <2>1. ((secs - 1) * D) + D = secs * D /\ secs * D \in Int /\ (secs - 1) * D \in Int
      BY <1>1, <1>3
    <2>2. QED
      BY <1>1, <1>3, <2>1
  <1> HIDE DEF s, n
  <1>6. (k * m) - n \in -(m \div 2) .. (m \div 2)
    BY <1>1, <1>4, Rounded
  <1>7. k \in Int /\ m \div 2 \in Int
    <2>1. m \div 2 \in Int
      BY <1>1
    <2>2. n + (m \div 2) \in Int
      BY <1>4, <2>1
    <2>3. QED
      BY <1>1, <2>1, <2>2, Division
  <1> HIDE DEF k
  <1>8. (s * D) + (k * m) - ((secs * D) + nsecs) = (k * m) - n
    <2>1. s * D \in Int /\ k * m \in Int /\ secs * D \in Int
      BY <1>1, <1>3, <1>4, <1>7
    <2>2. QED
      BY <1>3, <1>4, <1>5, <2>1
  <1>9. (u.sec - t.sec) * D + u.nsec - t.nsec = (secs * D) + nsecs
    <2>1. t.sec \in Int /\ u.sec \in Int /\ t.nsec \in Int /\ u.nsec \in Int
      BY <1>1 DEF D
    <2>2. (u.sec - t.sec) * D \in Int
      BY <1>1, <2>1
    <2>3. QED
      BY <2>1, <2>2 DEF secs, nsecs
  <1>10. QED
    BY <1>2, <1>6, <1>8, <1>9 DEF D, m

(* timerfd.cpp: the count, and where main is in its loop.                  *)
TimerInv == /\ timer_spec \in Specs /\ timer_max_loop \in MaxLoops
            /\ timer_time = Timerfd!ItimerspecFromStr(Timerfd!Format(timer_spec))
            /\ timer_taken \in Nat /\ timer_due \in Nat
            /\ timer_total_loop = Timerfd!AsInt(timer_taken)
            /\ timer_mpc \in {"timerfd_create", "timerfd_settime", "clock_start"} => timer_taken = 0
            /\ timer_mpc = "read" => timer_total_loop < timer_max_loop
            /\ timer_mpc = "exited" => timer_total_loop >= timer_max_loop
            /\ {timer_start, timer_now} \subseteq Clocks \cup {Timerfd!Zero}

LEMMA TimerInvariant == Timerfd!Spec => []TimerInv
  <1>1. Timerfd!Init => TimerInv
    <2>1. Timerfd!AsInt(0) = 0
      BY IntOfNat, TimerAssumption
    <2>2. QED
      BY <2>1 DEF Timerfd!Init, TimerInv
  <1>2. TimerInv /\ [Timerfd!Next]_(Timerfd!vars) => TimerInv'
    <2> SUFFICES ASSUME TimerInv, [Timerfd!Next]_(Timerfd!vars) PROVE TimerInv'
      OBVIOUS
    <2>1. timer_max_loop \in Int /\ timer_total_loop \in Int
      BY InInt, TimerAssumption DEF TimerInv, Timerfd!Ints, Timerfd!IntMin
    <2>2. CASE Timerfd!TimerfdCreate \/ Timerfd!TimerfdSettime
      BY <2>2 DEF TimerInv, Timerfd!TimerfdCreate, Timerfd!TimerfdSettime, Timerfd!args,
                  Timerfd!loops, Timerfd!clocks
    <2>3. CASE Timerfd!ClockStart
      <3>1. timer_total_loop = 0
        BY <2>3, IntOfNat, TimerAssumption DEF TimerInv, Timerfd!ClockStart
      <3>2. QED
        BY <2>1, <2>3, <3>1 DEF TimerInv, Timerfd!ClockStart, Timerfd!Test, Timerfd!args,
                                Timerfd!loops
    <2>4. CASE Timerfd!Read
      <3>1. timer_total_loop' = Timerfd!AsInt(Timerfd!AsInt(timer_taken) + Timerfd!AsInt(timer_due))
        BY <2>4 DEF TimerInv, Timerfd!Read
      <3>2. timer_total_loop' = Timerfd!AsInt(timer_taken + timer_due)
        BY <3>1, SumOfInts DEF TimerInv
      <3>3. /\ timer_taken' = timer_taken + timer_due /\ timer_taken' \in Nat
            /\ timer_total_loop' = Timerfd!AsInt(timer_taken')
        BY <2>4, <3>2 DEF TimerInv, Timerfd!Read
      <3>4. QED
        BY <2>4, <3>3 DEF TimerInv, Timerfd!Read, Timerfd!args, Timerfd!clocks
    <2>5. CASE Timerfd!ClockNow
      BY <2>1, <2>5 DEF TimerInv, Timerfd!ClockNow, Timerfd!Test, Timerfd!args, Timerfd!loops
    <2>6. CASE Timerfd!Error
      BY <2>6 DEF TimerInv, Timerfd!Error, Timerfd!args, Timerfd!loops, Timerfd!clocks
    <2>7. CASE Timerfd!Expire
      BY <2>7 DEF TimerInv, Timerfd!Expire, Timerfd!args, Timerfd!loops, Timerfd!clocks
    <2>8. CASE UNCHANGED Timerfd!vars
      BY <2>8 DEF TimerInv, Timerfd!vars
    <2>9. QED
      BY <2>2, <2>3, <2>4, <2>5, <2>6, <2>7, <2>8 DEF Timerfd!Next, Timerfd!MainStep, Timerfd!Ended
  <1>3. QED
    BY <1>1, <1>2, PTL DEF Timerfd!Spec

(* timerfd.cpp sets the timer that its argument asks for.                  *)
THEOREM ArgumentParsed == Spec => []Parsed
  <1>1. TimerInv => Parsed
    BY Argument, TimerAssumption DEF TimerInv, Parsed, Timerfd!Parsed
  <1>2. QED
    BY <1>1, Separation, TimerInvariant, PTL

(* timerfd.cpp prints the right counts and times, and leaves only after as *)
(* many expirations as it was asked for, even when its count overflows.    *)
THEOREM RightCounts == Spec => []PrintsRight
  <1>1. TimerInv => PrintsRight
    <2> SUFFICES ASSUME TimerInv PROVE Timerfd!PrintsRight
      BY DEF PrintsRight
    <2>1. /\ timer_max_loop \in Int /\ timer_total_loop \in Int /\ timer_taken \in Nat
          /\ IntMax \in Nat
      BY InInt, TimerAssumption DEF TimerInv, Timerfd!Ints, Timerfd!IntMin
    <2>2. /\ timer_total_loop <= timer_taken
          /\ timer_taken <= IntMax => timer_total_loop = timer_taken
      BY <2>1, IntOfNat DEF TimerInv
    <2>3. {timer_start, timer_now} \subseteq [sec : Nat, nsec : 0 .. Timerfd!NsecPerSec - 1]
      <3>1. Timerfd!Zero \in [sec : Nat, nsec : 0 .. Timerfd!NsecPerSec - 1]
        <4>1. Timerfd!NsecPerSec - 1 \in Nat
          BY SMT DEF Timerfd!NsecPerSec
        <4>2. QED
          BY <4>1 DEF Timerfd!Zero
      <3>2. QED
        BY <3>1, TimerAssumption DEF TimerInv
    <2>4. LET ns == (timer_now.sec - timer_start.sec) * Timerfd!NsecPerSec + timer_now.nsec - timer_start.nsec
              printed == Timerfd!Elapsed(timer_start, timer_now)
          IN  printed[1] * Timerfd!NsecPerSec + printed[2] * Timerfd!NsecPerMs - ns
                \in -(Timerfd!NsecPerMs \div 2) .. Timerfd!NsecPerMs \div 2
      BY <2>3, ElapsedTime
    <2>5. timer_mpc = "exited" => timer_taken >= timer_max_loop
      BY <2>1, <2>2 DEF TimerInv
    <2>6. ~Timerfd!Overflow => timer_total_loop = timer_taken
      BY <2>1, <2>2 DEF Timerfd!Overflow
    <2>7. timer_mpc = "read" /\ ~Timerfd!Overflow => timer_taken < timer_max_loop
      BY <2>6 DEF TimerInv
    <2>8. QED
      BY <2>4, <2>5, <2>6, <2>7, Zenon DEF Timerfd!PrintsRight
  <1>2. QED
    BY <1>1, Separation, TimerInvariant, PTL
-------------------------------------------------------------------------------
(* What wait.cpp, pthread_cancel.cpp and simple_thread.cpp say in the end  *)
(* is how their children or their thread have ended.                       *)
THEOREM RightResults == Spec => []Results
  <1>1. WaitInv /\ CancelInv /\ SimpleInv => Results
    BY WaitCounts DEF Results, CancelInv, SimpleInv, Cancel!Canceled, Cancel!TypeOK
  <1>2. QED
    BY <1>1, Separation, WaitInvariant, CancelInvariant, SimpleInvariant, PTL

(* wait.cpp, pthread_cancel.cpp and simple_thread.cpp go on only when all  *)
(* that they have started has ended, or after an error.                    *)
THEOREM Refinement == Spec => Implements
  BY Separation, WaitImplements, CancelImplements, SimpleImplements, PTL DEF Implements
===============================================================================
