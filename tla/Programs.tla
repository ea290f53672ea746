------------------------------- MODULE Programs -------------------------------
(***************************************************************************)
(* The small programs of process_template, thread_template and             *)
(* timer_template next to each other.  They have nothing in common but the *)
(* kernel, so one of them is chosen and run; the variables of the others   *)
(* keep their initial values.                                              *)
(***************************************************************************)
EXTENDS Integers, Sequences, FiniteSets

CONSTANTS WaitN,
          Args, Absent, StopSignals, KillSignals,
          Creators, Writers, Readers, Unlinkers, len, CreateSize, Page,
          Specs, Clocks, MaxLoops, IntMax, MaxExpired,
          Length, Garbage,
          Failing     \* for all of them

Calls == {"fork", "wait", "waitpid", "sigprocmask", "sigaction", "on_exit", "atexit",
          "shm_open", "ftruncate", "fstat", "mmap", "close", "shm_unlink",
          "timerfd_create", "timerfd_settime", "clock_gettime", "read",
          "pthread_create", "pthread_cancel", "pthread_join"}

ASSUME FailingAssumption == Failing \subseteq Calls
ASSUME WaitAssumption == WaitN \in Nat
ASSUME ChildStatusAssumption == Args \subseteq Int /\ StopSignals \cup KillSignals \subseteq 1 .. 126

\* Nobody runs two of the programs; the data, 11 bytes, is shorter than the object that
\* posix_shm_create asks for and shorter than a page.
ASSUME ShmAssumption ==
  /\ IsFiniteSet(Creators)
  /\ Creators \cap (Writers \cup Readers \cup Unlinkers) = {}
  /\ Writers \cap (Readers \cup Unlinkers) = {} /\ Readers \cap Unlinkers = {}
  /\ {len, CreateSize, Page} \subseteq Nat
  /\ 0 < len /\ len <= CreateSize /\ len < Page

VARIABLES program     \* the one that runs

VARIABLES wait_mpc, wait_child, wait_i, wait_num_dead, wait_ignored
wait_vars == <<wait_mpc, wait_child, wait_i, wait_num_dead, wait_ignored>>

VARIABLES status_mpc, status_cpc, status_arg, status_status, status_autoreap, status_last,
          status_printed
status_vars == <<status_mpc, status_cpc, status_arg, status_status, status_autoreap,
                 status_last, status_printed>>

VARIABLES process_mpc, process_cpc, process_blocked, process_origin_mask, process_caught,
          process_pending, process_registered, process_output, process_target, process_sent,
          process_stray
process_vars == <<process_mpc, process_cpc, process_blocked, process_origin_mask,
                  process_caught, process_pending, process_registered, process_output,
                  process_target, process_sent, process_stray>>

VARIABLES shm_pc, shm_name, shm_made, shm_size, shm_bytes, shm_obj, shm_mapped, shm_at,
          shm_left, shm_done, shm_before
shm_vars == <<shm_pc, shm_name, shm_made, shm_size, shm_bytes, shm_obj, shm_mapped, shm_at,
              shm_left, shm_done, shm_before>>

VARIABLES timer_mpc, timer_spec, timer_time, timer_max_loop, timer_armed, timer_due,
          timer_taken, timer_num_loop, timer_total_loop, timer_start, timer_now
timer_vars == <<timer_mpc, timer_spec, timer_time, timer_max_loop, timer_armed, timer_due,
                timer_taken, timer_num_loop, timer_total_loop, timer_start, timer_now>>

VARIABLES cancel_mpc, cancel_thread, cancel_canceled, cancel_lock, cancel_message
cancel_vars == <<cancel_mpc, cancel_thread, cancel_canceled, cancel_lock, cancel_message>>

VARIABLES simple_mpc, simple_thread, simple_errors, simple_back_code
simple_vars == <<simple_mpc, simple_thread, simple_errors, simple_back_code>>
-------------------------------------------------------------------------------
Wait == INSTANCE Wait WITH
  N <- WaitN, mpc <- wait_mpc, child <- wait_child, i <- wait_i, num_dead <- wait_num_dead,
  ignored <- wait_ignored

ChildStatus == INSTANCE ChildStatus WITH
  mpc <- status_mpc, cpc <- status_cpc, arg <- status_arg, status <- status_status,
  autoreap <- status_autoreap, last <- status_last, printed <- status_printed

Process == INSTANCE Process WITH
  mpc <- process_mpc, cpc <- process_cpc, blocked <- process_blocked,
  origin_mask <- process_origin_mask, caught <- process_caught, pending <- process_pending,
  registered <- process_registered, output <- process_output, target <- process_target,
  sent <- process_sent, stray <- process_stray

PosixShm == INSTANCE PosixShm WITH
  pc <- shm_pc, name <- shm_name, made <- shm_made, size <- shm_size, bytes <- shm_bytes,
  obj <- shm_obj, mapped <- shm_mapped, at <- shm_at, left <- shm_left, done <- shm_done,
  before <- shm_before

Timerfd == INSTANCE Timerfd WITH
  mpc <- timer_mpc, spec <- timer_spec, time <- timer_time, max_loop <- timer_max_loop,
  armed <- timer_armed, due <- timer_due, taken <- timer_taken, num_loop <- timer_num_loop,
  total_loop <- timer_total_loop, start <- timer_start, now <- timer_now

Cancel == INSTANCE Cancel WITH
  mpc <- cancel_mpc, thread <- cancel_thread, canceled <- cancel_canceled,
  lock <- cancel_lock, message <- cancel_message

SimpleThread == INSTANCE SimpleThread WITH
  mpc <- simple_mpc, thread <- simple_thread, errors <- simple_errors,
  back_code <- simple_back_code

\* The first argument is one or two parts of one or two numbers each; the nanoseconds of a
\* clock do not make a second.
ASSUME TimerAssumption ==
  /\ \A s \in Specs : /\ s \in Seq(Seq(Nat))
                      /\ Len(s) \in 1 .. 2
                      /\ \A k \in DOMAIN s : Len(s[k]) \in 1 .. 2
  /\ Clocks \subseteq [sec : Nat, nsec : 0 .. Timerfd!NsecPerSec - 1]
  /\ MaxLoops \subseteq Int /\ {IntMax, MaxExpired} \subseteq Nat

All == {"wait", "child_status", "process", "posix_shm", "timerfd", "cancel", "simple_thread"}

vars == <<program, wait_vars, status_vars, process_vars, shm_vars, timer_vars, cancel_vars,
          simple_vars>>
-------------------------------------------------------------------------------
\* The inputs of the programs that do not run are all the same.
Init == /\ program \in All
        /\ Wait!Init /\ ChildStatus!Init /\ Process!Init /\ PosixShm!Init /\ Timerfd!Init
        /\ Cancel!Init /\ SimpleThread!Init
        /\ program # "wait" => ~wait_ignored
        /\ program # "child_status" => status_arg = Absent /\ ~status_autoreap
        /\ program # "process" => ~process_origin_mask
        /\ program # "timerfd" => /\ timer_spec = CHOOSE s \in Specs : TRUE
                                  /\ timer_max_loop = CHOOSE n \in MaxLoops : TRUE
        /\ program # "simple_thread" => simple_back_code = CHOOSE g \in Garbage : TRUE

Others == /\ IF program = "wait" THEN TRUE ELSE UNCHANGED wait_vars
          /\ IF program = "child_status" THEN TRUE ELSE UNCHANGED status_vars
          /\ IF program = "process" THEN TRUE ELSE UNCHANGED process_vars
          /\ IF program = "posix_shm" THEN TRUE ELSE UNCHANGED shm_vars
          /\ IF program = "timerfd" THEN TRUE ELSE UNCHANGED timer_vars
          /\ IF program = "cancel" THEN TRUE ELSE UNCHANGED cancel_vars
          /\ IF program = "simple_thread" THEN TRUE ELSE UNCHANGED simple_vars
          /\ UNCHANGED program

Next == \/ program = "wait" /\ Wait!Next /\ Others
        \/ program = "child_status" /\ ChildStatus!Next /\ Others
        \/ program = "process" /\ Process!Next /\ Others
        \/ program = "posix_shm" /\ PosixShm!Next /\ Others
        \/ program = "timerfd" /\ Timerfd!Next /\ Others
        \/ program = "cancel" /\ Cancel!Next /\ Others
        \/ program = "simple_thread" /\ SimpleThread!Next /\ Others

Spec == Init /\ [][Next]_vars

\* Fairness of the program that runs.  The kernel runs every main and every thread; no call
\* need fail and nobody need be killed.  A child of wait.cpp or of process.cpp wakes up from
\* its sleep; nothing is assumed of the child of child_status.cpp.  The clock of an armed
\* timer runs.  A thread that blocks after it has been cancelled acts on it, so it cannot
\* come too late each time.
FairSpec == /\ Spec
            /\ WF_vars(program = "wait" /\ Wait!MainStep /\ Others)
            /\ \A c \in 1 .. WaitN : WF_vars(program = "wait" /\ Wait!End(c) /\ Others)
            /\ WF_vars(program = "child_status" /\ ChildStatus!MainStep /\ Others)
            /\ WF_vars(program = "process" /\ Process!MainStep /\ Others)
            /\ WF_vars(program = "process" /\ Process!ChildStep /\ Others)
            /\ WF_vars(program = "timerfd" /\ Timerfd!MainStep /\ Others)
            /\ WF_vars(program = "timerfd" /\ Timerfd!Expire /\ Others)
            /\ WF_vars(program = "cancel" /\ Cancel!MainStep /\ Others)
            /\ WF_vars(program = "cancel" /\ Cancel!ThreadStep /\ Others)
            /\ SF_vars(program = "cancel" /\ Cancel!ActOnCancel /\ Others)
            /\ WF_vars(program = "simple_thread" /\ SimpleThread!MainStep /\ Others)
            /\ WF_vars(program = "simple_thread" /\ SimpleThread!ThreadFunc /\ Others)
-------------------------------------------------------------------------------
(* Implements: wait.cpp, pthread_cancel.cpp and simple_thread.cpp implement*)
(* ForkJoin: their main goes on only when all that it has started has ended*)
(* or after an error.                                                      *)
Implements == Wait!Implements /\ Cancel!Implements /\ SimpleThread!Implements

(* Reports: child_status.cpp prints what has happened to its child last.   *)
Reports == ChildStatus!Reports

(* Handshake: in process.cpp the parent waits for its own child's signal.  *)
Handshake == Process!Handshake

(* ExitHandlers: process.cpp runs the exit functions of the parent, in     *)
(* reverse, and those of the child never.                                  *)
ExitHandlers == Process!ExitHandlers

(* NoFault: the posix_shm programs never touch memory that is not there.   *)
NoFault == PosixShm!NoFault

(* ReadsWhatWasWritten: posix_shm_read prints all that was written before. *)
ReadsWhatWasWritten == PosixShm!ReadsWhatWasWritten

(* Parsed: timerfd.cpp sets the timer that its argument asks for.          *)
Parsed == Timerfd!Parsed

(* PrintsRight: timerfd.cpp prints the right counts and times.             *)
PrintsRight == Timerfd!PrintsRight

(* Results: what wait.cpp, pthread_cancel.cpp and simple_thread.cpp say in*)
(* the end of their children or of their thread is how they have ended.    *)
Results == Wait!CountsDead /\ Cancel!Canceled /\ SimpleThread!Returned

(* Terminates: the program that runs ends, unless what it waits for never  *)
(* happens: see the property of that program.                              *)
Terminates == /\ Wait!WaitLeadsToExit
              /\ ChildStatus!EndLeadsToExit
              /\ Process!SignalEndsWait
              /\ Timerfd!EnoughLeadsToExit
              /\ Cancel!CreatedLeadsToExit
              /\ SimpleThread!CreatedLeadsToExit
===============================================================================
