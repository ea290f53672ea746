-------------------------------- MODULE Cancel --------------------------------
(***************************************************************************)
(* thread_template/pthread_cancel/pthread_cancel.cpp: main cancels a thread*)
(* that prints for ever, and joins it.  A cancellation is acted on where   *)
(* the thread may block: in sleep, and in the write that printf makes while*)
(* it holds the lock of stdout, which main needs for its own message.      *)
(***************************************************************************)
CONSTANT Failing    \* the pthread calls that may return an error

Calls == {"pthread_create", "pthread_cancel", "pthread_join"}

VARIABLES mpc,       \* where main is, by its next call
          thread,    \* "none", "printf", "write", "sleep", "canceled"
          canceled,  \* the thread has been asked to end
          lock,      \* the lock of stdout: "free" or "thread"
          message    \* what main has said of the thread

vars == <<mpc, thread, canceled, lock, message>>

Init == /\ mpc = "pthread_create"
        /\ thread = "none"
        /\ canceled = FALSE
        /\ lock = "free"
        /\ message = "none"

Dead == mpc \in {"exited", "failed"}
-------------------------------------------------------------------------------
Create == /\ mpc = "pthread_create"
          /\ mpc' = "pthread_cancel"
          /\ thread' = "printf"
          /\ UNCHANGED <<canceled, lock, message>>

\* Three seconds later.
PthreadCancel == /\ mpc = "pthread_cancel"
                 /\ mpc' = "pthread_join"
                 /\ canceled' = TRUE
                 /\ UNCHANGED <<thread, lock, message>>

Join == /\ mpc = "pthread_join"
        /\ thread = "canceled"
        /\ mpc' = "printf"
        /\ UNCHANGED <<thread, canceled, lock, message>>

\* The result is PTHREAD_CANCELED if the thread has not returned one of its own.
Report == /\ mpc = "printf"
          /\ lock = "free"
          /\ mpc' = "exited"
          /\ message' = IF thread = "canceled" THEN "was canceled" ELSE "was not canceled"
          /\ UNCHANGED <<thread, canceled, lock>>

\* Nor can the error be reported while the lock is held.
Error == /\ mpc \in Failing
         /\ lock = "free"
         /\ mpc' = "failed"
         /\ UNCHANGED <<thread, canceled, lock, message>>

MainStep == Create \/ PthreadCancel \/ Join \/ Report
-------------------------------------------------------------------------------
(* ThreadFunc, which the end of main ends too.                             *)

Printf == /\ thread = "printf" /\ ~Dead
          /\ lock = "free"
          /\ lock' = "thread"
          /\ thread' = "write"
          /\ UNCHANGED <<mpc, canceled, message>>

Written == /\ thread = "write" /\ ~Dead
           /\ lock' = "free"
           /\ thread' = "sleep"
           /\ UNCHANGED <<mpc, canceled, message>>

Slept == /\ thread = "sleep" /\ ~Dead
         /\ thread' = "printf"
         /\ UNCHANGED <<mpc, canceled, lock, message>>

\* The C library unlocks stdout on the way.
ActOnCancel == /\ thread \in {"write", "sleep"} /\ ~Dead
               /\ canceled
               /\ thread' = "canceled"
               /\ lock' = "free"
               /\ UNCHANGED <<mpc, canceled, message>>

ThreadStep == Printf \/ (~canceled /\ (Written \/ Slept)) \/ ActOnCancel

\* A write or a sleep that was over just when the cancellation came.
TooLate == canceled /\ (Written \/ Slept)

Ended == Dead /\ UNCHANGED vars

Next == MainStep \/ Error \/ ThreadStep \/ TooLate \/ Ended

Spec == Init /\ [][Next]_vars
-------------------------------------------------------------------------------
(* TypeOK: the ranges of the variables.                                    *)
TypeOK == /\ mpc \in Calls \cup {"printf", "exited", "failed"}
          /\ thread \in {"none", "printf", "write", "sleep", "canceled"}
          /\ canceled \in BOOLEAN
          /\ lock \in {"free", "thread"}
          /\ message \in {"none", "was canceled", "was not canceled"}

(* Implements: main says that the thread was cancelled only when it is gone*)
(* and does not use stdout any more.                                       *)
Abstract == INSTANCE ForkJoin WITH
  Workers <- {"thread"},
  worker <- [w \in {"thread"} |-> IF thread = "none" THEN "idle"
                                  ELSE IF thread = "canceled" THEN "finished" ELSE "active"],
  parent <- IF mpc \in {"printf", "exited"} THEN "through"
            ELSE IF mpc = "failed" THEN "gaveup" ELSE "waiting"
Implements == Abstract!Spec

(* Canceled: the thread main has joined has ended by the cancellation and  *)
(* not otherwise, wherever it was, and it has left the lock behind free.   *)
Canceled == mpc \in {"printf", "exited"} => /\ thread = "canceled" /\ lock = "free"
                                            /\ message \in {"none", "was canceled"}

(* CreatedLeadsToExit: main ends: the thread cannot but be cancelled, and  *)
(* it does not keep the lock that main's message needs.                    *)
CreatedLeadsToExit == mpc = "pthread_cancel" ~> Dead
===============================================================================
