----------------------------- MODULE SimpleThread -----------------------------
(***************************************************************************)
(* thread_template/simple_thread/simple_thread.cpp: create a thread, join  *)
(* it and print the length that it returns.  main goes on after an error:  *)
(* the thread id, or the result, is uninitialised memory then.             *)
(***************************************************************************)
EXTENDS Naturals

CONSTANTS Length,   \* strlen("Hello World")
          Garbage,  \* what uninitialised memory may look like as a number
          Failing   \* the pthread calls that may return an error

Calls == {"pthread_create", "pthread_join"}

VARIABLES mpc,       \* where main is, by its next call; or "lost": see JoinGarbage
          thread,    \* "none", "running" or "returned"
          errors,    \* the calls main has reported as failed
          back_code

vars == <<mpc, thread, errors, back_code>>

Init == /\ mpc = "pthread_create"
        /\ thread = "none"
        /\ errors = {}
        /\ back_code \in Garbage
-------------------------------------------------------------------------------
Create == /\ mpc = "pthread_create"
          /\ mpc' = "pthread_join"
          /\ thread' = "running"
          /\ UNCHANGED <<errors, back_code>>

CreateError == /\ mpc = "pthread_create"
               /\ "pthread_create" \in Failing
               /\ mpc' = "pthread_join"
               /\ errors' = errors \cup {"pthread_create"}
               /\ UNCHANGED <<thread, back_code>>

\* Mutant: the result is taken when it may not be there yet.
JoinTooEarly == /\ mpc = "pthread_join"
                /\ thread # "none"
                /\ mpc' = "exited"
                /\ back_code' = IF thread = "returned" THEN Length ELSE back_code
                /\ UNCHANGED <<thread, errors>>

Join == /\ mpc = "pthread_join"
        /\ thread = "returned"
        /\ mpc' = "exited"
        /\ back_code' = Length
        /\ UNCHANGED <<thread, errors>>

JoinError == /\ mpc = "pthread_join"
             /\ thread # "none"
             /\ "pthread_join" \in Failing
             /\ mpc' = "exited"
             /\ errors' = errors \cup {"pthread_join"}
             /\ UNCHANGED <<thread, back_code>>

\* pid was never set.  The library may see that there is no such thread, or crash on what
\* it takes for one, or wait for it for ever.
JoinGarbage == /\ mpc = "pthread_join"
               /\ thread = "none"
               /\ \/ mpc' = "exited" /\ errors' = errors \cup {"pthread_join"}
                  \/ mpc' = "lost" /\ UNCHANGED errors
               /\ UNCHANGED <<thread, back_code>>

MainStep == Create \/ Join

Error == CreateError \/ JoinError \/ JoinGarbage

\* ThreadFunc prints its argument and returns the length.
ThreadFunc == /\ thread = "running"
              /\ mpc # "exited"
              /\ thread' = "returned"
              /\ UNCHANGED <<mpc, errors, back_code>>

Ended == mpc \in {"exited", "lost"} /\ UNCHANGED vars

Next == MainStep \/ Error \/ ThreadFunc \/ Ended

Spec == Init /\ [][Next]_vars
-------------------------------------------------------------------------------
(* TypeOK: the ranges of the variables.                                    *)
TypeOK == /\ mpc \in Calls \cup {"exited", "lost"}
          /\ thread \in {"none", "running", "returned"}
          /\ errors \subseteq Calls
          /\ back_code \in Garbage \cup {Length}

(* Implements: main goes on without the thread's end only after an error.  *)
Abstract == INSTANCE ForkJoin WITH
  Workers <- {"thread"},
  worker <- [w \in {"thread"} |-> IF thread = "none" THEN "idle"
                                  ELSE IF thread = "running" THEN "active" ELSE "finished"],
  parent <- IF errors # {} \/ mpc = "lost" THEN "gaveup"
            ELSE IF mpc = "exited" THEN "through" ELSE "waiting"
Implements == Abstract!Spec

(* Returned: the number printed is the length the thread has returned; it  *)
(* is what happened to be in memory only after an error that was printed.  *)
Returned == mpc = "exited" => \/ back_code = Length /\ thread = "returned"
                              \/ errors # {}

(* CreatedLeadsToExit: main ends if the thread could be created.           *)
CreatedLeadsToExit == thread # "none" ~> mpc = "exited"
===============================================================================
