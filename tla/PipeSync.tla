------------------------------- MODULE PipeSync -------------------------------
(***************************************************************************)
(* process_comm_template/pipe_sync/pipe_sync.cpp: a pipe as a barrier.     *)
(* Nothing is ever written to it: the parent's read returns 0 when no      *)
(* process holds the write end any more.  A child inherits the write end   *)
(* with fork and closes it when its work (a sleep) is done.  Who holds the *)
(* read end makes no difference, as nobody writes; only the error paths of *)
(* its close are kept.                                                     *)
(***************************************************************************)
EXTENDS Naturals

CONSTANTS N,        \* argc - 1: one child per sleep time on the command line
          Failing,  \* the system calls that may return -1
          Killable  \* the children that a signal may kill

Calls == {"pipe", "fork", "close", "read"}

\* With fewer than two arguments main prints its usage and returns.
ASSUME NAssumption == N \in Nat \ {0}
ASSUME FailingAssumption == Failing \subseteq Calls

Children == 1 .. N
Parent == 0

ASSUME KillableAssumption == Killable \subseteq Children

VARIABLES mpc,     \* where the parent is, by its next system call
          cpc,     \* where each child is
          i,       \* the parent's loop variable
          writers  \* the processes that hold the write end

vars == <<mpc, cpc, i, writers>>

Init == /\ mpc = "pipe"
        /\ cpc = [c \in Children |-> "none"]
        /\ i = 1
        /\ writers = {}
-------------------------------------------------------------------------------
CreatePipe == /\ mpc = "pipe"
              /\ writers' = {Parent}
              /\ mpc' = "fork"
              /\ UNCHANGED <<cpc, i>>

\* The child starts with a copy of the parent's descriptors.
Fork == /\ mpc = "fork"
        /\ i <= N
        /\ cpc' = [cpc EXCEPT ![i] = "close0"]
        /\ writers' = IF Parent \in writers THEN writers \cup {i} ELSE writers
        /\ i' = i + 1
        /\ UNCHANGED mpc

\* Mutant: the parent keeps its write end.
ParentKeeps == /\ mpc = "fork"
               /\ i > N
               /\ mpc' = "read"
               /\ UNCHANGED <<cpc, i, writers>>

ParentClose == /\ mpc = "fork"
               /\ i > N
               /\ writers' = writers \ {Parent}
               /\ mpc' = "read"
               /\ UNCHANGED <<cpc, i>>

\* Mutant: the read does not block.
ParentPolls == /\ mpc = "read"
               /\ mpc' = "exited"
               /\ UNCHANGED <<cpc, i, writers>>

\* The read blocks while anybody could still write; then it returns 0.
ParentRead == /\ mpc = "read"
              /\ writers = {}
              /\ mpc' = "exited"
              /\ UNCHANGED <<cpc, i, writers>>

\* The close of line 76 fails once all children are forked.  A process that
\* ends has all its descriptors closed by the kernel.
ParentError == /\ \/ mpc \in Failing /\ (mpc = "fork" => i <= N)
                  \/ mpc = "fork" /\ i > N /\ "close" \in Failing
               /\ mpc' = "failed"
               /\ writers' = writers \ {Parent}
               /\ UNCHANGED <<cpc, i>>

ParentStep == CreatePipe \/ Fork \/ ParentClose \/ ParentRead
-------------------------------------------------------------------------------
ChildCloseRead(c) == /\ cpc[c] = "close0"
                     /\ cpc' = [cpc EXCEPT ![c] = "sleep"]
                     /\ UNCHANGED <<mpc, i, writers>>

\* After its sleep; what is left of the child is a message and its exit.
ChildCloseWrite(c) == /\ cpc[c] = "sleep"
                      /\ cpc' = [cpc EXCEPT ![c] = "print"]
                      /\ writers' = writers \ {c}
                      /\ UNCHANGED <<mpc, i>>

ChildExit(c) == /\ cpc[c] = "print"
                /\ cpc' = [cpc EXCEPT ![c] = "exited"]
                /\ UNCHANGED <<mpc, i, writers>>

\* One of its closes fails and it returns -1.
ChildError(c) == /\ "close" \in Failing
                 /\ cpc[c] \in {"close0", "sleep"}
                 /\ cpc' = [cpc EXCEPT ![c] = "exited"]
                 /\ writers' = writers \ {c}
                 /\ UNCHANGED <<mpc, i>>

Child(c) == ChildCloseRead(c) \/ ChildCloseWrite(c) \/ ChildExit(c)

\* A signal kills a child wherever it is.
Kill(c) == /\ c \in Killable
           /\ cpc[c] \notin {"none", "exited"}
           /\ cpc' = [cpc EXCEPT ![c] = "exited"]
           /\ writers' = writers \ {c}
           /\ UNCHANGED <<mpc, i>>

Ended == mpc \in {"exited", "failed"} /\ UNCHANGED vars

Next == \/ ParentStep \/ ParentError
        \/ \E c \in Children : Child(c) \/ ChildError(c) \/ Kill(c)
        \/ Ended

Spec == Init /\ [][Next]_vars

\* The kernel runs every process; a sleep ends.  No call need fail and no child
\* be killed.
FairSpec == Spec /\ WF_vars(ParentStep) /\ \A c \in Children : WF_vars(Child(c))
-------------------------------------------------------------------------------
(* TypeOK: the ranges of the variables.                                    *)
TypeOK == /\ mpc \in {"pipe", "fork", "read", "exited", "failed"}
          /\ cpc \in [Children -> {"none", "close0", "sleep", "print", "exited"}]
          /\ i \in 1 .. N + 1
          /\ writers \in SUBSET (Children \cup {Parent})

(* WriteEnd: exactly the children that have still to do their work, and the*)
(* parent until it has forked them all, hold the write end: a child that   *)
(* is done, killed or in error never keeps the barrier shut, and the first *)
(* child to end before the last is forked never opens it.                  *)
Working(c) == cpc[c] \in {"close0", "sleep"}
WriteEnd == writers = {c \in Children : Working(c)} \cup (IF mpc = "fork" THEN {Parent} ELSE {})

(* Implements: the parent goes on only when every child has been forked    *)
(* and has given up the write end (by its close or by its death).          *)
Abstract == INSTANCE ForkJoin WITH
  Workers <- Children,
  worker <- [c \in Children |-> IF cpc[c] = "none" THEN "idle"
                                ELSE IF Working(c) THEN "active" ELSE "finished"],
  parent <- IF mpc = "exited" THEN "through"
            ELSE IF mpc = "failed" THEN "gaveup" ELSE "waiting"
Implements == Abstract!Spec

(* Terminates: the parent's wait ends.                                     *)
Terminates == <>(mpc \in {"exited", "failed"})

===============================================================================
