------------------------------ MODULE PipeFilter ------------------------------
(***************************************************************************)
(* process_comm_template/pipe_filter/pipe_filter.cpp: ls | wc -l.  The     *)
(* parent makes a pipe and forks two children; the first turns the write   *)
(* end into its standard output and becomes ls, the second turns the read  *)
(* end into its standard input and becomes wc.                             *)
(*                                                                         *)
(* The program may be started with any of descriptors 0, 1 and 2 closed, so*)
(* the pipe's ends may already be where the children want them: descriptor *)
(* tables are modelled as they are.  A location is named after the call the*)
(* process is about to make: "close a" closes the end the process does not *)
(* use, "close b" the one it has duplicated.                               *)
(***************************************************************************)
EXTENDS Naturals, FiniteSetsExt

CONSTANTS Lines,     \* what ls prints
          Capacity,  \* of the pipe, in lines
          Failing,   \* the system calls that may return -1
          Killable   \* the processes that a signal may kill

Calls == {"pipe", "fork", "close", "dup2", "exec", "wait"}

ASSUME SizesAssumption == Lines \in Nat /\ Capacity \in Nat \ {0}
ASSUME FailingAssumption == Failing \subseteq Calls
ASSUME KillableAssumption == Killable \subseteq {"ls", "wc", "parent"}

Descriptors == 0 .. 4
Children == {"ls", "wc"}
Processes == Children \cup {"parent"}
ended == {"exited", "failed", "killed"}

VARIABLES pc,     \* pc[p]: where process p is
          table,  \* table[p][d]: what descriptor d of p refers to
          fd,     \* the parent's fd[0] and fd[1], which the children inherit
          pipe,   \* lines in the pipe
          wrote,  \* lines ls has written
          count,  \* lines wc has read
          waits,  \* waits the parent has done
          ignored \* SIGCHLD is ignored, which an exec inherits: no zombies are kept

vars == <<pc, table, fd, pipe, wrote, count, waits, ignored>>

Closed == [d \in Descriptors |-> "closed"]
Holders(end) == {p \in Processes : \E d \in Descriptors : table[p][d] = end}

Init == /\ pc = [p \in Processes |-> IF p = "parent" THEN "pipe" ELSE "none"]
        /\ \E inherited \in SUBSET (0 .. 2) :
             table = [p \in Processes |->
                        IF p = "parent"
                        THEN [d \in Descriptors |-> IF d \in inherited THEN "other" ELSE "closed"]
                        ELSE Closed]
        /\ fd = <<0, 0>>
        /\ pipe = 0 /\ wrote = 0 /\ count = 0 /\ waits = 0
        /\ ignored \in BOOLEAN

Goto(p, loc) == pc' = [pc EXCEPT ![p] = loc]
Close(p, d) == table' = [table EXCEPT ![p][d] = "closed"]

\* A process that ends loses its descriptors.
End(p, how) == /\ Goto(p, how)
               /\ table' = [table EXCEPT ![p] = Closed]
-------------------------------------------------------------------------------
(* The parent.                                                             *)

CreatePipe == /\ pc["parent"] = "pipe"
              /\ LET free == {d \in Descriptors : table["parent"][d] = "closed"}
                     r == Min(free)
                     w == Min(free \ {r})
                 IN  /\ fd' = <<r, w>>
                     /\ table' = [table EXCEPT !["parent"][r] = "read", !["parent"][w] = "write"]
              /\ Goto("parent", "fork")
              /\ UNCHANGED <<pipe, wrote, count, waits, ignored>>

Fork(child) == /\ pc["parent"] = "fork"
               /\ pc[child] = "none"
               /\ child = "wc" => pc["ls"] # "none"
               /\ pc' = [pc EXCEPT ![child] = "close a",
                                   !["parent"] = IF child = "ls" THEN "fork" ELSE "close a"]
               /\ table' = [table EXCEPT ![child] = table["parent"]]
               /\ UNCHANGED <<fd, pipe, wrote, count, waits, ignored>>

\* Mutant: the parent keeps the write end.
ParentKeeps == /\ \/ pc["parent"] = "close a" /\ Close("parent", fd[1]) /\ Goto("parent", "close b")
                  \/ pc["parent"] = "close b" /\ UNCHANGED table /\ Goto("parent", "wait")
               /\ UNCHANGED <<fd, pipe, wrote, count, waits, ignored>>

ParentClose == /\ \/ pc["parent"] = "close a" /\ Close("parent", fd[1]) /\ Goto("parent", "close b")
                  \/ pc["parent"] = "close b" /\ Close("parent", fd[2]) /\ Goto("parent", "wait")
               /\ UNCHANGED <<fd, pipe, wrote, count, waits, ignored>>

\* Mutant: the parent waits for one child only.
WaitOnce == /\ pc["parent"] = "wait"
            /\ ~ignored
            /\ waits < Cardinality({c \in Children : pc[c] \in ended})
            /\ waits' = waits + 1
            /\ End("parent", "exited")
            /\ UNCHANGED <<fd, pipe, wrote, count, ignored>>

\* wait(NULL) takes any child that has ended.
Wait == /\ pc["parent"] = "wait"
        /\ ~ignored
        /\ waits < Cardinality({c \in Children : pc[c] \in ended})
        /\ waits' = waits + 1
        /\ IF waits' = 2 THEN End("parent", "exited") ELSE UNCHANGED <<pc, table>>
        /\ UNCHANGED <<fd, pipe, wrote, count, ignored>>

\* The kernel forgets the children as they end: wait blocks until the last has, then
\* says ECHILD, and main returns -1.
NoChild == /\ pc["parent"] = "wait"
           /\ ignored
           /\ \A c \in Children : pc[c] \in ended
           /\ End("parent", "failed")
           /\ UNCHANGED <<fd, pipe, wrote, count, waits, ignored>>
-------------------------------------------------------------------------------
(* The children, up to exec.                                               *)

Std(child) == IF child = "ls" THEN 1 ELSE 0      \* STDOUT_FILENO, STDIN_FILENO
Used(child) == IF child = "ls" THEN fd[2] ELSE fd[1]
Unused(child) == IF child = "ls" THEN fd[1] ELSE fd[2]

\* Mutant: the child duplicates and closes, even if the end is in its place.
DupAlways(child) == /\ pc[child] = "close a"
                    /\ Close(child, Unused(child))
                    /\ Goto(child, "dup2")
                    /\ UNCHANGED <<fd, pipe, wrote, count, waits, ignored>>

CloseUnused(child) == /\ pc[child] = "close a"
                      /\ Close(child, Unused(child))
                      /\ Goto(child, IF Used(child) # Std(child) THEN "dup2" ELSE "exec")
                      /\ UNCHANGED <<fd, pipe, wrote, count, waits, ignored>>

\* Mutant: the arguments of dup2 are swapped.
DupSwapped(child) == /\ pc[child] = "dup2"
                     /\ table' = [table EXCEPT ![child][Used(child)] = table[child][Std(child)]]
                     /\ Goto(child, "close b")
                     /\ UNCHANGED <<fd, pipe, wrote, count, waits, ignored>>

\* dup2 closes Std(child) first if it is open.
Dup2(child) == /\ pc[child] = "dup2"
               /\ table' = [table EXCEPT ![child][Std(child)] = table[child][Used(child)]]
               /\ Goto(child, "close b")
               /\ UNCHANGED <<fd, pipe, wrote, count, waits, ignored>>

CloseUsed(child) == /\ pc[child] = "close b"
                    /\ Close(child, Used(child))
                    /\ Goto(child, "exec")
                    /\ UNCHANGED <<fd, pipe, wrote, count, waits, ignored>>

Exec(child) == /\ pc[child] = "exec"
               /\ Goto(child, "run")
               /\ UNCHANGED <<table, fd, pipe, wrote, count, waits, ignored>>

\* When execlp returns, the child leaves with exit(0).
ExecError(child) == /\ pc[child] = "exec"
                    /\ "exec" \in Failing
                    /\ End(child, "failed")
                    /\ UNCHANGED <<fd, pipe, wrote, count, waits, ignored>>

\* pipe, fork, close, dup2 or wait fails: the process ends.
Call(loc) == IF loc \in {"close a", "close b"} THEN "close" ELSE loc

Error(p) == /\ Call(pc[p]) \in Failing \ {"exec"}
            /\ End(p, "failed")
            /\ UNCHANGED <<fd, pipe, wrote, count, waits, ignored>>
-------------------------------------------------------------------------------
(* ls and wc themselves are not part of the repository: one writes lines to*)
(* its descriptor 1 and ends, the other reads its descriptor 0 to the end. *)
(* On another file than the pipe they come to their end by themselves.     *)

LsWrite == /\ pc["ls"] = "run"
           /\ wrote < Lines
           /\ table["ls"][1] = "write"
           /\ Holders("read") # {}
           /\ pipe < Capacity
           /\ pipe' = pipe + 1
           /\ wrote' = wrote + 1
           /\ UNCHANGED <<pc, table, fd, count, waits, ignored>>

LsEnd == /\ pc["ls"] = "run"
         /\ \/ wrote = Lines /\ End("ls", "exited")
            \/ table["ls"][1] # "write" /\ End("ls", "exited")
            \/ wrote < Lines /\ table["ls"][1] = "write"
               /\ Holders("read") = {}    \* SIGPIPE
               /\ End("ls", "killed")
         /\ UNCHANGED <<fd, pipe, wrote, count, waits, ignored>>

WcRead == /\ pc["wc"] = "run"
          /\ table["wc"][0] = "read"
          /\ pipe > 0
          /\ pipe' = pipe - 1
          /\ count' = count + 1
          /\ UNCHANGED <<pc, table, fd, wrote, waits, ignored>>

WcEnd == /\ pc["wc"] = "run"
         /\ table["wc"][0] = "read" => pipe = 0 /\ Holders("write") = {}
         /\ End("wc", "exited")
         /\ UNCHANGED <<fd, pipe, wrote, count, waits, ignored>>

ParentStep == CreatePipe \/ (\E c \in Children : Fork(c)) \/ ParentClose \/ Wait \/ NoChild

ChildStep(c) == \/ CloseUnused(c) \/ Dup2(c) \/ CloseUsed(c) \/ Exec(c)
                \/ c = "ls" /\ (LsWrite \/ LsEnd)
                \/ c = "wc" /\ (WcRead \/ WcEnd)

Kill(p) == /\ p \in Killable
           /\ pc[p] \notin ended \cup {"none"}
           /\ End(p, "killed")
           /\ UNCHANGED <<fd, pipe, wrote, count, waits, ignored>>

Ended == (\A p \in Processes : pc[p] \in ended \cup {"none"}) /\ UNCHANGED vars

Next == \/ ParentStep
        \/ \E c \in Children : ChildStep(c) \/ ExecError(c)
        \/ \E p \in Processes : Error(p) \/ Kill(p)
        \/ Ended

Spec == Init /\ [][Next]_vars

\* The kernel runs every process that can run; no call need fail and none be killed.
FairSpec == Spec /\ WF_vars(ParentStep) /\ \A c \in Children : WF_vars(ChildStep(c))
-------------------------------------------------------------------------------
(* TypeOK: the ranges of the variables.                                    *)
TypeOK == /\ pc \in [Processes -> {"pipe", "fork", "close a", "dup2", "close b", "exec", "run",
                                   "wait", "none"} \cup ended]
          /\ \A c \in Children : pc[c] \notin {"pipe", "fork", "wait"}
          /\ table \in [Processes -> [Descriptors -> {"closed", "other", "read", "write"}]]
          /\ fd \in Descriptors \X Descriptors
          /\ pipe \in 0 .. Capacity
          /\ wrote \in 0 .. Lines
          /\ count \in 0 .. Lines
          /\ waits \in 0 .. 2
          /\ ignored \in BOOLEAN

(* Plumbed: a child runs its program with its end of the pipe where the    *)
(* program looks for it, on no other descriptor, and without the other end *)
(* (with which ls would never get SIGPIPE and wc never see the end of its  *)
(* input), whichever of 0, 1 and 2 were closed when main was started.      *)
Plumbed == \A c \in Children : pc[c] = "run" =>
             \A d \in Descriptors :
               /\ (table[c][d] = (IF c = "ls" THEN "write" ELSE "read")) <=> (d = Std(c))
               /\ table[c][d] # (IF c = "ls" THEN "read" ELSE "write")

(* CountsAll: if both programs came to their own end, wc has counted every *)
(* line of ls.                                                             *)
CountsAll == pc["ls"] = "exited" /\ pc["wc"] = "exited" => count = Lines

(* Implements: the parent returns 0 only when both children have ended.    *)
Abstract == INSTANCE ForkJoin WITH
  Workers <- Children,
  worker <- [c \in Children |-> IF pc[c] = "none" THEN "idle"
                                ELSE IF pc[c] \in ended THEN "finished" ELSE "active"],
  parent <- IF pc["parent"] = "exited" THEN "through"
            ELSE IF pc["parent"] \in {"failed", "killed"} THEN "gaveup" ELSE "waiting"
Implements == Abstract!Spec

(* Terminates: all three processes end: nobody waits for an end-of-file or *)
(* for room in the pipe that never comes.                                  *)
Terminates == <>(\A p \in Processes : pc[p] \in ended \cup {"none"})
===============================================================================
