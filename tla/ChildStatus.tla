----------------------------- MODULE ChildStatus -----------------------------
(***************************************************************************)
(* process_template/child_status/child_status.cpp: fork one child and print*)
(* every change of its state, with common/wait_status/wait_status.cpp,     *)
(* until it has ended.  The child exits with the number on the command     *)
(* line, if there is one; else it pauses until a signal ends it.           *)
(***************************************************************************)
EXTENDS Integers

CONSTANTS Args,       \* what argv[1] may be as an int; Absent: there is none
          Absent,     \* an int that nobody asks for as exit status
          StopSignals, KillSignals,    \* by number
          Failing     \* the system calls that may return -1

VARIABLES mpc,       \* where main is, by its next system call
          cpc,       \* the child: "none", "started", "stopped" or "ended"
          arg,       \* argv[1]
          status,    \* the child's status that waitpid has not reported yet, or None
          autoreap,  \* SIGCHLD is ignored: the end of the child is not kept for main
          last,      \* history: what happened to the child last
          printed    \* history: what PrintWaitStatus has said last

vars == <<mpc, cpc, arg, status, autoreap, last, printed>>

None == -1
-------------------------------------------------------------------------------
(* The kernel's encoding of what happened to a child, and the macros that  *)
(* PrintWaitStatus takes it apart with.                                    *)

Exited(code) == [kind |-> "exited", number |-> code]
Killed(sig, core) == [kind |-> IF core THEN "dumped" ELSE "killed", number |-> sig]
Stopped(sig) == [kind |-> "stopped", number |-> sig]
Continued == [kind |-> "continued", number |-> 0]
Nothing == [kind |-> "nothing", number |-> 0]

Encode(e) == CASE e.kind = "exited" -> e.number * 256
               [] e.kind = "killed" -> e.number
               [] e.kind = "dumped" -> e.number + 128
               [] e.kind = "stopped" -> e.number * 256 + 127
               [] e.kind = "continued" -> 65535

HighByte(s) == (s \div 256) % 256
Low7(s) == s % 128

\* Mutant: killed is whatever has not exited.
WIFSIGNALEDNaive(s) == Low7(s) # 0

WIFEXITED(s) == Low7(s) = 0
WIFSIGNALED(s) == Low7(s) \in 1 .. 126
WIFSTOPPED(s) == s % 256 = 127
WCOREDUMP(s) == (s \div 128) % 2 = 1

\* No other status is ever reported, so the last branch of the code stays unused.
PrintWaitStatus(s) == IF WIFEXITED(s) THEN Exited(HighByte(s))
                      ELSE IF WIFSIGNALED(s) THEN Killed(Low7(s), WCOREDUMP(s))
                      ELSE IF WIFSTOPPED(s) THEN Stopped(HighByte(s))
                      ELSE Continued
-------------------------------------------------------------------------------
Init == /\ mpc = "fork"
        /\ cpc = "none"
        /\ arg \in Args
        /\ status = None
        /\ autoreap \in BOOLEAN
        /\ last = Nothing
        /\ printed = Nothing

Fork == /\ mpc = "fork"
        /\ mpc' = "waitpid"
        /\ cpc' = "started"
        /\ UNCHANGED <<arg, status, autoreap, last, printed>>

\* waitpid blocks until there is something to report.
Report == /\ mpc = "waitpid"
          /\ status # None
          /\ printed' = PrintWaitStatus(status)
          /\ mpc' = IF WIFEXITED(status) \/ WIFSIGNALED(status) THEN "exited" ELSE "waitpid"
          /\ status' = None
          /\ UNCHANGED <<cpc, arg, autoreap, last>>

\* ECHILD, when the kernel does not keep the dead child.
NoChild == /\ mpc = "waitpid"
           /\ cpc = "ended"
           /\ status = None
           /\ mpc' = "failed"
           /\ UNCHANGED <<cpc, arg, status, autoreap, last, printed>>

Error == /\ mpc \in Failing
         /\ mpc' = "failed"
         /\ UNCHANGED <<cpc, arg, status, autoreap, last, printed>>

MainStep == Fork \/ Report \/ NoChild
-------------------------------------------------------------------------------
(* The child.  A change of its state that waitpid has not reported is      *)
(* replaced by the next one.                                               *)

Happens(e, state) == /\ cpc' = state
                     /\ last' = e
                     /\ status' = IF autoreap /\ state = "ended" THEN None ELSE Encode(e)
                     /\ UNCHANGED <<mpc, arg, autoreap, printed>>

\* The kernel keeps the low byte of the argument of exit.
Exit == /\ cpc = "started"
        /\ arg # Absent
        /\ Happens(Exited(arg % 256), "ended")

\* A stopped child is ended by SIGKILL alone, which stands here for every signal.
Kill == /\ cpc \in {"started", "stopped"}
        /\ \E sig \in KillSignals, core \in BOOLEAN : Happens(Killed(sig, core), "ended")

Stop == /\ cpc = "started"
        /\ \E sig \in StopSignals : Happens(Stopped(sig), "stopped")

Continue == /\ cpc = "stopped"
            /\ Happens(Continued, "started")

Ended == mpc \in {"exited", "failed"} /\ UNCHANGED vars

Next == MainStep \/ Error \/ Exit \/ Kill \/ Stop \/ Continue \/ Ended

Spec == Init /\ [][Next]_vars
-------------------------------------------------------------------------------
(* TypeOK: the ranges of the variables.                                    *)
Kinds == {"nothing", "exited", "killed", "dumped", "stopped", "continued"}
TypeOK == /\ mpc \in {"fork", "waitpid", "exited", "failed"}
          /\ cpc \in {"none", "started", "stopped", "ended"}
          /\ arg \in Args
          /\ status \in 0 .. 65535 \cup {None}
          /\ autoreap \in BOOLEAN
          /\ last \in [kind : Kinds, number : 0 .. 255]
          /\ printed \in [kind : Kinds, number : 0 .. 255]

(* Reports: a status that is printed says what has happened to the child   *)
(* last, by kind and by number, whatever else went unreported before it;   *)
(* and main leaves after the report of the child's end and of nothing else.*)
Reports == [][Report => /\ printed' = last
                        /\ mpc' = "exited" <=> cpc = "ended"]_vars

(* EndLeadsToExit: once the child has ended main leaves, whatever of it was*)
(* not reported and whether or not the kernel keeps the dead child for it. *)
EndLeadsToExit == cpc = "ended" ~> mpc \in {"exited", "failed"}
===============================================================================
