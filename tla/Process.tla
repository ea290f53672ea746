------------------------------- MODULE Process -------------------------------
(***************************************************************************)
(* process_template/process/process.cpp: the parent waits in sigsuspend for*)
(* the SIGUSR1 that its child sends it.  Both register functions to be run *)
(* at their exit; the child leaves with _exit, which runs none.            *)
(***************************************************************************)
EXTENDS Integers, SequencesExt

CONSTANT Failing    \* the library and system calls that may return an error

VARIABLES mpc,         \* where the parent is, by its next call
          cpc,         \* where the child is
          blocked,     \* the parent's signal mask: SIGUSR1 is blocked
          origin_mask, \* what the mask was at the start
          caught,      \* the handler is installed; until then SIGUSR1 kills
          pending,     \* SIGUSR1 is pending for the parent
          registered,  \* registered[p]: the exit functions p has registered
          output,      \* output[p]: the exit functions p has run
          target,      \* what getppid has returned to the child
          sent,        \* whom the child's signal has reached: "parent", "reaper",
                       \* "nobody", or "no": not sent
          stray        \* history: somebody else has sent SIGUSR1 to the parent

vars == <<mpc, cpc, blocked, origin_mask, caught, pending, registered, output, target,
          sent, stray>>

mask == <<blocked, origin_mask>>
exit == <<registered, output>>
signal == <<target, sent>>

Init == /\ mpc = "block"
        /\ cpc = "none"
        /\ origin_mask \in BOOLEAN
        /\ blocked = origin_mask
        /\ caught = FALSE
        /\ pending = FALSE
        /\ registered = [p \in {"parent", "child"} |-> <<>>]
        /\ output = [p \in {"parent", "child"} |-> <<>>]
        /\ target = "none"
        /\ sent = "no"
        /\ stray = FALSE

Dead == mpc \in {"exited", "killed"}
-------------------------------------------------------------------------------
(* RegisterExitFunc stops at the first call that fails, and nobody is told.*)

ExitFuncs == <<"on_exit", "atexit", "atexit", "on_exit">>

RegisterExitFunc(p) ==
  \E k \in 0 .. Len(ExitFuncs) :
    /\ k < Len(ExitFuncs) => ExitFuncs[k + 1] \in Failing
    /\ registered' = [registered EXCEPT ![p] = [j \in 1 .. k |-> j]]
    /\ UNCHANGED output
-------------------------------------------------------------------------------
\* Mutant: the signal is not blocked before the child exists.
NoSigProcMask == /\ mpc = "block"
                 /\ mpc' = "sigaction"
                 /\ UNCHANGED <<cpc, mask, caught, pending, exit, signal, stray>>

SigProcMask == /\ mpc = "block"
               /\ mpc' = "sigaction"
               /\ blocked' = TRUE
               /\ UNCHANGED <<cpc, origin_mask, caught, pending, exit, signal, stray>>

SigAction == /\ mpc = "sigaction"
             /\ mpc' = "fork"
             /\ caught' = TRUE
             /\ UNCHANGED <<cpc, mask, pending, exit, signal, stray>>

Fork == /\ mpc = "fork"
        /\ mpc' = "register"
        /\ cpc' = "register"
        /\ UNCHANGED <<mask, caught, pending, exit, signal, stray>>

Register == /\ mpc = "register"
            /\ mpc' = "sigsuspend"
            /\ RegisterExitFunc("parent")
            /\ UNCHANGED <<cpc, mask, caught, pending, signal, stray>>

\* Mutant: the parent sleeps instead of waiting for the signal.
Sleep == /\ mpc = "sigsuspend"
         /\ mpc' = "restore"
         /\ UNCHANGED <<cpc, mask, caught, pending, exit, signal, stray>>

\* sigsuspend unblocks the signal for as long as it waits: the handler has run.  It always
\* returns -1, with EINTR.
SigSuspend == /\ mpc = "sigsuspend"
              /\ pending
              /\ pending' = FALSE
              /\ mpc' = "restore"
              /\ UNCHANGED <<cpc, mask, caught, exit, signal, stray>>

\* Another signal that is pending by now is handled here.
Restore == /\ mpc = "restore"
           /\ mpc' = "return"
           /\ blocked' = origin_mask
           /\ pending' = (pending /\ origin_mask)
           /\ UNCHANGED <<cpc, origin_mask, caught, exit, signal, stray>>

\* return from main, with 0 or with -1: the exit functions run, the last one first.
RunExitFunc == /\ mpc = "return"
               /\ LET left == Len(registered["parent"]) - Len(output["parent"])
                  IN  /\ left > 0
                      /\ output' = [output EXCEPT !["parent"] =
                                      Append(@, registered["parent"][left])]
               /\ UNCHANGED <<mpc, cpc, mask, caught, pending, registered, signal, stray>>

Exit == /\ mpc = "return"
        /\ Len(output["parent"]) = Len(registered["parent"])
        /\ mpc' = "exited"
        /\ UNCHANGED <<cpc, mask, caught, pending, exit, signal, stray>>

Error == /\ \/ (mpc \in {"block", "restore"} /\ "sigprocmask" \in Failing)
            \/ mpc \in {"sigaction", "fork"} \cap Failing
         /\ mpc' = "return"
         /\ UNCHANGED <<cpc, mask, caught, pending, exit, signal, stray>>

MainStep == \/ SigProcMask \/ SigAction \/ Fork \/ Register \/ SigSuspend \/ Restore
            \/ RunExitFunc \/ Exit
-------------------------------------------------------------------------------
(* SIGUSR1 is sent to the parent while it lives.                           *)
Signal == /\ pending' = (pending \/ blocked)
          /\ mpc' = IF blocked \/ caught THEN mpc ELSE "killed"

ChildRegister == /\ cpc = "register"
                 /\ cpc' = "getppid"
                 /\ RegisterExitFunc("child")
                 /\ UNCHANGED <<mpc, mask, caught, pending, signal, stray>>

\* After two seconds.  A child that has lost its parent has been adopted.
GetPpid == /\ cpc = "getppid"
           /\ cpc' = "kill"
           /\ target' = IF Dead THEN "reaper" ELSE "parent"
           /\ UNCHANGED <<mpc, mask, caught, pending, exit, sent, stray>>

\* Mutant: the child, too, leaves by exit.
KillAndExit == /\ cpc = "kill"
               /\ cpc' = "exited"
               /\ target = "parent" /\ ~Dead
               /\ Signal
               /\ sent' = "parent"
               /\ output' = [output EXCEPT !["child"] = Reverse(registered["child"])]
               /\ UNCHANGED <<mask, caught, registered, target, stray>>

\* The parent may be gone after all; the reaper may be somebody else's process.
Kill == /\ cpc = "kill"
        /\ cpc' = "exited"
        /\ IF target = "parent" /\ ~Dead
           THEN Signal /\ sent' = "parent"
           ELSE /\ sent' \in (IF target = "parent" THEN {"nobody"} ELSE {"reaper", "nobody"})
                /\ UNCHANGED <<mpc, pending>>
        /\ UNCHANGED <<mask, caught, exit, target, stray>>

ChildStep == ChildRegister \/ GetPpid \/ Kill
-------------------------------------------------------------------------------
(* What others do to the two processes.                                    *)

Stray == /\ ~Dead
         /\ stray' = TRUE
         /\ Signal
         /\ UNCHANGED <<cpc, mask, caught, exit, signal>>

KillParent == /\ ~Dead
              /\ mpc' = "killed"
              /\ UNCHANGED <<cpc, mask, caught, pending, exit, signal, stray>>

KillChild == /\ cpc \in {"register", "getppid", "kill"}
             /\ cpc' = "killed"
             /\ UNCHANGED <<mpc, mask, caught, pending, exit, signal, stray>>

\* For ever, too, if the child was killed before it could signal.
Ended == /\ Dead \/ (mpc = "sigsuspend" /\ ~pending)
         /\ cpc \in {"none", "exited", "killed"}
         /\ UNCHANGED vars

Next == MainStep \/ Error \/ ChildStep \/ Stray \/ KillParent \/ KillChild \/ Ended

Spec == Init /\ [][Next]_vars
-------------------------------------------------------------------------------
(* TypeOK: the ranges of the variables.                                    *)
TypeOK == /\ mpc \in {"block", "sigaction", "fork", "register", "sigsuspend", "restore",
                      "return", "exited", "killed"}
          /\ cpc \in {"none", "register", "getppid", "kill", "exited", "killed"}
          /\ {blocked, origin_mask, caught, pending, stray} \subseteq BOOLEAN
          /\ registered \in [{"parent", "child"} -> Seq(1 .. Len(ExitFuncs))]
          /\ output \in [{"parent", "child"} -> Seq(1 .. Len(ExitFuncs))]
          /\ target \in {"none", "parent", "reaper"}
          /\ sent \in {"no", "parent", "reaper", "nobody"}

(* Handshake: if nobody interferes, the parent goes on past sigsuspend only*)
(* after its child's signal, however the two are scheduled, and the child's*)
(* signal reaches the parent and not the process that would have adopted it*)
Handshake == ~stray /\ mpc # "killed" =>
               /\ cpc # "none" /\ mpc \in {"restore", "return", "exited"} => sent = "parent"
               /\ sent \in {"no", "parent"}

(* ExitHandlers: of the exit functions only those of the parent are run,   *)
(* each once, the last registered first, all of them if it is not killed;  *)
(* and none of them before the signal of the child if nobody interferes.   *)
ExitHandlers == /\ output["child"] = <<>>
                /\ IsPrefix(output["parent"], Reverse(registered["parent"]))
                /\ mpc = "exited" => Len(output["parent"]) = Len(registered["parent"])
                /\ output["parent"] # <<>> => sent = "parent" \/ stray

(* SignalEndsWait: once there is a child the parent ends, unless its child *)
(* is killed: the signal is not missed if it is sent before sigsuspend.    *)
SignalEndsWait == cpc # "none" ~> Dead \/ cpc = "killed"
===============================================================================
