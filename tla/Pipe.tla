--------------------------------- MODULE Pipe ---------------------------------
(***************************************************************************)
(* process_comm_template/pipe/pipe.cpp: the parent writes the message on   *)
(* its command line into a pipe; its child reads it in chunks of BufSize,  *)
(* writes each chunk to its standard output, and ends at end-of-file.      *)
(*                                                                         *)
(* A location of a process is named after the system call it is about to   *)
(* make; "close0" and "close1" close the read end and the write end.       *)
(***************************************************************************)
EXTENDS Naturals, SequencesExt

CONSTANTS Lengths,   \* the lengths of message considered, empty ones included
          BufSize,   \* BUF_SIZE
          Capacity,  \* of the pipe
          Failing,   \* the system calls that may return -1
          Killable   \* the processes that a signal may kill

Calls == {"pipe", "fork", "close", "read", "write"}
Processes == {"parent", "child"}

ASSUME LengthsAssumption == Lengths \subseteq Nat
ASSUME SizesAssumption == BufSize \in Nat \ {0} /\ Capacity \in Nat \ {0}
ASSUME FailingAssumption == Failing \subseteq Calls
ASSUME KillableAssumption == Killable \subseteq Processes

VARIABLES message,  \* argv[1]: distinct bytes, so that their order shows
          mpc,      \* where the parent is
          cpc,      \* where the child is
          readers,  \* the processes that hold the read end
          writers,  \* the processes that hold the write end
          pipe,     \* the bytes in the pipe
          sent,     \* how many bytes of the message the parent has put in
          buf,      \* what the child's last read has returned
          out       \* what the child has written to its standard output

vars == <<message, mpc, cpc, readers, writers, pipe, sent, buf, out>>

ended == {"exited", "failed", "killed"}

Init == /\ message \in {[k \in 1 .. n |-> k] : n \in Lengths}
        /\ mpc = "pipe"
        /\ cpc = "none"
        /\ readers = {} /\ writers = {}
        /\ pipe = <<>> /\ buf = <<>> /\ out = <<>>
        /\ sent = 0

\* A process that ends loses its descriptors.
Drop(p) == readers' = readers \ {p} /\ writers' = writers \ {p}
-------------------------------------------------------------------------------
(* The parent.                                                             *)

CreatePipe == /\ mpc = "pipe"
              /\ mpc' = "fork"
              /\ readers' = {"parent"} /\ writers' = {"parent"}
              /\ UNCHANGED <<message, cpc, pipe, sent, buf, out>>

Fork == /\ mpc = "fork"
        /\ mpc' = "close0"
        /\ cpc' = "close1"
        /\ readers' = Processes /\ writers' = Processes
        /\ UNCHANGED <<message, pipe, sent, buf, out>>

ParentCloseRead == /\ mpc = "close0"
                   /\ mpc' = "write"
                   /\ readers' = readers \ {"parent"}
                   /\ UNCHANGED <<message, cpc, writers, pipe, sent, buf, out>>

\* write blocks until all bytes are in the pipe; a long message goes in piecewise.
PutBytes == /\ mpc = "write"
            /\ readers # {}
            /\ \E k \in 1 .. Capacity - Len(pipe) :
                 /\ sent + k <= Len(message)
                 /\ pipe' = pipe \o SubSeq(message, sent + 1, sent + k)
                 /\ sent' = sent + k
            /\ UNCHANGED <<message, mpc, cpc, readers, writers, buf, out>>

Written == /\ mpc = "write"
           /\ sent = Len(message)
           /\ mpc' = "close1"
           /\ UNCHANGED <<message, cpc, readers, writers, pipe, sent, buf, out>>

\* SIGPIPE: bytes are left, and nobody could read them any more.
BrokenPipe == /\ mpc = "write"
              /\ readers = {}
              /\ sent < Len(message)
              /\ mpc' = "killed"
              /\ Drop("parent")
              /\ UNCHANGED <<message, cpc, pipe, sent, buf, out>>

\* Mutant: the parent waits without closing its write end.
ParentKeepsWrite == /\ mpc = "close1"
                    /\ mpc' = "wait"
                    /\ UNCHANGED <<message, cpc, readers, writers, pipe, sent, buf, out>>

ParentCloseWrite == /\ mpc = "close1"
                    /\ mpc' = "wait"
                    /\ writers' = writers \ {"parent"}
                    /\ UNCHANGED <<message, cpc, readers, pipe, sent, buf, out>>

Wait == /\ mpc = "wait"
        /\ cpc \in ended
        /\ mpc' = "exited"
        /\ Drop("parent")
        /\ UNCHANGED <<message, cpc, pipe, sent, buf, out>>

\* The call that a location stands for.
Call(pc) == IF pc \in {"close0", "close1"} THEN "close"
            ELSE IF pc = "newline" THEN "none"    \* its result is not looked at
            ELSE pc

ParentError == /\ Call(mpc) \in Failing
               /\ mpc' = "failed"
               /\ Drop("parent")
               /\ UNCHANGED <<message, cpc, pipe, sent, buf, out>>

ParentStep == \/ CreatePipe \/ Fork \/ ParentCloseRead \/ PutBytes \/ Written
              \/ BrokenPipe \/ ParentCloseWrite \/ Wait
-------------------------------------------------------------------------------
(* The child.                                                              *)

ChildCloseWrite == /\ cpc = "close1"
                   /\ cpc' = "read"
                   /\ writers' = writers \ {"child"}
                   /\ UNCHANGED <<message, mpc, readers, pipe, sent, buf, out>>

\* read takes what is there, up to BufSize bytes, and blocks when there is none.
Read == /\ cpc = "read"
        /\ pipe # <<>>
        /\ LET k == Min({Len(pipe), BufSize})
           IN  /\ buf' = SubSeq(pipe, 1, k)
               /\ pipe' = SubSeq(pipe, k + 1, Len(pipe))
        /\ cpc' = "write"
        /\ UNCHANGED <<message, mpc, readers, writers, sent, out>>

\* Mutant: an empty pipe is taken for its end.
EmptyIsEnd == /\ cpc = "read"
              /\ pipe = <<>>
              /\ cpc' = "newline"
              /\ UNCHANGED <<message, mpc, readers, writers, pipe, sent, buf, out>>

EndOfFile == /\ cpc = "read"
             /\ pipe = <<>>
             /\ writers = {}
             /\ cpc' = "newline"
             /\ UNCHANGED <<message, mpc, readers, writers, pipe, sent, buf, out>>

WriteOut == /\ cpc = "write"
            /\ out' = out \o buf
            /\ buf' = <<>>
            /\ cpc' = "read"
            /\ UNCHANGED <<message, mpc, readers, writers, pipe, sent>>

\* Standard output takes fewer bytes than it was given.
ShortWrite == /\ cpc = "write"
              /\ "write" \in Failing
              /\ \E k \in 1 .. Len(buf) - 1 : out' = out \o SubSeq(buf, 1, k)
              /\ cpc' = "failed"
              /\ Drop("child")
              /\ UNCHANGED <<message, mpc, pipe, sent, buf>>

WriteNewline == /\ cpc = "newline"
                /\ cpc' = "close0"
                /\ UNCHANGED <<message, mpc, readers, writers, pipe, sent, buf, out>>

ChildCloseRead == /\ cpc = "close0"
                  /\ cpc' = "exited"
                  /\ Drop("child")
                  /\ UNCHANGED <<message, mpc, pipe, sent, buf, out>>

ChildError == /\ Call(cpc) \in Failing
              /\ cpc' = "failed"
              /\ Drop("child")
              /\ UNCHANGED <<message, mpc, pipe, sent, buf, out>>

ChildStep == \/ ChildCloseWrite \/ Read \/ EndOfFile \/ WriteOut
             \/ WriteNewline \/ ChildCloseRead

KillParent == /\ "parent" \in Killable
              /\ mpc \notin ended
              /\ mpc' = "killed"
              /\ Drop("parent")
              /\ UNCHANGED <<message, cpc, pipe, sent, buf, out>>

KillChild == /\ "child" \in Killable
             /\ cpc \notin ended \cup {"none"}
             /\ cpc' = "killed"
             /\ Drop("child")
             /\ UNCHANGED <<message, mpc, pipe, sent, buf, out>>

Ended == mpc \in ended /\ cpc \in ended \cup {"none"} /\ UNCHANGED vars

Next == \/ ParentStep \/ ParentError \/ KillParent
        \/ ChildStep \/ ShortWrite \/ ChildError \/ KillChild
        \/ Ended

Spec == Init /\ [][Next]_vars

\* The kernel runs both processes; no call need fail and nobody be killed.
FairSpec == Spec /\ WF_vars(ParentStep) /\ WF_vars(ChildStep)
-------------------------------------------------------------------------------
(* TypeOK: the ranges of the variables.                                    *)
TypeOK == /\ mpc \in {"pipe", "fork", "close0", "write", "close1", "wait"} \cup ended
          /\ cpc \in {"none", "close1", "read", "write", "newline", "close0"} \cup ended
          /\ readers \in SUBSET Processes
          /\ writers \in SUBSET Processes
          /\ sent \in 0 .. Len(message)
          /\ pipe \in Seq(Nat) /\ buf \in Seq(Nat) /\ out \in Seq(Nat)
          /\ Len(pipe) <= Capacity
          /\ Len(buf) <= BufSize

(* InTransit: what is on the child's output, in its buffer and in the pipe *)
(* is what the parent has put in: no byte is lost, repeated or overtaken,  *)
(* whatever the sizes of the chunks, as long as the child has not failed.  *)
InTransit == cpc # "failed" => out \o buf \o pipe = SubSeq(message, 1, sent)

(* Implements: the child comes to end-of-file only once the parent's write *)
(* end is gone, however it went, and all that was put in is on its output. *)
Abstract == INSTANCE Transfer WITH
  put <- SubSeq(message, 1, sent),
  got <- out,
  source <- IF mpc \in {"wait"} \cup ended THEN "closed" ELSE "open",
  sink <- IF cpc \in {"newline", "close0", "exited"} THEN "ended"
          ELSE IF cpc \in {"failed", "killed"} THEN "failed" ELSE "open"
Implements == Abstract!Spec

(* Terminates: both come to their end: neither the end-of-file the child   *)
(* waits for nor the room the parent's write waits for is withheld.        *)
Terminates == <>(mpc \in ended /\ cpc \in ended \cup {"none"})
===============================================================================
